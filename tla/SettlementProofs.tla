------------------------- MODULE SettlementProofs -------------------------
(***************************************************************************)
(* What Settlement promises of a message, for every set of messages, every *)
(* declaration, transport, capacity and bound.                             *)
(***************************************************************************)
EXTENDS Settlement, FiniteSetTheorems, TLAPS

USE SettlementAssumption

Deliveries == [st : States, hdr : 0..MaxCount, dels : 0..MaxCount, todo : Intents]
Jobs == [st : {"none", "waiting", "publishing"}, hdr : 0..MaxCount, todo : Intents]
Fates == {"none", "acked", "dropped", "spent", "dead"}
Losses == {"no", "crash", "refused", "full", "unsettled"}

(* The part of TypeOK that does not speak of the room and of the bounds.   *)
Shape ==
  /\ conf \in Confs
  /\ dlv \in [Messages -> Deliveries]
  /\ job \in [Messages -> Jobs]
  /\ fate \in [Messages -> Fates]
  /\ runs \in [Messages -> 0..MaxCount]
  /\ slips \in [Messages -> 0..MaxCount]
  /\ lost \in [Messages -> Losses]

(* A count that saturates stays a count, and grows unless it is full. *)
LEMMA BumpFacts ==
  ASSUME NEW n \in 0..MaxCount
  PROVE  /\ Bump(n) \in 0..MaxCount
         /\ Bump(n) <= n + 1 /\ Bump(n) >= n
         /\ Bump(n) = n + 1 \/ Bump(n) = MaxCount
  BY DEF Bump

LEMMA DeliveryFacts ==
  ASSUME NEW st \in States, NEW hdr \in 0..MaxCount, NEW dels \in 0..MaxCount
  PROVE  /\ Delivery(st, hdr, dels) \in Deliveries
         /\ Delivery(st, hdr, dels).st = st
         /\ Delivery(st, hdr, dels).hdr = hdr
         /\ Delivery(st, hdr, dels).dels = dels
  BY DEF Delivery, Deliveries, Plain, Intent, Intents, Ops

LEMMA NoDeliveryFacts == NoDelivery \in Deliveries /\ NoDelivery.st = "none"
  BY DeliveryFacts DEF NoDelivery, States

LEMMA CopyFacts ==
  ASSUME NEW st \in {"none", "waiting", "publishing"}, NEW hdr \in 0..MaxCount,
         NEW todo \in Intents
  PROVE  /\ Copy(st, hdr, todo) \in Jobs
         /\ Copy(st, hdr, todo).st = st
         /\ Copy(st, hdr, todo).hdr = hdr
         /\ Copy(st, hdr, todo).todo = todo
  BY DEF Copy, Jobs

LEMMA NoCopyFacts == NoCopy \in Jobs /\ NoCopy.st = "none"
<1>1. Plain("none") \in Intents
  BY DEF Plain, Intent, Intents, Ops
<1>2. 0 \in 0..MaxCount
  OBVIOUS
<1> QED BY <1>1, <1>2, CopyFacts DEF NoCopy

(* Whatever the handler returned, the runtime knows what to do with it. *)
LEMMA DecideFacts ==
  ASSUME NEW m \in Messages, NEW o \in Outcomes
  PROVE  Decide(m, o) \in Intents
<1>1. \A op \in Ops : Plain(op) \in Intents
  BY DEF Plain, Intent, Intents
<1>2. ASSUME NEW dead \in BOOLEAN, NEW waits \in BOOLEAN
      PROVE  SendCopy(m, dead, waits) \in Intents
  <2>1. Plain("requeue") \in Intents /\ Plain("full") \in Intents
    BY <1>1 DEF Ops
  <2>2. \A room \in BOOLEAN : Intent("copy", dead, waits, room) \in Intents
    BY <1>2 DEF Intent, Intents, Ops
  <2>3. (used < Capacity) \in BOOLEAN
    OBVIOUS
  <2>4. /\ Intent("copy", dead, waits, waits) \in Intents
        /\ Intent("copy", dead, waits, used < Capacity) \in Intents
    BY <1>2, <2>2, <2>3
  <2> QED BY <2>1, <2>4, Zenon DEF SendCopy
<1>3. Spend(m) \in Intents
  BY <1>1, <1>2 DEF Spend, Ops
<1>4. SettleRetry(m) \in Intents
  BY <1>1, <1>2, <1>3 DEF SettleRetry, Ops
<1>5. SettleNackAfter(m, o = "after") \in Intents
  <2>1. (o = "after") \in BOOLEAN
    OBVIOUS
  <2> QED BY <1>1, <1>2, <1>3, <2>1 DEF SettleNackAfter, Ops
<1>6. Plain("ack") \in Intents /\ Plain("drop") \in Intents
  BY <1>1 DEF Ops
<1> QED BY <1>4, <1>5, <1>6 DEF Decide

-----------------------------------------------------------------------------
(* A message is in one hand only. *)
Alone(m) ==
  /\ dlv[m].st # "none" => job[m].st = "none" /\ fate[m] = "none" /\ lost[m] = "no"
  /\ job[m].st # "none" => fate[m] = "none" /\ lost[m] = "no"
  /\ fate[m] # "none" => lost[m] = "no"

Hands == \A m \in Messages : Alone(m)

LEMMA InitHands == Init => Shape /\ Hands
<1> SUFFICES ASSUME Init PROVE Shape /\ Hands
  OBVIOUS
<1>1. Delivery("queued", 0, 0) \in Deliveries
  BY DeliveryFacts DEF States
<1>2. Shape
  BY <1>1, NoCopyFacts DEF Init, Shape, Fates, Losses
<1>3. Hands
  BY NoCopyFacts DEF Init, Hands, Alone
<1> QED BY <1>2, <1>3

(* Slip keeps the counters counters, and no counter falls. *)
LEMMA SlipFacts ==
  ASSUME slips \in [Messages -> 0..MaxCount], NEW S, Slip(S)
  PROVE  /\ slips' \in [Messages -> 0..MaxCount]
         /\ \A m \in Messages : slips'[m] = IF m \in S THEN Bump(slips[m]) ELSE slips[m]
  BY BumpFacts DEF Slip

LEMMA StepHands ==
  ASSUME Shape, Hands, NEW m \in Messages, Step(m)
  PROVE  Shape' /\ Hands'
<1> USE DEF Shape
<1>c. conf' = conf
  BY DEF Step
<1> USE <1>c
<1>t. /\ dlv[m] \in Deliveries /\ job[m] \in Jobs
      /\ dlv[m].hdr \in 0..MaxCount /\ dlv[m].dels \in 0..MaxCount
      /\ dlv[m].todo \in Intents /\ runs[m] \in 0..MaxCount
      /\ job[m].hdr \in 0..MaxCount
  BY DEF Deliveries, Jobs
<1>a. Alone(m)
  BY DEF Hands
<1>1. CASE Deliver(m)
  <2>1. [dlv[m] EXCEPT !.st = "running", !.dels = Bump(dlv[m].dels)] \in Deliveries
    BY <1>t, BumpFacts DEF Deliveries, States
  <2>2. dlv' = [dlv EXCEPT ![m] = [dlv[m] EXCEPT !.st = "running", !.dels = Bump(dlv[m].dels)]]
    BY <1>1 DEF Deliver
  <2>3. Shape'
    BY <1>1, <1>t, <2>1, <2>2, BumpFacts DEF Deliver
  <2>4. Hands'
    BY <1>1, <1>t, <1>a DEF Deliver, Hands, Alone
  <2> QED BY <2>3, <2>4
<1>2. CASE SettleOutcome(m)
  <2> PICK o \in Outcomes :
         /\ dlv' = [dlv EXCEPT ![m].st = "settling", ![m].todo = Decide(m, o)]
         /\ IF Decide(m, o).op = "requeue" /\ Uncounted(m) THEN Slip({m}) ELSE UNCHANGED slips
    BY <1>2 DEF SettleOutcome
  <2>1. [dlv[m] EXCEPT !.st = "settling", !.todo = Decide(m, o)] \in Deliveries
    BY <1>t, DecideFacts DEF Deliveries, States
  <2>2. slips' \in [Messages -> 0..MaxCount]
    BY SlipFacts
  <2>3. Shape'
    BY <1>2, <1>t, <2>1, <2>2 DEF SettleOutcome
  <2>4. Hands'
    BY <1>2, <1>t, <1>a DEF SettleOutcome, Hands, Alone
  <2> QED BY <2>3, <2>4
<1>3. CASE Settled(m)
  <2> USE <1>3
  <2>1. ASSUME NEW how \in Fates \ {"none"}, Ended(m, how)
        PROVE  Shape' /\ Hands'
    BY <2>1, <1>t, <1>a, NoDeliveryFacts DEF Settled, Ended, Hands, Alone, Fates
  <2>2. CASE Requeued(m)
    <3>1. /\ Delivery("queued", dlv[m].hdr, dlv[m].dels) \in Deliveries
          /\ Delivery("queued", dlv[m].hdr, dlv[m].dels).st = "queued"
      BY SMTT(30), <1>t, DeliveryFacts DEF States
    <3> QED BY <2>2, <1>t, <1>a, <3>1, NoDeliveryFacts
            DEF Settled, Requeued, Hands, Alone, Losses
  <2>3. CASE HeldBack(m)
    <3> DEFINE h == IF Counts THEN dlv[m].hdr ELSE Bump(dlv[m].hdr)
    <3>1. h \in 0..MaxCount
      BY <1>t, BumpFacts
    <3> HIDE DEF h
    <3>2. /\ Delivery("held", h, dlv[m].dels) \in Deliveries
          /\ Delivery("held", h, dlv[m].dels).st = "held"
      BY SMTT(30), <1>t, <3>1, DeliveryFacts DEF States
    <3>3. dlv' = [dlv EXCEPT ![m] = Delivery("held", h, dlv[m].dels)]
      BY <2>3 DEF HeldBack, h
    <3> QED BY <2>3, <1>t, <1>a, <3>2, <3>3 DEF Settled, HeldBack, Hands, Alone
  <2>4. CASE Copied(m)
    <3> DEFINE w == IF dlv[m].todo.waits THEN "waiting" ELSE "publishing"
               c == Copy(w, Bump(dlv[m].hdr), dlv[m].todo)
    <3>1. w \in {"waiting", "publishing"}
      OBVIOUS
    <3>2. job' = [job EXCEPT ![m] = c]
      BY <2>4 DEF Copied
    <3> HIDE DEF w
    <3>3. c \in Jobs /\ c.st # "none"
      BY <1>t, <3>1, BumpFacts, CopyFacts
    <3> HIDE DEF c
    <3> QED BY <2>4, <1>t, <1>a, <3>2, <3>3, NoDeliveryFacts
            DEF Settled, Copied, Hands, Alone
  <2>5. CASE NoFreeRecord(m)
    BY <2>5, <1>t, <1>a, NoDeliveryFacts DEF Settled, NoFreeRecord, Hands, Alone, Losses
  <2> QED BY <2>1, <2>2, <2>3, <2>4, <2>5 DEF Settled, Fates
<1>4. CASE SettleFailed(m)
  <2>1. /\ Delivery("queued", dlv[m].hdr, dlv[m].dels) \in Deliveries
        /\ Delivery("queued", dlv[m].hdr, dlv[m].dels).st = "queued"
    BY SMTT(30), <1>t, DeliveryFacts DEF States
  <2>2. slips' \in [Messages -> 0..MaxCount]
    BY <1>4, SlipFacts DEF SettleFailed
  <2> QED BY <1>4, <1>t, <1>a, <2>1, <2>2 DEF SettleFailed, Hands, Alone
<1>5. CASE CopyDue(m)
  <2>1. [job[m] EXCEPT !.st = "publishing"] \in Jobs
    BY <1>t DEF Jobs
  <2> QED BY <1>5, <1>t, <1>a, <2>1 DEF CopyDue, Hands, Alone
<1>6. CASE CopySent(m)
  <2>1. /\ Delivery("queued", job[m].hdr, 0) \in Deliveries
        /\ Delivery("queued", job[m].hdr, 0).st = "queued"
    BY <1>t, DeliveryFacts DEF States
  <2> QED BY <1>6, <1>t, <1>a, <2>1, NoCopyFacts DEF CopySent, JobEnds, Hands, Alone, Fates
<1>7. CASE CopyLost(m)
  BY <1>7, <1>t, <1>a, NoCopyFacts DEF CopyLost, JobEnds, Hands, Alone, Losses
<1>8. CASE HeldDue(m)
  <2>1. [dlv[m] EXCEPT !.st = "queued"] \in Deliveries
    BY <1>t DEF Deliveries, States
  <2> QED BY <1>8, <1>t, <1>a, <2>1 DEF HeldDue, Hands, Alone
<1> QED BY <1>1, <1>2, <1>3, <1>4, <1>5, <1>6, <1>7, <1>8 DEF Step

LEMMA CrashHands ==
  ASSUME Shape, Hands, Crash
  PROVE  Shape' /\ Hands'
<1> DEFINE inHand == {m \in Messages : dlv[m].st \in {"running", "settling"}}
           inCopy == {m \in Messages : job[m].st # "none"}
           gone   == inCopy \cup (IF Settles THEN {} ELSE inHand)
<1>1. /\ dlv' = [m \in Messages |->
                   IF m \notin inHand THEN dlv[m]
                   ELSE IF Settles THEN Delivery("queued", dlv[m].hdr, dlv[m].dels)
                   ELSE NoDelivery]
      /\ job' = [m \in Messages |-> NoCopy]
      /\ lost' = [m \in Messages |-> IF m \in gone THEN "crash" ELSE lost[m]]
      /\ Slip(inHand) /\ UNCHANGED <<conf, fate, runs>>
  BY DEF Crash
<1>2. ASSUME NEW m \in Messages
      PROVE  /\ Delivery("queued", dlv[m].hdr, dlv[m].dels) \in Deliveries
             /\ Delivery("queued", dlv[m].hdr, dlv[m].dels).st = "queued"
             /\ dlv[m] \in Deliveries
  BY SMTT(30), DeliveryFacts DEF Shape, Deliveries, States
<1>3. slips' \in [Messages -> 0..MaxCount]
  BY <1>1, SlipFacts DEF Shape
<1>4. dlv' \in [Messages -> Deliveries]
  BY <1>1, <1>2, NoDeliveryFacts
<1>5. lost' \in [Messages -> Losses]
  BY <1>1 DEF Shape, Losses
<1>6. Shape'
  BY <1>1, <1>3, <1>4, <1>5, NoCopyFacts DEF Shape
<1>7. ASSUME NEW m \in Messages PROVE Alone(m)'
  <2>1. Alone(m) /\ job'[m].st = "none" /\ fate'[m] = fate[m]
    BY <1>1, NoCopyFacts DEF Hands
  <2>2. CASE m \in inHand
    BY <1>1, <1>2, <2>1, <2>2, NoDeliveryFacts DEF Alone
  <2>3. CASE m \notin inHand
    BY <1>1, <2>1, <2>3 DEF Alone
  <2> QED BY <2>2, <2>3
<1> QED BY <1>6, <1>7 DEF Hands

LEMMA HandsInvariant == Safe => [](Shape /\ Hands)
<1>1. ASSUME Shape /\ Hands, [Next]_vars PROVE (Shape /\ Hands)'
  <2>1. CASE Crash
    BY <1>1, <2>1, CrashHands
  <2>2. CASE \E m \in Messages : Step(m)
    BY <1>1, <2>2, StepHands
  <2>3. CASE UNCHANGED vars
    BY <1>1, <2>3 DEF vars, Shape, Hands, Alone
  <2> QED BY <1>1, <2>1, <2>2, <2>3 DEF Next
<1> QED BY <1>1, InitHands, PTL DEF Safe

(* No message is ever with the broker and in a copy of the runtime at the  *)
(* same time, and one that ended or was lost does not come back, whatever  *)
(* settlements and publishes fail and wherever the process dies            *)
(* (publish_copy and keep_copy send no copy after a failed settlement).    *)
THEOREM NeverTwice == Safe => []OneLiveCopy
<1>1. Shape /\ Hands => OneLiveCopy
  BY DEF Hands, Alone, OneLiveCopy, Places
<1> QED BY <1>1, HandsInvariant, PTL

-----------------------------------------------------------------------------
(* A step of one message leaves the others alone. *)
LEMMA StepFrame ==
  ASSUME Shape, NEW m \in Messages, NEW n \in Messages, n # m, Step(m)
  PROVE  /\ dlv'[n] = dlv[n] /\ job'[n] = job[n] /\ runs'[n] = runs[n] /\ slips'[n] = slips[n]
         /\ fate'[n] = fate[n] /\ lost'[n] = lost[n]
<1> USE DEF Shape
<1>1. CASE Deliver(m)
  BY <1>1 DEF Deliver
<1>2. CASE SettleOutcome(m)
  <2>1. slips'[n] = slips[n]
    BY <1>2, SlipFacts DEF SettleOutcome
  <2>2. job' = job /\ runs' = runs /\ fate' = fate /\ lost' = lost /\ dlv'[n] = dlv[n]
    BY <1>2 DEF SettleOutcome
  <2> QED BY <2>1, <2>2
<1>3. CASE Settled(m)
  BY <1>3 DEF Settled, Ended, Requeued, HeldBack, Copied, NoFreeRecord
<1>4. CASE SettleFailed(m)
  BY <1>4, SlipFacts DEF SettleFailed
<1>5. CASE CopyDue(m)
  BY <1>5 DEF CopyDue
<1>6. CASE CopySent(m)
  BY <1>6 DEF CopySent, JobEnds
<1>7. CASE CopyLost(m)
  BY <1>7 DEF CopyLost, JobEnds
<1>8. CASE HeldDue(m)
  BY <1>8 DEF HeldDue
<1> QED BY <1>1, <1>2, <1>3, <1>4, <1>5, <1>6, <1>7, <1>8 DEF Step

(* A copy to the dead-letter name leaves, or the headers have no room for  *)
(* its count.                                                              *)
LEMMA SendDead ==
  ASSUME NEW m \in Messages
  PROVE  /\ Fits(m) => SendCopy(m, TRUE, FALSE).op = "copy" /\ SendCopy(m, TRUE, FALSE).dead
         /\ ~Fits(m) => SendCopy(m, TRUE, FALSE).op = "requeue"
<1>1. CASE Fits(m)
  BY <1>1 DEF SendCopy, Intent
<1>2. CASE ~Fits(m)
  BY <1>2 DEF SendCopy, Plain, Intent
<1> QED BY <1>1, <1>2

(* Under a cap whatever brings the message back was decided below it, or   *)
(* its headers are full.                                                   *)
LEMMA DecideBelowCap ==
  ASSUME MaxAttempts > 0, Path # "none", NEW m \in Messages, NEW o \in Outcomes,
         AtCap(m)
  PROVE  LET todo == Decide(m, o)
         IN /\ todo.op # "after"
            /\ todo.op = "requeue" => ~Fits(m)
            /\ todo.op = "copy" => todo.dead
<1>1. RedeliveryOf(m) # "subscription"
  BY DEF RedeliveryOf
<1>2. \A op \in Ops : Plain(op).op = op
  BY DEF Plain, Intent
<1>4. /\ Spend(m).op # "after" /\ (Spend(m).op = "requeue" => ~Fits(m))
      /\ Spend(m).op = "copy" => Spend(m).dead
  BY <1>2, SendDead DEF Spend, Ops
<1>5. SettleRetry(m) = Spend(m)
  BY <1>1 DEF SettleRetry
<1>6. SettleNackAfter(m, o = "after") = Spend(m)
  BY <1>1 DEF SettleNackAfter
<1>7. Decide(m, o) \in {Plain("ack"), Plain("drop"), Spend(m)}
  BY <1>5, <1>6 DEF Decide
<1> QED BY <1>2, <1>4, <1>7 DEF Ops

(* Where nothing is counted a capped delivery is requeued only for want of *)
(* room.                                                                   *)
LEMMA DecideRequeues ==
  ASSUME MaxAttempts > 0, Path # "none", ~Counts, NEW m \in Messages, NEW o \in Outcomes,
         Decide(m, o).op = "requeue"
  PROVE  Uncounted(m)
<1> SUFFICES ASSUME Fits(m), used < Capacity PROVE FALSE
  BY DEF Uncounted
<1>1. \A op \in Ops : Plain(op).op = op
  BY DEF Plain, Intent
<1>2. \A dead, waits, room : Intent("copy", dead, waits, room).op = "copy"
  BY DEF Intent
<1>3. \A dead, waits \in BOOLEAN : SendCopy(m, dead, waits).op = "copy"
  BY <1>2 DEF SendCopy
<1>4. Spend(m).op \in {"copy", "spent"}
  BY <1>1, <1>3 DEF Spend, Ops
<1>5. SettleRetry(m).op # "requeue"
  <2>1. MaxAttempts # 0
    BY SettlementAssumption
  <2>2. SettleRetry(m) = Spend(m) \/ SettleRetry(m) = SendCopy(m, FALSE, FALSE)
    BY <2>1 DEF SettleRetry
  <2> QED BY <1>3, <1>4, <2>2
<1>6. SettleNackAfter(m, o = "after").op # "requeue"
  <2> DEFINE w == o = "after"
  <2>0. w \in BOOLEAN
    OBVIOUS
  <2> HIDE DEF w
  <2>1. \/ SettleNackAfter(m, w) = Spend(m) \/ SettleNackAfter(m, w) = Plain("after")
        \/ SettleNackAfter(m, w) = SendCopy(m, FALSE, w)
    BY DEF SettleNackAfter
  <2>2. SendCopy(m, FALSE, w).op = "copy" /\ Plain("after").op = "after"
    BY <1>1, <1>3, <2>0 DEF Ops
  <2>3. SettleNackAfter(m, w).op # "requeue"
    BY <1>4, <2>1, <2>2
  <2> QED BY <2>3 DEF w
<1> QED BY <1>1, <1>5, <1>6 DEF Decide, Ops

(* What the header says of a message that may still come back: how many    *)
(* runs it accounts for, and that it is below the cap.                     *)
HeaderCap(m) ==
  /\ runs[m] <= MaxAttempts + slips[m]
  /\ dlv[m].st # "none" =>
       /\ dlv[m].hdr < MaxAttempts
       /\ runs[m] <= dlv[m].hdr + 1 + slips[m]
       /\ dlv[m].st \in {"queued", "held"} => runs[m] <= dlv[m].hdr + slips[m]
  /\ dlv[m].st = "settling" =>
       /\ dlv[m].todo.op = "requeue" => runs[m] <= dlv[m].hdr + slips[m]
       /\ dlv[m].todo.op = "after" => dlv[m].hdr + 1 < MaxAttempts
       /\ dlv[m].todo.op = "copy" /\ ~dlv[m].todo.dead => dlv[m].hdr + 1 < MaxAttempts
  /\ job[m].st # "none" =>
       /\ runs[m] <= job[m].hdr + slips[m]
       /\ ~job[m].todo.dead => job[m].hdr < MaxAttempts

LEMMA StepHeaderCap ==
  ASSUME ~Counts, MaxAttempts > 0, Path # "none",
         Shape, Hands, NEW m \in Messages, HeaderCap(m), Step(m)
  PROVE  HeaderCap(m)'
<1> DEFINE h == dlv[m].hdr
           r == runs[m]
           s == slips[m]
<1>t. /\ dlv[m] \in Deliveries /\ job[m] \in Jobs /\ dlv[m].todo \in Intents
      /\ h \in 0..MaxCount /\ r \in 0..MaxCount /\ s \in 0..MaxCount
      /\ dlv[m].dels \in 0..MaxCount /\ job[m].hdr \in 0..MaxCount
  BY DEF Shape, Deliveries, Jobs
<1>f. /\ dlv \in [Messages -> Deliveries] /\ job \in [Messages -> Jobs]
      /\ runs \in [Messages -> 0..MaxCount] /\ slips \in [Messages -> 0..MaxCount]
  BY DEF Shape
<1>b. /\ Bump(h) \in 0..MaxCount /\ Bump(h) <= h + 1 /\ Bump(h) >= h
      /\ Bump(h) = h + 1 \/ Bump(h) = MaxCount
      /\ Bump(r) \in 0..MaxCount /\ Bump(r) <= r + 1
      /\ Bump(s) \in 0..MaxCount /\ Bump(s) >= s
      /\ Bump(s) = s + 1 \/ Bump(s) = MaxCount
  BY <1>t, BumpFacts
<1>a. dlv[m].st # "none" => job[m].st = "none"
  BY DEF Hands, Alone
<1>1. CASE Deliver(m)
  <2>1. /\ dlv'[m].st = "running" /\ dlv'[m].hdr = h
        /\ runs'[m] = Bump(r) /\ slips'[m] = s /\ job'[m] = job[m]
    BY <1>1, <1>t, <1>f DEF Deliver, Deliveries
  <2>2. dlv[m].st = "queued"
    BY <1>1 DEF Deliver
  <2>3. h < MaxAttempts /\ r <= h + s
    BY <2>2 DEF HeaderCap
  <2> HIDE DEF h, r, s
  <2> QED BY <1>t, <1>a, <1>b, <2>1, <2>2, <2>3 DEF HeaderCap
<1>2. CASE SettleOutcome(m)
  <2> PICK o \in Outcomes :
         /\ dlv' = [dlv EXCEPT ![m].st = "settling", ![m].todo = Decide(m, o)]
         /\ IF Decide(m, o).op = "requeue" /\ Uncounted(m) THEN Slip({m}) ELSE UNCHANGED slips
    BY <1>2 DEF SettleOutcome
  <2> DEFINE d == Decide(m, o)
  <2>1. /\ dlv'[m].st = "settling" /\ dlv'[m].hdr = h /\ dlv'[m].todo = d
        /\ runs'[m] = r /\ job'[m] = job[m]
    BY <1>2, <1>t, <1>f DEF SettleOutcome, Deliveries
  <2>2. slips'[m] = IF d.op = "requeue" THEN Bump(s) ELSE s
    BY <1>f, SlipFacts, DecideRequeues
  <2>3. dlv[m].st = "running"
    BY <1>2 DEF SettleOutcome
  <2>4. h < MaxAttempts /\ r <= h + 1 + s
    BY <2>3 DEF HeaderCap
  <2>5. d.op = "after" \/ (d.op = "copy" /\ ~d.dead) => h + 1 < MaxAttempts
    <3>1. d.op = "after" \/ (d.op = "copy" /\ ~d.dead) => ~AtCap(m)
      BY DecideBelowCap
    <3>2. ~AtCap(m) => h + 1 < MaxAttempts
      BY <1>t DEF AtCap, AttemptOf
    <3> QED BY <3>1, <3>2
  <2> HIDE DEF h, r, s, d
  <2> QED BY <1>t, <1>a, <1>b, <2>1, <2>2, <2>3, <2>4, <2>5 DEF HeaderCap
<1>3. CASE Settled(m)
  <2>0. dlv[m].st = "settling" /\ runs'[m] = r /\ slips'[m] = s
    BY <1>3 DEF Settled
  <2>1. ASSUME NEW how, Ended(m, how) PROVE HeaderCap(m)'
    BY <2>0, <2>1, <1>t, <1>f, <1>a, NoDeliveryFacts DEF Ended, HeaderCap
  <2>2. CASE dlv[m].todo.op = "requeue" /\ Requeued(m)
    <3>1. /\ Delivery("queued", h, dlv[m].dels).st = "queued"
          /\ Delivery("queued", h, dlv[m].dels).hdr = h
      BY DEF Delivery
    <3>2. job'[m] = job[m] /\ dlv'[m] \in {Delivery("queued", h, dlv[m].dels), NoDelivery}
      BY <2>2, <1>f DEF Requeued
    <3> QED BY <2>0, <2>2, <1>t, <1>a, <3>1, <3>2, NoDeliveryFacts DEF HeaderCap
  <2>3. CASE dlv[m].todo.op = "after" /\ HeldBack(m)
    <3>1. dlv'[m] = Delivery("held", Bump(h), dlv[m].dels) /\ job'[m] = job[m]
      BY <2>3, <1>f DEF HeldBack
    <3>2. dlv'[m].st = "held" /\ dlv'[m].hdr = Bump(h)
      <4>1. /\ Delivery("held", Bump(h), dlv[m].dels).st = "held"
            /\ Delivery("held", Bump(h), dlv[m].dels).hdr = Bump(h)
        BY DEF Delivery
      <4> QED BY <3>1, <4>1
    <3>3. h + 1 < MaxAttempts /\ r <= h + 1 + s /\ r <= MaxAttempts + s
      BY <2>0, <2>3 DEF HeaderCap
    <3> HIDE DEF h, r, s
    <3> QED BY <2>0, <1>t, <1>a, <1>b, <3>1, <3>2, <3>3 DEF HeaderCap
  <2>4. CASE dlv[m].todo.op = "copy" /\ Copied(m)
    <3> DEFINE w == IF dlv[m].todo.waits THEN "waiting" ELSE "publishing"
    <3>1. dlv'[m] = NoDelivery /\ job'[m] = Copy(w, Bump(h), dlv[m].todo)
      BY <2>4, <1>f DEF Copied
    <3>2. w \in {"none", "waiting", "publishing"}
      OBVIOUS
    <3> HIDE DEF w
    <3>3. job'[m].hdr = Bump(h) /\ job'[m].todo = dlv[m].todo
      BY <3>1, <3>2, <1>t, <1>b, CopyFacts
    <3>4. /\ ~dlv[m].todo.dead => h + 1 < MaxAttempts
          /\ r <= h + 1 + s /\ r <= MaxAttempts + s
      BY <2>0, <2>4 DEF HeaderCap
    <3> HIDE DEF h, r, s
    <3> QED BY <2>0, <1>t, <1>b, <3>1, <3>3, <3>4, NoDeliveryFacts DEF HeaderCap
  <2>5. CASE NoFreeRecord(m)
    BY <2>0, <2>5, <1>t, <1>f, <1>a, NoDeliveryFacts DEF NoFreeRecord, HeaderCap
  <2> QED BY <1>3, <2>1, <2>2, <2>3, <2>4, <2>5 DEF Settled
<1>4. CASE SettleFailed(m)
  <2>1. /\ dlv'[m] = Delivery("queued", h, dlv[m].dels) /\ job'[m] = job[m]
        /\ runs'[m] = r /\ dlv[m].st = "settling"
    BY <1>4, <1>f DEF SettleFailed
  <2>2. slips'[m] = Bump(s)
    BY <1>4, <1>f, SlipFacts DEF SettleFailed
  <2>3. dlv'[m].st = "queued" /\ dlv'[m].hdr = h
    <3>1. /\ Delivery("queued", h, dlv[m].dels).st = "queued"
          /\ Delivery("queued", h, dlv[m].dels).hdr = h
      BY DEF Delivery
    <3> QED BY <2>1, <3>1
  <2>4. h < MaxAttempts /\ r <= h + 1 + s
    BY <2>1 DEF HeaderCap
  <2> HIDE DEF h, r, s
  <2> QED BY <1>t, <1>a, <1>b, <2>1, <2>2, <2>3, <2>4 DEF HeaderCap
<1>5. CASE CopyDue(m)
  <2>1. /\ dlv' = dlv /\ runs' = runs /\ slips' = slips /\ job[m].st = "waiting"
        /\ job'[m].hdr = job[m].hdr /\ job'[m].todo = job[m].todo
    BY <1>5, <1>t, <1>f DEF CopyDue, Jobs
  <2> QED BY <2>1 DEF HeaderCap
<1>6. CASE CopySent(m)
  <2>1. /\ runs' = runs /\ slips' = slips /\ job'[m] = NoCopy /\ job[m].st # "none"
        /\ dlv[m].st = "none"
    BY <1>6, <1>f, <1>a DEF CopySent, JobEnds
  <2>2. CASE job[m].todo.dead
    <3>1. dlv' = dlv
      BY <1>6, <2>2 DEF CopySent
    <3> QED BY <2>1, <3>1, NoCopyFacts DEF HeaderCap
  <2>3. CASE ~job[m].todo.dead
    <3>1. dlv'[m] = Delivery("queued", job[m].hdr, 0)
      BY <1>6, <2>3, <1>f DEF CopySent
    <3>2. dlv'[m].st = "queued" /\ dlv'[m].hdr = job[m].hdr
      BY SMTT(30), <3>1, <1>t, DeliveryFacts DEF States
    <3> QED BY <2>1, <2>3, <3>2, <1>t, NoCopyFacts DEF HeaderCap
  <2> QED BY <2>2, <2>3
<1>7. CASE CopyLost(m)
  <2>1. dlv' = dlv /\ runs' = runs /\ slips' = slips /\ job'[m] = NoCopy
    BY <1>7, <1>f DEF CopyLost, JobEnds
  <2> QED BY <2>1, NoCopyFacts DEF HeaderCap
<1>8. CASE HeldDue(m)
  <2>1. /\ job' = job /\ runs' = runs /\ slips' = slips /\ dlv[m].st = "held"
        /\ dlv'[m].st = "queued" /\ dlv'[m].hdr = h
    BY <1>8, <1>t, <1>f DEF HeldDue, Deliveries
  <2> QED BY <2>1 DEF HeaderCap
<1> QED BY <1>1, <1>2, <1>3, <1>4, <1>5, <1>6, <1>7, <1>8 DEF Step

LEMMA CrashFacts ==
  ASSUME Shape, Hands, Crash, NEW m \in Messages
  PROVE  /\ runs'[m] = runs[m] /\ job'[m] = NoCopy
         /\ \/ /\ dlv[m].st \in {"running", "settling"}
               /\ slips'[m] = Bump(slips[m])
               /\ \/ dlv'[m] = Delivery("queued", dlv[m].hdr, dlv[m].dels)
                  \/ dlv'[m] = NoDelivery
            \/ /\ dlv[m].st \notin {"running", "settling"}
               /\ slips'[m] = slips[m] /\ dlv'[m] = dlv[m]
<1> DEFINE inHand == {n \in Messages : dlv[n].st \in {"running", "settling"}}
<1>1. /\ dlv' = [n \in Messages |->
                   IF n \notin inHand THEN dlv[n]
                   ELSE IF Settles THEN Delivery("queued", dlv[n].hdr, dlv[n].dels)
                   ELSE NoDelivery]
      /\ job' = [n \in Messages |-> NoCopy]
      /\ Slip(inHand) /\ runs' = runs
  BY DEF Crash
<1>2. slips'[m] = IF m \in inHand THEN Bump(slips[m]) ELSE slips[m]
  BY <1>1, SlipFacts DEF Shape
<1> QED BY <1>1, <1>2

LEMMA CrashHeaderCap ==
  ASSUME MaxAttempts > 0, Shape, Hands, Crash, NEW m \in Messages, HeaderCap(m)
  PROVE  HeaderCap(m)'
<1>t. /\ dlv[m] \in Deliveries /\ dlv[m].hdr \in 0..MaxCount /\ dlv[m].dels \in 0..MaxCount
      /\ runs[m] \in 0..MaxCount /\ slips[m] \in 0..MaxCount
  BY DEF Shape, Deliveries
<1>b. /\ Bump(slips[m]) \in 0..MaxCount /\ Bump(slips[m]) >= slips[m]
      /\ Bump(slips[m]) = slips[m] + 1 \/ Bump(slips[m]) = MaxCount
  BY <1>t, BumpFacts
<1>d. /\ Delivery("queued", dlv[m].hdr, dlv[m].dels).st = "queued"
      /\ Delivery("queued", dlv[m].hdr, dlv[m].dels).hdr = dlv[m].hdr
  BY DEF Delivery
<1> QED BY <1>t, <1>b, <1>d, CrashFacts, NoCopyFacts, NoDeliveryFacts DEF HeaderCap

-----------------------------------------------------------------------------
(* A broker that counts and holds delays itself is handed no copy but the  *)
(* dead letter.                                                            *)
LEMMA DecideNative ==
  ASSUME Counts, Native, NEW m \in Messages, NEW o \in Outcomes,
         MaxAttempts > 0
  PROVE  Decide(m, o).op = "copy" => Decide(m, o).dead
<1>1. \A op \in Ops : Plain(op).op = op
  BY DEF Plain, Intent
<1>2. RedeliveryOf(m) = "dead" =>
        SendCopy(m, TRUE, FALSE).dead \/ SendCopy(m, TRUE, FALSE).op # "copy"
  BY SendDead
<1>3. Spend(m).op = "copy" => Spend(m).dead
  BY <1>1, <1>2 DEF Spend, Ops
<1>4. Decide(m, o) \in {Plain("ack"), Plain("drop"), Plain("requeue"), Plain("after"), Spend(m)}
  BY DEF Decide, SettleRetry, SettleNackAfter
<1> QED BY <1>1, <1>3, <1>4 DEF Ops

(* What the broker's own count says: it is the number of runs, and what    *)
(* comes back is below the cap.                                            *)
NativeCap(m) ==
  /\ runs[m] <= MaxAttempts + slips[m]
  /\ dlv[m].st # "none" => dlv[m].dels = runs[m]
  /\ dlv[m].st \in {"queued", "held"} => runs[m] < MaxAttempts + slips[m]
  /\ dlv[m].st = "settling" =>
       /\ dlv[m].todo.op \in {"requeue", "after"} => runs[m] < MaxAttempts + slips[m]
       /\ dlv[m].todo.op = "copy" => dlv[m].todo.dead
  /\ job[m].st # "none" => job[m].todo.dead

LEMMA StepNativeCap ==
  ASSUME Counts, Native, MaxAttempts > 0, Path # "none",
         Shape, Hands, NEW m \in Messages, NativeCap(m), Step(m)
  PROVE  NativeCap(m)'
<1> DEFINE r == runs[m]
           s == slips[m]
           d == dlv[m]
<1>t. /\ d \in Deliveries /\ job[m] \in Jobs /\ d.todo \in Intents
      /\ r \in 0..MaxCount /\ s \in 0..MaxCount /\ d.dels \in 0..MaxCount
  BY DEF Shape, Deliveries, Jobs
<1>f. /\ dlv \in [Messages -> Deliveries] /\ job \in [Messages -> Jobs]
      /\ runs \in [Messages -> 0..MaxCount] /\ slips \in [Messages -> 0..MaxCount]
  BY DEF Shape
<1>b. /\ Bump(r) \in 0..MaxCount /\ Bump(r) <= r + 1
      /\ Bump(s) \in 0..MaxCount /\ Bump(s) >= s
      /\ Bump(s) = s + 1 \/ Bump(s) = MaxCount
  BY <1>t, BumpFacts
<1>a. d.st # "none" => job[m].st = "none"
  BY DEF Hands, Alone
<1>1. CASE Deliver(m)
  <2>1. /\ dlv'[m].st = "running" /\ dlv'[m].dels = Bump(d.dels)
        /\ runs'[m] = Bump(r) /\ slips'[m] = s /\ job'[m] = job[m]
    BY <1>1, <1>t, <1>f DEF Deliver, Deliveries
  <2>2. d.st = "queued"
    BY <1>1 DEF Deliver
  <2>3. r < MaxAttempts + s /\ d.dels = r
    BY <2>2 DEF NativeCap
  <2> HIDE DEF d, r, s
  <2> QED BY <1>t, <1>a, <1>b, <2>1, <2>2, <2>3 DEF NativeCap
<1>2. CASE SettleOutcome(m)
  <2> PICK o \in Outcomes :
         /\ dlv' = [dlv EXCEPT ![m].st = "settling", ![m].todo = Decide(m, o)]
         /\ IF Decide(m, o).op = "requeue" /\ Uncounted(m) THEN Slip({m}) ELSE UNCHANGED slips
    BY <1>2 DEF SettleOutcome
  <2> DEFINE todo == Decide(m, o)
  <2>1. /\ dlv'[m].st = "settling" /\ dlv'[m].dels = d.dels /\ dlv'[m].todo = todo
        /\ runs'[m] = r /\ job'[m] = job[m]
    BY <1>2, <1>t, <1>f DEF SettleOutcome, Deliveries
  <2>s. slips'[m] = IF todo.op = "requeue" /\ ~Fits(m) THEN Bump(s) ELSE s
    BY <1>f, SlipFacts DEF Uncounted
  <2>2. d.st = "running"
    BY <1>2 DEF SettleOutcome
  <2>3. r <= MaxAttempts + s /\ d.dels = r
    BY <2>2 DEF NativeCap
  <2>4. todo.op \in {"requeue", "after"} => r < MaxAttempts + slips'[m]
    <3>1. todo.op \in {"requeue", "after"} => ~AtCap(m) \/ (todo.op = "requeue" /\ ~Fits(m))
      BY DecideBelowCap
    <3>2. ~AtCap(m) => r < MaxAttempts
      BY <1>t, <2>3 DEF AtCap, AttemptOf, RedeliveryCount
    <3>3. slips'[m] \in Nat /\ slips'[m] >= s
      BY <1>t, <1>b, <2>s
    <3>4. CASE ~AtCap(m)
      BY <1>t, <3>2, <3>3, <3>4
    <3>5. CASE todo.op = "requeue" /\ ~Fits(m)
      <4>1. slips'[m] = Bump(s)
        BY <2>s, <3>5
      <4> HIDE DEF r, s
      <4> QED BY <1>t, <1>b, <2>3, <4>1
    <3> QED BY <3>1, <3>4, <3>5
  <2>5. todo.op = "copy" => todo.dead
    BY DecideNative
  <2>6. slips'[m] \in Nat /\ slips'[m] >= s
    BY <1>t, <1>b, <2>s
  <2> HIDE DEF d, r, s, todo
  <2> QED BY <1>t, <1>a, <2>1, <2>2, <2>3, <2>4, <2>5, <2>6 DEF NativeCap
<1>3. CASE Settled(m)
  <2>0. /\ d.st = "settling" /\ runs'[m] = r /\ slips'[m] = s
        /\ r <= MaxAttempts + s /\ d.dels = r
    BY <1>3 DEF Settled, NativeCap
  <2>1. ASSUME dlv'[m] = NoDelivery, job'[m] = job[m] PROVE NativeCap(m)'
    BY <2>0, <2>1, <1>t, <1>a, NoDeliveryFacts DEF NativeCap
  <2>2. ASSUME d.todo.op \in {"requeue", "after"}, job'[m] = job[m],
               NEW st \in {"queued", "held"}, NEW hdr, dlv'[m] = Delivery(st, hdr, d.dels)
        PROVE  NativeCap(m)'
    <3>1. dlv'[m].st = st /\ dlv'[m].dels = d.dels
      BY <2>2 DEF Delivery
    <3>2. r < MaxAttempts + s
      BY <2>0, <2>2 DEF NativeCap
    <3> QED BY <2>0, <2>2, <3>1, <3>2, <1>t, <1>a DEF NativeCap
  <2>3. CASE d.todo.op = "requeue" /\ Requeued(m)
    <3>1. job'[m] = job[m] /\ dlv'[m] \in {Delivery("queued", d.hdr, d.dels), NoDelivery}
      BY <2>3, <1>f DEF Requeued
    <3> QED BY <2>1, <2>2, <2>3, <3>1
  <2>4. CASE d.todo.op = "after" /\ HeldBack(m)
    <3>1. job'[m] = job[m] /\ dlv'[m] = Delivery("held", d.hdr, d.dels)
      BY <2>4, <1>f DEF HeldBack
    <3> QED BY <2>2, <2>4, <3>1
  <2>5. CASE d.todo.op = "copy" /\ Copied(m)
    <3>1. dlv'[m] = NoDelivery /\ job'[m].todo = d.todo
      BY <2>5, <1>f DEF Copied, Copy
    <3>2. d.todo.dead
      BY <2>0, <2>5 DEF NativeCap
    <3> QED BY <2>0, <3>1, <3>2, <1>t, NoDeliveryFacts DEF NativeCap
  <2>6. CASE NoFreeRecord(m)
    BY <2>1, <2>6, <1>f DEF NoFreeRecord
  <2>7. ASSUME NEW how, Ended(m, how) PROVE NativeCap(m)'
    BY <2>1, <2>7, <1>f DEF Ended
  <2> QED BY <1>3, <2>3, <2>4, <2>5, <2>6, <2>7 DEF Settled
<1>4. CASE SettleFailed(m)
  <2>1. /\ dlv'[m] = Delivery("queued", d.hdr, d.dels) /\ job'[m] = job[m]
        /\ runs'[m] = r /\ d.st = "settling"
    BY <1>4, <1>f DEF SettleFailed
  <2>2. slips'[m] = Bump(s)
    BY <1>4, <1>f, SlipFacts DEF SettleFailed
  <2>3. dlv'[m].st = "queued" /\ dlv'[m].dels = d.dels
    BY <2>1 DEF Delivery
  <2>4. d.dels = r /\ r <= MaxAttempts + s
    BY <2>1 DEF NativeCap
  <2> HIDE DEF d, r, s
  <2> QED BY <1>t, <1>a, <1>b, <2>1, <2>2, <2>3, <2>4 DEF NativeCap
<1>5. CASE CopyDue(m)
  <2>1. /\ dlv' = dlv /\ runs' = runs /\ slips' = slips /\ job[m].st = "waiting"
        /\ job'[m].todo = job[m].todo
    BY <1>5, <1>t, <1>f DEF CopyDue, Jobs
  <2> QED BY <2>1 DEF NativeCap
<1>6. CASE CopySent(m)
  <2>1. job[m].st # "none" /\ runs' = runs /\ slips' = slips /\ job'[m] = NoCopy
    BY <1>6, <1>f DEF CopySent, JobEnds
  <2>2. dlv' = dlv
    BY <1>6, <2>1 DEF CopySent, NativeCap
  <2> QED BY <2>1, <2>2, NoCopyFacts DEF NativeCap
<1>7. CASE CopyLost(m)
  <2>1. dlv' = dlv /\ runs' = runs /\ slips' = slips /\ job'[m] = NoCopy
    BY <1>7, <1>f DEF CopyLost, JobEnds
  <2> QED BY <2>1, NoCopyFacts DEF NativeCap
<1>8. CASE HeldDue(m)
  <2>1. /\ job' = job /\ runs' = runs /\ slips' = slips /\ d.st = "held"
        /\ dlv'[m].st = "queued" /\ dlv'[m].dels = d.dels
    BY <1>8, <1>t, <1>f DEF HeldDue, Deliveries
  <2> QED BY <2>1 DEF NativeCap
<1> QED BY <1>1, <1>2, <1>3, <1>4, <1>5, <1>6, <1>7, <1>8 DEF Step

LEMMA CrashNativeCap ==
  ASSUME MaxAttempts > 0, Shape, Hands, Crash, NEW m \in Messages, NativeCap(m)
  PROVE  NativeCap(m)'
<1>t. runs[m] \in 0..MaxCount /\ slips[m] \in 0..MaxCount
  BY DEF Shape
<1>b. /\ Bump(slips[m]) \in 0..MaxCount /\ Bump(slips[m]) >= slips[m]
      /\ Bump(slips[m]) = slips[m] + 1 \/ Bump(slips[m]) = MaxCount
  BY <1>t, BumpFacts
<1>d. /\ Delivery("queued", dlv[m].hdr, dlv[m].dels).st = "queued"
      /\ Delivery("queued", dlv[m].hdr, dlv[m].dels).dels = dlv[m].dels
  BY DEF Delivery
<1> QED BY <1>t, <1>b, <1>d, CrashFacts, NoCopyFacts, NoDeliveryFacts DEF NativeCap

-----------------------------------------------------------------------------
Capped == MaxAttempts > 0 /\ Path # "none" /\ (Counts => Native)

CapInv(m) == IF Counts THEN NativeCap(m) ELSE HeaderCap(m)

(* The cap holds on every transport but one that counts and leaves delays  *)
(* to the runtime: no message is handed to its handler more often than     *)
(* max_attempts, and once more for each delivery the broker took back or   *)
(* got back for want of room, however the handler mixes its retries and    *)
(* whatever fails.  Where nothing is counted the header keeps the cap; a   *)
(* broker that counts and delays is asked for its count before it gets the *)
(* delay (attempt_of, redelivery_of, settle_retry, settle_nack_after).     *)
THEOREM CapKept == Safe => []CapHolds
<1> DEFINE Inv == Capped => \A m \in Messages : CapInv(m)
<1>1. Init => Inv
  <2> SUFFICES ASSUME Init, Capped, NEW m \in Messages PROVE NativeCap(m) /\ HeaderCap(m)
    BY DEF CapInv
  <2>1. /\ Delivery("queued", 0, 0).st = "queued" /\ Delivery("queued", 0, 0).hdr = 0
        /\ Delivery("queued", 0, 0).dels = 0
    BY DEF Delivery
  <2>2. dlv[m] = Delivery("queued", 0, 0) /\ job[m] = NoCopy /\ runs[m] = 0 /\ slips[m] = 0
    BY DEF Init
  <2> QED BY <2>1, <2>2, NoCopyFacts DEF NativeCap, HeaderCap, Capped
<1>2. ASSUME Shape, Hands, Inv, [Next]_vars PROVE Inv'
  <2>1. conf' = conf
    BY <1>2 DEF Next, Crash, Step, vars
  <2>2. Capped' = Capped /\ Counts' = Counts
    BY <2>1 DEF Capped, Path, Counts, Native
  <2> SUFFICES ASSUME Capped, NEW n \in Messages PROVE CapInv(n)'
    BY <2>2
  <2>3. CapInv(n) /\ MaxAttempts > 0 /\ Path # "none" /\ (Counts => Native)
    BY <1>2 DEF Capped
  <2>4. CASE Crash
    BY <1>2, <2>2, <2>3, <2>4, CrashNativeCap, CrashHeaderCap DEF CapInv
  <2>5. ASSUME NEW m \in Messages, Step(m) PROVE CapInv(n)'
    <3>1. CASE n = m
      BY <1>2, <2>2, <2>3, <2>5, <3>1, StepNativeCap, StepHeaderCap DEF CapInv
    <3>2. CASE n # m
      <4>1. /\ dlv'[n] = dlv[n] /\ job'[n] = job[n]
            /\ runs'[n] = runs[n] /\ slips'[n] = slips[n]
        BY <1>2, <2>5, <3>2, StepFrame
      <4> QED BY <2>2, <2>3, <4>1 DEF CapInv, NativeCap, HeaderCap
    <3> QED BY <3>1, <3>2
  <2>6. CASE UNCHANGED vars
    BY <2>2, <2>3, <2>6 DEF vars, CapInv, NativeCap, HeaderCap
  <2> QED BY <1>2, <2>4, <2>5, <2>6 DEF Next
<1>3. Inv => CapHolds
  BY DEF CapHolds, Capped, CapInv, NativeCap, HeaderCap
<1> HIDE DEF Inv
<1> QED BY <1>1, <1>2, <1>3, HandsInvariant, PTL DEF Safe

-----------------------------------------------------------------------------
(* Nothing disappears. *)

Somewhere(m) == dlv[m].st # "none" \/ job[m].st # "none" \/ fate[m] # "none" \/ lost[m] # "no"

(* A broker that counts, delays and settles, with no dead letter declared. *)
Safest == Counts /\ Native /\ Settles /\ ~DeadLetter

(* Over such a broker the runtime never holds a message itself. *)
Brokered(m) ==
  Safest => /\ job[m].st = "none" /\ lost[m] # "crash"
            /\ dlv[m].st = "settling" => dlv[m].todo.op # "copy"

Kept(m) == Somewhere(m) /\ Brokered(m)

LEMMA DecideBrokered ==
  ASSUME Safest, NEW m \in Messages, NEW o \in Outcomes
  PROVE  Decide(m, o).op # "copy"
<1>1. \A op \in Ops : Plain(op).op = op
  BY DEF Plain, Intent
<1>2. RedeliveryOf(m) # "dead"
  BY DEF RedeliveryOf, Safest
<1>3. Decide(m, o) \in {Plain("ack"), Plain("drop"), Plain("requeue"), Plain("after"), Plain("spent")}
  BY <1>2 DEF Decide, SettleRetry, SettleNackAfter, Spend, Safest
<1> QED BY <1>1, <1>3 DEF Ops

LEMMA StepKept ==
  ASSUME Shape, Hands, NEW m \in Messages, Kept(m), Step(m)
  PROVE  Kept(m)'
<1>f. /\ dlv \in [Messages -> Deliveries] /\ job \in [Messages -> Jobs]
      /\ fate \in [Messages -> Fates] /\ lost \in [Messages -> Losses]
  BY DEF Shape
<1>t. dlv[m] \in Deliveries /\ job[m] \in Jobs
  BY <1>f
<1>s. Safest' = Safest
  BY DEF Step, Safest, Counts, Native, Settles, DeadLetter
<1>d. \A st, hdr, dels : Delivery(st, hdr, dels).st = st
  BY DEF Delivery
<1> USE DEF Kept, Somewhere, Brokered
<1>1. CASE Deliver(m)
  <2>1. dlv'[m].st = "running" /\ job' = job /\ lost' = lost
    BY <1>1, <1>f, <1>t DEF Deliver, Deliveries
  <2> QED BY <1>s, <2>1
<1>2. CASE SettleOutcome(m)
  <2> PICK o \in Outcomes : dlv' = [dlv EXCEPT ![m].st = "settling", ![m].todo = Decide(m, o)]
    BY <1>2 DEF SettleOutcome
  <2>1. dlv'[m].st = "settling" /\ dlv'[m].todo = Decide(m, o) /\ job' = job /\ lost' = lost
    BY <1>2, <1>f, <1>t DEF SettleOutcome, Deliveries
  <2> QED BY <1>s, <2>1, DecideBrokered
<1>3. CASE Settled(m)
  <2>0. dlv[m].st = "settling"
    BY <1>3 DEF Settled
  <2>1. ASSUME NEW how \in {"acked", "dropped", "spent"}, Ended(m, how) PROVE Kept(m)'
    BY <1>s, <1>f, <2>1, NoDeliveryFacts DEF Ended
  <2>2. CASE Requeued(m)
    <3>1. CASE Settles
      <4>1. dlv'[m].st = "queued" /\ job' = job /\ lost' = lost
        BY <1>d, <1>f, <2>2, <3>1 DEF Requeued
      <4> QED BY <1>s, <4>1
    <3>2. CASE ~Settles
      <4>1. lost'[m] = "unsettled" /\ ~Safest
        BY <1>f, <2>2, <3>2 DEF Requeued, Safest
      <4> QED BY <1>s, <4>1
    <3> QED BY <3>1, <3>2
  <2>3. CASE HeldBack(m)
    <3>1. dlv'[m].st = "held" /\ job' = job /\ lost' = lost
      BY <1>d, <1>f, <2>3 DEF HeldBack
    <3> QED BY <1>s, <3>1
  <2>4. CASE dlv[m].todo.op = "copy" /\ Copied(m)
    <3>1. job'[m].st # "none" /\ ~Safest
      BY <1>f, <2>0, <2>4 DEF Copied, Copy
    <3> QED BY <1>s, <3>1
  <2>5. CASE NoFreeRecord(m)
    BY <1>s, <1>f, <2>5, NoDeliveryFacts DEF NoFreeRecord
  <2> QED BY <1>3, <2>1, <2>2, <2>3, <2>4, <2>5 DEF Settled
<1>4. CASE SettleFailed(m)
  <2>1. dlv'[m].st = "queued" /\ job' = job /\ lost' = lost
    BY <1>d, <1>f, <1>4 DEF SettleFailed
  <2> QED BY <1>s, <2>1
<1>5. CASE CopyDue(m)
  <2>1. job[m].st # "none" /\ job'[m].st = "publishing"
    BY <1>5, <1>f, <1>t DEF CopyDue, Jobs
  <2> QED BY <1>s, <2>1
<1>6. CASE CopySent(m)
  <2>1. job[m].st # "none" /\ (fate'[m] = "dead" \/ dlv'[m].st = "queued")
    BY <1>d, <1>f, <1>6 DEF CopySent, JobEnds
  <2> QED BY <1>s, <2>1
<1>7. CASE CopyLost(m)
  <2>1. job[m].st # "none" /\ lost'[m] = "refused"
    BY <1>f, <1>7 DEF CopyLost, JobEnds
  <2> QED BY <1>s, <2>1
<1>8. CASE HeldDue(m)
  <2>1. dlv'[m].st = "queued" /\ job' = job /\ lost' = lost
    BY <1>8, <1>f, <1>t DEF HeldDue, Deliveries
  <2> QED BY <1>s, <2>1
<1> QED BY <1>1, <1>2, <1>3, <1>4, <1>5, <1>6, <1>7, <1>8 DEF Step

(* A crash loses what only the runtime held; the rest goes back to a       *)
(* broker that settles.                                                    *)
LEMMA CrashKept ==
  ASSUME Shape, Hands, Crash, NEW m \in Messages, Kept(m)
  PROVE  Kept(m)'
<1> DEFINE inHand == {n \in Messages : dlv[n].st \in {"running", "settling"}}
           inCopy == {n \in Messages : job[n].st # "none"}
           gone   == inCopy \cup (IF Settles THEN {} ELSE inHand)
<1>1. /\ dlv' = [n \in Messages |->
                   IF n \notin inHand THEN dlv[n]
                   ELSE IF Settles THEN Delivery("queued", dlv[n].hdr, dlv[n].dels)
                   ELSE NoDelivery]
      /\ job' = [n \in Messages |-> NoCopy]
      /\ lost' = [n \in Messages |-> IF n \in gone THEN "crash" ELSE lost[n]]
      /\ UNCHANGED <<conf, fate>>
  BY DEF Crash
<1>s. Safest' = Safest /\ (Safest => Settles)
  BY <1>1 DEF Safest, Counts, Native, Settles, DeadLetter
<1>d. Delivery("queued", dlv[m].hdr, dlv[m].dels).st = "queued"
  BY DEF Delivery
<1>2. /\ job'[m].st = "none" /\ fate'[m] = fate[m]
      /\ lost'[m] = IF m \in gone THEN "crash" ELSE lost[m]
  BY <1>1, NoCopyFacts
<1>3. CASE m \in gone
  <2>1. lost'[m] = "crash" /\ ~Safest
    BY <1>2, <1>3, <1>s DEF Kept, Brokered
  <2> QED BY <1>s, <2>1 DEF Kept, Somewhere, Brokered
<1>4. CASE m \notin gone /\ m \in inHand
  <2>1. dlv'[m].st = "queued" /\ lost'[m] = lost[m]
    BY <1>1, <1>2, <1>4, <1>d
  <2> QED BY <1>s, <1>2, <2>1 DEF Kept, Somewhere, Brokered
<1>5. CASE m \notin gone /\ m \notin inHand
  <2>1. dlv'[m] = dlv[m] /\ lost'[m] = lost[m] /\ job[m].st = "none"
    BY <1>1, <1>2, <1>5
  <2> QED BY <1>s, <1>2, <2>1 DEF Kept, Somewhere, Brokered
<1> QED BY <1>3, <1>4, <1>5

(* A message disappears only by what the code says may lose it, and a      *)
(* crash loses none over a broker that counts, settles and delays while no *)
(* dead letter is declared: nothing falls between the drop of a delivery   *)
(* and its copy, or between a copy and its delivery (publish_copy,         *)
(* keep_copy, requeue, publish_lost).                                      *)
THEOREM NoneDisappears == Safe => []NothingLost
<1> DEFINE Inv == \A m \in Messages : Kept(m)
<1>1. Init => Inv
  <2>1. Delivery("queued", 0, 0).st = "queued"
    BY DEF Delivery
  <2> QED BY <2>1, NoCopyFacts DEF Init, Kept, Somewhere, Brokered
<1>2. ASSUME Shape, Hands, Inv, [Next]_vars PROVE Inv'
  <2> SUFFICES ASSUME NEW n \in Messages PROVE Kept(n)'
    OBVIOUS
  <2>1. Kept(n)
    BY <1>2
  <2>2. CASE Crash
    BY <1>2, <2>1, <2>2, CrashKept
  <2>3. ASSUME NEW m \in Messages, Step(m) PROVE Kept(n)'
    <3>1. CASE n = m
      BY <1>2, <2>1, <2>3, <3>1, StepKept
    <3>2. CASE n # m
      <4>1. /\ dlv'[n] = dlv[n] /\ job'[n] = job[n]
            /\ fate'[n] = fate[n] /\ lost'[n] = lost[n]
        BY <1>2, <2>3, <3>2, StepFrame
      <4>2. Safest' = Safest
        BY <2>3 DEF Step, Safest, Counts, Native, Settles, DeadLetter
      <4> QED BY <2>1, <4>1, <4>2 DEF Kept, Somewhere, Brokered
    <3> QED BY <3>1, <3>2
  <2>4. CASE UNCHANGED vars
    BY <2>1, <2>4 DEF vars, Kept, Somewhere, Brokered, Safest, Counts, Native, Settles, DeadLetter
  <2> QED BY <1>2, <2>2, <2>3, <2>4 DEF Next
<1>3. Inv => NothingLost
  BY DEF NothingLost, Places, Kept, Somewhere, Brokered, Safest
<1> HIDE DEF Inv
<1> QED BY <1>1, <1>2, <1>3, HandsInvariant, PTL DEF Safe

-----------------------------------------------------------------------------
(* The host's store of delayed copies. *)

DeliveryRoom(m) == dlv[m].st = "settling" /\ dlv[m].todo.room
CopyRoom(m) == job[m].st # "none" /\ job[m].todo.room

InDeliveries == {m \in Messages : dlv[m].st = "settling" /\ dlv[m].todo.room}
InCopies == {m \in Messages : job[m].st # "none" /\ job[m].todo.room}

One(b) == IF b THEN 1 ELSE 0

(* A settlement that has room is that of a copy: every other settlement    *)
(* that takes effect had none to give back.                                *)
RoomInv ==
  /\ used \in Nat /\ used <= Capacity
  /\ used = Cardinality(InDeliveries) + Cardinality(InCopies)
  /\ \A m \in Messages : DeliveryRoom(m) => dlv[m].todo.op = "copy"

(* Room is taken for a copy only, and only while the store has some. *)
LEMMA DecideRoom ==
  ASSUME NEW m \in Messages, NEW o \in Outcomes, Decide(m, o).room
  PROVE  Decide(m, o).op = "copy" /\ used < Capacity
<1>1. \A op \in Ops : Plain(op).room = FALSE
  BY DEF Plain, Intent
<1>2. ASSUME NEW dead \in BOOLEAN, NEW waits \in BOOLEAN, SendCopy(m, dead, waits).room
      PROVE  SendCopy(m, dead, waits).op = "copy" /\ used < Capacity
  <2>1. \A op \in {"requeue", "full"} : ~Plain(op).room
    BY <1>1 DEF Ops
  <2>2. \A room \in BOOLEAN : /\ Intent("copy", dead, waits, room).room <=> room
                              /\ Intent("copy", dead, waits, room).op = "copy"
    BY DEF Intent
  <2>3. Fits(m) /\ ~(waits /\ ~(used < Capacity))
    BY <1>2, <2>1 DEF SendCopy
  <2>4. CASE Path = "published"
    BY <1>2, <2>2, <2>3, <2>4 DEF SendCopy
  <2>5. CASE Path # "published"
    <3>1. SendCopy(m, dead, waits) = Intent("copy", dead, waits, used < Capacity)
      BY <2>3, <2>5 DEF SendCopy
    <3>2. (used < Capacity) \in BOOLEAN
      OBVIOUS
    <3>3. /\ Intent("copy", dead, waits, used < Capacity).room <=> used < Capacity
          /\ Intent("copy", dead, waits, used < Capacity).op = "copy"
      BY <2>2, <3>2
    <3> QED BY <1>2, <3>1, <3>3
  <2> QED BY <2>4, <2>5
<1>3. /\ Plain("ack").room = FALSE /\ Plain("drop").room = FALSE /\ Plain("requeue").room = FALSE
      /\ Plain("after").room = FALSE /\ Plain("spent").room = FALSE
  BY <1>1 DEF Ops
<1>4. Spend(m).room => Spend(m).op = "copy" /\ used < Capacity
  BY <1>2, <1>3 DEF Spend
<1>5. SettleRetry(m).room => SettleRetry(m).op = "copy" /\ used < Capacity
  BY <1>2, <1>3, <1>4 DEF SettleRetry
<1>6. SettleNackAfter(m, o = "after").room =>
        SettleNackAfter(m, o = "after").op = "copy" /\ used < Capacity
  <2>1. (o = "after") \in BOOLEAN
    OBVIOUS
  <2> QED BY <1>2, <1>3, <1>4, <2>1 DEF SettleNackAfter
<1> QED BY <1>3, <1>5, <1>6 DEF Decide

(* One element in or out of a finite set. *)
LEMMA OneChanges ==
  ASSUME NEW S, IsFiniteSet(S), NEW x, NEW b \in BOOLEAN,
         NEW T, T = IF b THEN S \cup {x} ELSE S \ {x}
  PROVE  /\ IsFiniteSet(T)
         /\ Cardinality(S) \in Nat /\ Cardinality(T) \in Nat
         /\ Cardinality(T) + One(x \in S) = Cardinality(S) + One(b)
         /\ x \in S => Cardinality(S) >= 1
<1>1. Cardinality(S) \in Nat /\ (x \in S => Cardinality(S) # 0)
  BY FS_CardinalityType, FS_EmptySet
<1>2. CASE b
  <2>1. T = S \cup {x} /\ One(b) = 1
    BY <1>2 DEF One
  <2>2. CASE x \in S
    <3>1. One(x \in S) = 1 /\ Cardinality(T) = Cardinality(S) /\ IsFiniteSet(T)
      BY <2>1, <2>2, FS_AddElement DEF One
    <3> QED BY <1>1, <2>1, <2>2, <3>1
  <2>3. CASE x \notin S
    <3>1. One(x \in S) = 0 /\ Cardinality(T) = Cardinality(S) + 1 /\ IsFiniteSet(T)
      BY <2>1, <2>3, FS_AddElement DEF One
    <3> QED BY <1>1, <2>1, <2>3, <3>1
  <2> QED BY <2>2, <2>3
<1>3. CASE ~b
  <2>1. T = S \ {x} /\ One(b) = 0
    BY <1>3 DEF One
  <2>2. CASE x \in S
    <3>1. One(x \in S) = 1 /\ Cardinality(T) = Cardinality(S) - 1 /\ IsFiniteSet(T)
      BY <2>1, <2>2, FS_RemoveElement DEF One
    <3> QED BY <1>1, <2>1, <2>2, <3>1
  <2>3. CASE x \notin S
    <3>1. One(x \in S) = 0 /\ Cardinality(T) = Cardinality(S) /\ IsFiniteSet(T)
      BY <2>1, <2>3, FS_RemoveElement DEF One
    <3> QED BY <1>1, <2>1, <2>3, <3>1
  <2> QED BY <2>2, <2>3
<1> QED BY <1>2, <1>3

(* What a step of one message does to the room taken, from what it does to *)
(* that message.                                                           *)
LEMMA RoomStep ==
  ASSUME Shape, Hands, RoomInv, NEW m \in Messages, Step(m),
         used' + One(DeliveryRoom(m)) + One(CopyRoom(m))
           = used + One(DeliveryRoom(m)') + One(CopyRoom(m)'),
         used' \in Nat, used' <= Capacity,
         DeliveryRoom(m)' => dlv'[m].todo.op = "copy"
  PROVE  RoomInv'
<1>c. conf' = conf
  BY DEF Step
<1>1. \A n \in Messages \ {m} : dlv'[n] = dlv[n] /\ job'[n] = job[n]
  BY StepFrame
<1>2. IsFiniteSet(InDeliveries) /\ IsFiniteSet(InCopies)
  BY FS_Subset DEF InDeliveries, InCopies
<1>3. InDeliveries' = IF DeliveryRoom(m)' THEN InDeliveries \cup {m} ELSE InDeliveries \ {m}
  BY <1>1 DEF InDeliveries, DeliveryRoom
<1>4. InCopies' = IF CopyRoom(m)' THEN InCopies \cup {m} ELSE InCopies \ {m}
  BY <1>1 DEF InCopies, CopyRoom
<1>5. /\ (m \in InDeliveries) = DeliveryRoom(m) /\ DeliveryRoom(m)' \in BOOLEAN
      /\ (m \in InCopies) = CopyRoom(m) /\ CopyRoom(m)' \in BOOLEAN
  <2>1. (Shape /\ Hands)'
    BY StepHands
  <2> QED BY <2>1 DEF InDeliveries, InCopies, DeliveryRoom, CopyRoom, Shape, Deliveries, Jobs, Intents
<1>6. /\ Cardinality(InDeliveries) \in Nat /\ Cardinality(InDeliveries') \in Nat
      /\ Cardinality(InDeliveries') + One(DeliveryRoom(m))
           = Cardinality(InDeliveries) + One(DeliveryRoom(m)')
  BY SMTT(30), <1>2, <1>3, <1>5, OneChanges
<1>7. /\ Cardinality(InCopies) \in Nat /\ Cardinality(InCopies') \in Nat
      /\ Cardinality(InCopies') + One(CopyRoom(m)) = Cardinality(InCopies) + One(CopyRoom(m)')
  BY <1>2, <1>4, <1>5, OneChanges
<1>8. \A b : One(b) \in {0, 1}
  BY DEF One
<1>9. used' = Cardinality(InDeliveries') + Cardinality(InCopies')
  BY <1>6, <1>7, <1>8 DEF RoomInv
<1>10. \A n \in Messages : DeliveryRoom(n)' => dlv'[n].todo.op = "copy"
  BY <1>1 DEF RoomInv, DeliveryRoom
<1>11. Capacity' = Capacity
  BY <1>c DEF Capacity
<1> QED BY <1>9, <1>10, <1>11 DEF RoomInv

LEMMA StepRoom ==
  ASSUME Shape, Hands, RoomInv, NEW m \in Messages, Step(m)
  PROVE  RoomInv'
<1>f. dlv \in [Messages -> Deliveries] /\ job \in [Messages -> Jobs]
  BY DEF Shape
<1>t. dlv[m] \in Deliveries /\ job[m] \in Jobs
  BY <1>f
<1>u. used \in Nat /\ used <= Capacity /\ Capacity \in Nat
  BY DEF RoomInv, Shape, Configurations, Capacity
<1>o. \A b : One(b) \in {0, 1} /\ One(TRUE) = 1 /\ One(FALSE) = 0
  BY DEF One
<1>a. dlv[m].st # "none" => job[m].st = "none"
  BY DEF Hands, Alone
<1>d. \A st, hdr, dels : Delivery(st, hdr, dels).st = st
  BY DEF Delivery
<1>p. DeliveryRoom(m) \/ CopyRoom(m) => used >= 1
  <2>1. IsFiniteSet(InDeliveries) /\ IsFiniteSet(InCopies)
    BY FS_Subset DEF InDeliveries, InCopies
  <2>2. /\ Cardinality(InDeliveries) \in Nat /\ Cardinality(InCopies) \in Nat
        /\ Cardinality(InDeliveries) = 0 => InDeliveries = {}
        /\ Cardinality(InCopies) = 0 => InCopies = {}
    BY <2>1, FS_CardinalityType, FS_EmptySet
  <2>3. (DeliveryRoom(m) => InDeliveries # {}) /\ (CopyRoom(m) => InCopies # {})
    BY DEF DeliveryRoom, CopyRoom, InDeliveries, InCopies
  <2> QED BY <2>2, <2>3 DEF RoomInv
<1>q. ASSUME UNCHANGED used, DeliveryRoom(m)' <=> DeliveryRoom(m), CopyRoom(m)' <=> CopyRoom(m),
             DeliveryRoom(m)' => dlv'[m].todo.op = "copy"
      PROVE  RoomInv'
  <2>1. One(DeliveryRoom(m)') = One(DeliveryRoom(m)) /\ One(CopyRoom(m)') = One(CopyRoom(m))
    BY <1>q DEF One
  <2> QED BY <1>q, <1>u, <2>1, RoomStep
<1>1. CASE Deliver(m)
  <2>1. dlv[m].st = "queued" /\ dlv'[m].st = "running" /\ job' = job /\ used' = used
    BY <1>1, <1>f, <1>t DEF Deliver, Deliveries
  <2> QED BY <1>q, <2>1 DEF DeliveryRoom, CopyRoom
<1>2. CASE SettleOutcome(m)
  <2> PICK o \in Outcomes :
         /\ dlv' = [dlv EXCEPT ![m].st = "settling", ![m].todo = Decide(m, o)]
         /\ used' = IF Decide(m, o).room THEN used + 1 ELSE used
    BY <1>2 DEF SettleOutcome
  <2>1. /\ dlv[m].st = "running" /\ dlv'[m].st = "settling" /\ dlv'[m].todo = Decide(m, o)
        /\ job' = job
    BY <1>2, <1>f, <1>t DEF SettleOutcome, Deliveries
  <2>2. ~DeliveryRoom(m) /\ (CopyRoom(m)' <=> CopyRoom(m)) /\ (DeliveryRoom(m)' <=> Decide(m, o).room)
    <3>1. Decide(m, o).room \in BOOLEAN
      BY DecideFacts DEF Intents
    <3> QED BY <2>1, <3>1 DEF DeliveryRoom, CopyRoom
  <2>3. CASE Decide(m, o).room
    <3>1. used' = used + 1 /\ used < Capacity /\ Decide(m, o).op = "copy"
      BY <2>3, DecideRoom
    <3>2. One(DeliveryRoom(m)) = 0 /\ One(DeliveryRoom(m)') = 1
          /\ One(CopyRoom(m)') = One(CopyRoom(m))
      BY <2>2, <2>3 DEF One
    <3>3. used' + One(DeliveryRoom(m)) + One(CopyRoom(m))
            = used + One(DeliveryRoom(m)') + One(CopyRoom(m)')
      BY <1>u, <1>o, <3>1, <3>2
    <3>4. used' \in Nat /\ used' <= Capacity /\ dlv'[m].todo.op = "copy"
      BY <1>u, <2>1, <3>1
    <3> QED BY <3>3, <3>4, RoomStep
  <2>4. CASE ~Decide(m, o).room
    BY <1>q, <2>1, <2>2, <2>4
  <2> QED BY <2>3, <2>4
<1>3. CASE Settled(m)
  <2>0. dlv[m].st = "settling" /\ ~CopyRoom(m) /\ used' = used
    BY <1>3, <1>a DEF Settled, CopyRoom, Ended, Requeued, HeldBack, Copied, NoFreeRecord
  <2>1. ASSUME dlv[m].todo.op # "copy", dlv'[m].st # "settling", job' = job PROVE RoomInv'
    <3>1. ~DeliveryRoom(m)
      BY <2>1 DEF RoomInv
    <3> QED BY <1>q, <2>0, <2>1, <3>1 DEF DeliveryRoom, CopyRoom
  <2>2. CASE dlv[m].todo.op = "copy" /\ Copied(m)
    <3>1. /\ dlv'[m].st = "none" /\ job'[m].st # "none" /\ job'[m].todo = dlv[m].todo
      BY <1>f, <2>2, NoDeliveryFacts DEF Copied, Copy
    <3>2. ~DeliveryRoom(m)' /\ (CopyRoom(m)' <=> DeliveryRoom(m))
      BY <1>t, <2>0, <3>1 DEF DeliveryRoom, CopyRoom, Deliveries, Intents
    <3>3. used' + One(DeliveryRoom(m)) + One(CopyRoom(m))
            = used + One(DeliveryRoom(m)') + One(CopyRoom(m)')
      <4>1. One(CopyRoom(m)) = 0 /\ One(DeliveryRoom(m)') = 0
        BY <2>0, <3>2 DEF One
      <4>2. One(CopyRoom(m)') = One(DeliveryRoom(m))
        BY <3>2 DEF One
      <4> QED BY <1>u, <1>o, <2>0, <4>1, <4>2
    <3> QED BY <1>u, <2>0, <3>2, <3>3, RoomStep
  <2>3. CASE dlv[m].todo.op # "copy"
    <3>1. dlv'[m].st # "settling" /\ job' = job
      BY <1>3, <1>d, <1>f, <2>3, NoDeliveryFacts DEF Settled, Ended, Requeued, HeldBack, NoFreeRecord
    <3> QED BY <2>1, <2>3, <3>1
  <2> QED BY <1>3, <2>2, <2>3 DEF Settled
<1>4. CASE SettleFailed(m)
  <2>1. /\ dlv[m].st = "settling" /\ dlv'[m].st = "queued" /\ job' = job
        /\ used' = IF dlv[m].todo.room THEN used - 1 ELSE used
    BY <1>d, <1>f, <1>4 DEF SettleFailed
  <2>2. ~DeliveryRoom(m)' /\ ~CopyRoom(m) /\ ~CopyRoom(m)' /\ (DeliveryRoom(m) <=> dlv[m].todo.room)
    BY <1>a, <1>t, <2>1 DEF DeliveryRoom, CopyRoom, Deliveries, Intents
  <2>3. CASE dlv[m].todo.room
    <3>1. used' = used - 1 /\ used >= 1
      BY <1>p, <2>1, <2>2, <2>3
    <3>2. One(DeliveryRoom(m)) = 1 /\ One(DeliveryRoom(m)') = 0 /\ One(CopyRoom(m)) = 0
          /\ One(CopyRoom(m)') = 0
      BY <2>2, <2>3 DEF One
    <3>3. used' + One(DeliveryRoom(m)) + One(CopyRoom(m))
            = used + One(DeliveryRoom(m)') + One(CopyRoom(m)')
      BY <1>u, <3>1, <3>2
    <3> QED BY <1>u, <2>2, <3>1, <3>3, RoomStep
  <2>4. CASE ~dlv[m].todo.room
    BY <1>q, <2>1, <2>2, <2>4
  <2> QED BY <2>3, <2>4
<1>5. CASE CopyDue(m)
  <2>1. /\ dlv' = dlv /\ used' = used /\ job[m].st # "none" /\ job'[m].st # "none"
        /\ job'[m].todo = job[m].todo
    BY <1>5, <1>t, <1>f DEF CopyDue, Jobs
  <2>2. (DeliveryRoom(m)' <=> DeliveryRoom(m)) /\ (CopyRoom(m)' <=> CopyRoom(m))
    BY <2>1 DEF DeliveryRoom, CopyRoom
  <2>3. DeliveryRoom(m)' => dlv'[m].todo.op = "copy"
    BY <2>1, <2>2 DEF RoomInv
  <2> QED BY <1>q, <2>1, <2>2, <2>3
<1>6. CASE CopySent(m) \/ CopyLost(m)
  <2>1. /\ job[m].st # "none" /\ job'[m].st = "none" /\ dlv[m].st = "none"
        /\ dlv'[m].st \in {"none", "queued"}
        /\ used' = IF job[m].todo.room THEN used - 1 ELSE used
    BY <1>a, <1>d, <1>f, <1>6, NoCopyFacts DEF CopySent, CopyLost, JobEnds
  <2>2. ~DeliveryRoom(m)' /\ ~DeliveryRoom(m) /\ ~CopyRoom(m)' /\ (CopyRoom(m) <=> job[m].todo.room)
    BY <1>t, <2>1 DEF DeliveryRoom, CopyRoom, Jobs, Intents
  <2>3. CASE job[m].todo.room
    <3>1. used' = used - 1 /\ used >= 1
      BY <1>p, <2>1, <2>2, <2>3
    <3>2. One(DeliveryRoom(m)) = 0 /\ One(DeliveryRoom(m)') = 0 /\ One(CopyRoom(m)) = 1
          /\ One(CopyRoom(m)') = 0
      BY <2>2, <2>3 DEF One
    <3>3. used' + One(DeliveryRoom(m)) + One(CopyRoom(m))
            = used + One(DeliveryRoom(m)') + One(CopyRoom(m)')
      BY <1>u, <3>1, <3>2
    <3> QED BY <1>u, <2>2, <3>1, <3>3, RoomStep
  <2>4. CASE ~job[m].todo.room
    BY <1>q, <2>1, <2>2, <2>4
  <2> QED BY <2>3, <2>4
<1>7. CASE HeldDue(m)
  <2>1. dlv[m].st = "held" /\ dlv'[m].st = "queued" /\ job' = job /\ used' = used
    BY <1>7, <1>f, <1>t DEF HeldDue, Deliveries
  <2> QED BY <1>q, <2>1 DEF DeliveryRoom, CopyRoom
<1> QED BY <1>1, <1>2, <1>3, <1>4, <1>5, <1>6, <1>7 DEF Step

(* The room taken in the host's store is that of the settlements and the   *)
(* copies under way, and never more than the store has: a settlement that  *)
(* failed, a publish that failed and a crash give theirs back, however     *)
(* many messages are under way (reserve and release of send_copy).         *)
THEOREM RoomGivenBack == Safe => []RoomAccounted
<1>1. Init => RoomInv
  <2> SUFFICES ASSUME Init PROVE RoomInv
    OBVIOUS
  <2>1. InDeliveries = {} /\ InCopies = {}
    BY NoCopyFacts DEF Init, InDeliveries, InCopies, Delivery
  <2>2. \A m \in Messages : ~DeliveryRoom(m)
    BY <2>1 DEF DeliveryRoom, InDeliveries
  <2>3. Capacity \in Nat
    BY DEF Init, Capacity, Configurations
  <2> QED BY <2>1, <2>2, <2>3, FS_EmptySet DEF Init, RoomInv
<1>2. ASSUME Shape, Hands, RoomInv, [Next]_vars PROVE RoomInv'
  <2>1. CASE Crash
    <3>1. used' = 0 /\ conf' = conf
      BY <2>1 DEF Crash
    <3>2. \A m \in Messages : job'[m].st = "none" /\ dlv'[m].st # "settling"
      <4> SUFFICES ASSUME NEW m \in Messages PROVE job'[m].st = "none" /\ dlv'[m].st # "settling"
        OBVIOUS
      <4>1. Delivery("queued", dlv[m].hdr, dlv[m].dels).st = "queued"
        BY DEF Delivery
      <4> QED BY <1>2, <2>1, <4>1, CrashFacts, NoCopyFacts, NoDeliveryFacts
    <3>3. InDeliveries' = {} /\ InCopies' = {}
      BY <3>2 DEF InDeliveries, InCopies
    <3>4. Capacity' = Capacity /\ Capacity \in Nat
      BY <1>2, <3>1 DEF Capacity, Shape, Configurations
    <3> QED BY <3>1, <3>2, <3>3, <3>4, FS_EmptySet DEF RoomInv, DeliveryRoom
  <2>2. CASE \E m \in Messages : Step(m)
    BY <1>2, <2>2, StepRoom
  <2>3. CASE UNCHANGED vars
    BY <1>2, <2>3 DEF vars, RoomInv, InDeliveries, InCopies, DeliveryRoom, Capacity
  <2> QED BY <1>2, <2>1, <2>2, <2>3 DEF Next
<1>3. RoomInv => RoomAccounted
  BY DEF RoomInv, RoomAccounted, InDeliveries, InCopies
<1> QED BY <1>1, <1>2, <1>3, HandsInvariant, PTL DEF Safe

-----------------------------------------------------------------------------
(* Nothing is spent early. *)

(* The attempts counted for a message before its next delivery. *)
Counted(m) == IF Counts THEN RedeliveryCount(m) ELSE dlv[m].hdr

Spends(todo) == todo.op = "spent" \/ (todo.op = "copy" /\ todo.dead)

(* No count runs ahead of the handler: while the handler has had fewer     *)
(* runs than the cap, what is counted of the message, in its delivery or   *)
(* in the copy's header, is no more than those runs, and nothing on its    *)
(* way spends it.                                                          *)
EarlyInv(m) ==
  runs[m] < MaxAttempts =>
    /\ dlv[m].st \in {"queued", "held"} => Counted(m) <= runs[m]
    /\ dlv[m].st \in {"running", "settling"} =>
         AttemptOf(m) <= runs[m] /\ dlv[m].dels >= 1
    /\ dlv[m].st = "settling" => ~Spends(dlv[m].todo)
    /\ job[m].st # "none" => /\ ~job[m].todo.dead
                             /\ (Counts /\ Native) \/ job[m].hdr <= runs[m]
    /\ fate[m] \notin {"spent", "dead"}

(* What spends a message under a cap was decided at the cap. *)
LEMMA DecideSpends ==
  ASSUME MaxAttempts > 0, NEW m \in Messages, NEW o \in Outcomes, Spends(Decide(m, o))
  PROVE  AtCap(m)
<1> SUFFICES ASSUME ~AtCap(m) PROVE FALSE
  OBVIOUS
<1>1. \A op \in Ops : Plain(op).op = op
  BY DEF Plain, Intent
<1>2. RedeliveryOf(m) = "subscription"
  BY DEF RedeliveryOf
<1>3. \A waits \in BOOLEAN : ~Spends(SendCopy(m, FALSE, waits))
  <2> SUFFICES ASSUME NEW waits \in BOOLEAN PROVE ~Spends(SendCopy(m, FALSE, waits))
    OBVIOUS
  <2>1. ~Spends(Plain("requeue")) /\ ~Spends(Plain("full"))
    BY <1>1 DEF Spends, Ops
  <2>2. \A room : ~Spends(Intent("copy", FALSE, waits, room))
    BY DEF Spends, Intent
  <2> QED BY <2>1, <2>2 DEF SendCopy
<1>4. Decide(m, o) \in {Plain("ack"), Plain("drop"), Plain("requeue"), Plain("after"),
                        SendCopy(m, FALSE, FALSE), SendCopy(m, FALSE, o = "after")}
  BY <1>2 DEF Decide, SettleRetry, SettleNackAfter
<1>5. (o = "after") \in BOOLEAN
  OBVIOUS
<1>6. /\ ~Spends(Plain("ack")) /\ ~Spends(Plain("drop"))
      /\ ~Spends(Plain("requeue")) /\ ~Spends(Plain("after"))
  BY <1>1 DEF Spends, Ops
<1> QED BY <1>3, <1>4, <1>5, <1>6

LEMMA StepEarly ==
  ASSUME MaxAttempts > 0, MaxAttempts <= MaxCount,
         Shape, Hands, NEW m \in Messages, EarlyInv(m), Step(m)
  PROVE  EarlyInv(m)'
<1> DEFINE d == dlv[m]
           r == runs[m]
<1>t. /\ d \in Deliveries /\ job[m] \in Jobs /\ d.todo \in Intents
      /\ d.hdr \in 0..MaxCount /\ d.dels \in 0..MaxCount /\ r \in 0..MaxCount
      /\ job[m].hdr \in 0..MaxCount
  BY DEF Shape, Deliveries, Jobs
<1>f. /\ dlv \in [Messages -> Deliveries] /\ job \in [Messages -> Jobs]
      /\ runs \in [Messages -> 0..MaxCount] /\ fate \in [Messages -> Fates]
  BY DEF Shape
<1>c. Counts' = Counts /\ Native' = Native
  BY DEF Step, Counts, Native
<1>a. /\ d.st # "none" => job[m].st = "none" /\ fate[m] = "none"
      /\ job[m].st # "none" => d.st = "none" /\ fate[m] = "none"
  BY DEF Hands, Alone
<1>b. /\ \A n \in 0..MaxCount : Bump(n) \in 0..MaxCount /\ n <= Bump(n) /\ Bump(n) <= n + 1
      /\ \A n \in 0..MaxCount : Bump(n) < MaxCount => Bump(n) = n + 1
      /\ \A n \in 0..MaxCount : Bump(n) >= 1
  BY DEF Bump
<1>n. \A st, hdr, dels : /\ Delivery(st, hdr, dels).st = st /\ Delivery(st, hdr, dels).hdr = hdr
                         /\ Delivery(st, hdr, dels).dels = dels
  BY DEF Delivery
<1> USE <1>c DEF EarlyInv, Counted, AttemptOf, RedeliveryCount
<1> SUFFICES ASSUME runs'[m] < MaxAttempts PROVE EarlyInv(m)'
  OBVIOUS
<1>1. CASE Deliver(m)
  <2>1. /\ dlv'[m].st = "running" /\ dlv'[m].dels = Bump(d.dels) /\ dlv'[m].hdr = d.hdr
        /\ runs'[m] = Bump(r) /\ job'[m] = job[m] /\ fate'[m] = fate[m] /\ d.st = "queued"
    BY <1>1, <1>t, <1>f DEF Deliver, Deliveries
  <2>2. Bump(r) = r + 1 /\ r < MaxAttempts
    BY <1>t, <1>b, <2>1
  <2>3. Bump(d.dels) \in 0..MaxCount /\ Bump(d.dels) <= d.dels + 1 /\ Bump(d.dels) >= 1
    BY <1>t, <1>b
  <2>4. IF Counts THEN d.dels + (IF Native THEN 0 ELSE d.hdr) <= r ELSE d.hdr <= r
    BY <2>1, <2>2
  <2> HIDE DEF d, r
  <2>5. IF Counts THEN Bump(d.dels) + (IF Native THEN 0 ELSE d.hdr) <= r + 1 ELSE d.hdr + 1 <= r + 1
    BY <1>t, <2>3, <2>4
  <2> QED BY <1>a, <2>1, <2>2, <2>3, <2>5
<1>2. CASE SettleOutcome(m)
  <2> PICK o \in Outcomes : dlv' = [dlv EXCEPT ![m].st = "settling", ![m].todo = Decide(m, o)]
    BY <1>2 DEF SettleOutcome
  <2>1. /\ dlv'[m].st = "settling" /\ dlv'[m].todo = Decide(m, o) /\ d.st = "running"
        /\ dlv'[m].dels = d.dels /\ dlv'[m].hdr = d.hdr
        /\ runs'[m] = r /\ job'[m] = job[m] /\ fate'[m] = fate[m]
    BY <1>2, <1>t, <1>f DEF SettleOutcome, Deliveries
  <2>2. AttemptOf(m) <= r /\ d.dels >= 1
    BY <2>1
  <2>3. ~Spends(Decide(m, o))
    <3>1. ~AtCap(m)
      BY <1>t, <2>1, <2>2 DEF AtCap
    <3> QED BY <3>1, DecideSpends
  <2> QED BY <1>a, <2>1, <2>2, <2>3
<1>3. CASE Settled(m)
  <2>0. /\ d.st = "settling" /\ runs'[m] = r /\ r < MaxAttempts
        /\ AttemptOf(m) <= r /\ d.dels >= 1 /\ ~Spends(d.todo)
        /\ job[m].st = "none" /\ fate[m] = "none"
    BY <1>3, <1>a DEF Settled
  <2>1. ASSUME dlv'[m] = NoDelivery, job'[m] = job[m], fate'[m] \notin {"spent", "dead"}
        PROVE  EarlyInv(m)'
    BY <2>0, <2>1, NoDeliveryFacts
  <2>2. CASE d.todo.op = "ack" /\ Ended(m, "acked")
    BY <1>f, <2>1, <2>2 DEF Ended
  <2>3. CASE d.todo.op = "drop" /\ Ended(m, "dropped")
    BY <1>f, <2>1, <2>3 DEF Ended
  <2>4. CASE d.todo.op = "spent" /\ Ended(m, "spent")
    BY <2>0, <2>4 DEF Spends
  <2>5. CASE Requeued(m)
    <3>1. job'[m] = job[m] /\ fate' = fate
      BY <2>5 DEF Requeued
    <3>2. CASE Settles
      <4>1. dlv'[m] = Delivery("queued", d.hdr, d.dels)
        BY <1>f, <2>5, <3>2 DEF Requeued
      <4>2. dlv'[m].st = "queued" /\ dlv'[m].hdr = d.hdr /\ dlv'[m].dels = d.dels
        BY <1>n, <4>1
      <4>3. Counted(m) <= r
        BY <1>t, <2>0
      <4> QED BY <2>0, <3>1, <4>2, <4>3
    <3>3. CASE ~Settles
      <4>1. dlv'[m] = NoDelivery
        BY <1>f, <2>5, <3>3 DEF Requeued
      <4> QED BY <2>0, <2>1, <3>1, <4>1
    <3> QED BY <3>2, <3>3
  <2>6. CASE HeldBack(m)
    <3> DEFINE h == IF Counts THEN d.hdr ELSE Bump(d.hdr)
    <3>1. dlv'[m] = Delivery("held", h, d.dels) /\ job'[m] = job[m] /\ fate' = fate
      BY <1>f, <2>6 DEF HeldBack
    <3>2. dlv'[m].st = "held" /\ dlv'[m].hdr = h /\ dlv'[m].dels = d.dels
      BY <1>n, <3>1
    <3>3. IF Counts THEN d.dels + (IF Native THEN 0 ELSE h) <= r ELSE h <= r
      BY <1>t, <1>b, <2>0
    <3> HIDE DEF h
    <3> QED BY <2>0, <3>1, <3>2, <3>3
  <2>7. CASE d.todo.op = "copy" /\ Copied(m)
    <3>1. /\ dlv'[m] = NoDelivery /\ job'[m].hdr = Bump(d.hdr) /\ job'[m].todo = d.todo
          /\ fate' = fate
      BY <1>f, <2>7 DEF Copied, Copy
    <3>2. ~d.todo.dead
      BY <2>0, <2>7 DEF Spends
    <3>3. (Counts /\ Native) \/ Bump(d.hdr) <= r
      BY <1>t, <1>b, <2>0
    <3> QED BY <2>0, <3>1, <3>2, <3>3, NoDeliveryFacts
  <2>8. CASE NoFreeRecord(m)
    BY <1>f, <2>0, <2>1, <2>8 DEF NoFreeRecord
  <2> QED BY <1>3, <2>2, <2>3, <2>4, <2>5, <2>6, <2>7, <2>8 DEF Settled
<1>4. CASE SettleFailed(m)
  <2>1. /\ dlv'[m] = Delivery("queued", d.hdr, d.dels) /\ job'[m] = job[m] /\ fate' = fate
        /\ runs'[m] = r /\ d.st = "settling"
    BY <1>4, <1>f DEF SettleFailed
  <2>2. dlv'[m].st = "queued" /\ dlv'[m].hdr = d.hdr /\ dlv'[m].dels = d.dels
    BY <1>n, <2>1
  <2>3. Counted(m) <= r
    BY <1>t, <2>1
  <2> QED BY <1>a, <2>1, <2>2, <2>3
<1>5. CASE CopyDue(m)
  <2>1. /\ dlv' = dlv /\ runs' = runs /\ fate' = fate /\ job[m].st = "waiting"
        /\ job'[m].hdr = job[m].hdr /\ job'[m].todo = job[m].todo
    BY <1>5, <1>t, <1>f DEF CopyDue, Jobs
  <2> QED BY <1>a, <2>1
<1>6. CASE CopySent(m)
  <2>1. /\ runs' = runs /\ job'[m] = NoCopy /\ job[m].st # "none" /\ d.st = "none"
        /\ ~job[m].todo.dead /\ fate[m] = "none"
    BY <1>6, <1>f, <1>a DEF CopySent, JobEnds
  <2>2. dlv'[m] = Delivery("queued", job[m].hdr, 0) /\ fate' = fate
    BY <1>6, <2>1, <1>f DEF CopySent
  <2>3. dlv'[m].st = "queued" /\ dlv'[m].hdr = job[m].hdr /\ dlv'[m].dels = 0
    BY <1>n, <2>2
  <2>4. (Counts /\ Native) \/ job[m].hdr <= r
    BY <2>1
  <2> QED BY <1>t, <2>1, <2>2, <2>3, <2>4, NoCopyFacts
<1>7. CASE CopyLost(m)
  <2>1. /\ dlv' = dlv /\ runs' = runs /\ fate' = fate /\ job'[m] = NoCopy /\ job[m].st # "none"
    BY <1>7, <1>f DEF CopyLost, JobEnds
  <2> QED BY <1>a, <2>1, NoCopyFacts
<1>8. CASE HeldDue(m)
  <2>1. /\ job' = job /\ runs' = runs /\ fate' = fate /\ d.st = "held"
        /\ dlv'[m].st = "queued" /\ dlv'[m].hdr = d.hdr /\ dlv'[m].dels = d.dels
    BY <1>8, <1>t, <1>f DEF HeldDue, Deliveries
  <2> QED BY <1>a, <2>1
<1> QED BY <1>1, <1>2, <1>3, <1>4, <1>5, <1>6, <1>7, <1>8 DEF Step

LEMMA CrashEarly ==
  ASSUME Shape, Hands, Crash, NEW m \in Messages, EarlyInv(m)
  PROVE  EarlyInv(m)'
<1>t. /\ dlv[m].hdr \in 0..MaxCount /\ dlv[m].dels \in 0..MaxCount /\ runs[m] \in 0..MaxCount
  BY DEF Shape, Deliveries
<1>1. UNCHANGED <<conf, fate>>
  BY DEF Crash
<1>c. Counts' = Counts /\ Native' = Native
  BY <1>1 DEF Counts, Native
<1>d. /\ Delivery("queued", dlv[m].hdr, dlv[m].dels).st = "queued"
      /\ Delivery("queued", dlv[m].hdr, dlv[m].dels).hdr = dlv[m].hdr
      /\ Delivery("queued", dlv[m].hdr, dlv[m].dels).dels = dlv[m].dels
  BY DEF Delivery
<1> QED BY <1>t, <1>1, <1>c, <1>d, CrashFacts, NoCopyFacts, NoDeliveryFacts
    DEF EarlyInv, Counted, AttemptOf, RedeliveryCount

(* No message is dead-lettered or rejected as spent before its handler has *)
(* had it max_attempts times, on any transport: neither the header nor     *)
(* the broker's count, nor their sum over a broker that counts and leaves  *)
(* delays to the runtime, runs ahead of the deliveries, and a redelivery   *)
(* after a failed settlement or a crash counts nothing twice (attempt_of). *)
(* The counters are at least as wide as the cap, as in the code, where the *)
(* cap is a u32 and the counts are u64.                                    *)
THEOREM SpentLast ==
  ASSUME MaxAttempts <= MaxCount
  PROVE  Safe => []NotSpentEarly
<1> DEFINE Inv == MaxAttempts > 0 => \A m \in Messages : EarlyInv(m)
<1>1. Init => Inv
  <2> SUFFICES ASSUME Init, MaxAttempts > 0, NEW m \in Messages PROVE EarlyInv(m)
    OBVIOUS
  <2>1. /\ Delivery("queued", 0, 0).st = "queued" /\ Delivery("queued", 0, 0).hdr = 0
        /\ Delivery("queued", 0, 0).dels = 0
    BY DEF Delivery
  <2>2. /\ dlv[m] = Delivery("queued", 0, 0) /\ job[m] = NoCopy /\ runs[m] = 0
        /\ fate[m] = "none"
    BY DEF Init
  <2> QED BY <2>1, <2>2, NoCopyFacts DEF EarlyInv, Counted, RedeliveryCount
<1>2. ASSUME Shape, Hands, Inv, [Next]_vars PROVE Inv'
  <2> SUFFICES ASSUME MaxAttempts > 0, NEW n \in Messages PROVE EarlyInv(n)'
    OBVIOUS
  <2>1. EarlyInv(n)
    BY <1>2
  <2>2. CASE Crash
    BY <1>2, <2>1, <2>2, CrashEarly
  <2>3. ASSUME NEW m \in Messages, Step(m) PROVE EarlyInv(n)'
    <3>1. CASE n = m
      BY <1>2, <2>1, <2>3, <3>1, StepEarly
    <3>2. CASE n # m
      <4>1. /\ dlv'[n] = dlv[n] /\ job'[n] = job[n]
            /\ runs'[n] = runs[n] /\ fate'[n] = fate[n]
        BY <1>2, <2>3, <3>2, StepFrame
      <4>2. Counts' = Counts /\ Native' = Native
        BY <2>3 DEF Step, Counts, Native
      <4> QED BY <2>1, <4>1, <4>2 DEF EarlyInv, Counted, AttemptOf, RedeliveryCount
    <3> QED BY <3>1, <3>2
  <2>4. CASE UNCHANGED vars
    BY <2>1, <2>4 DEF vars, EarlyInv, Counted, AttemptOf, RedeliveryCount, Counts, Native
  <2> QED BY <1>2, <2>2, <2>3, <2>4 DEF Next
<1>3. Shape /\ Inv => NotSpentEarly
  BY DEF NotSpentEarly, EarlyInv, Shape
<1> HIDE DEF Inv
<1> QED BY <1>1, <1>2, <1>3, HandsInvariant, PTL DEF Safe

=============================================================================
