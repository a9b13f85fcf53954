------------------------- MODULE MemorySubscription -------------------------
(***************************************************************************)
(* The subscriptions of one name on a retaining in-memory broker           *)
(* (crates/memory/src: lib.rs, broker.rs, subscriber.rs, capability.rs,    *)
(* capability/seek.rs), and the publish log they share.                    *)
(*                                                                         *)
(* A publish appends to the log and sends to every registered subscription *)
(* under the bus and log locks, so it is one step.  A seek is a hand-off:  *)
(* the seeker stores the watermark, then the pending target, both under    *)
(* the bus lock, and wakes the stream after it let the lock go; the        *)
(* subscriber takes the target without the lock and then replays under it. *)
(* A settlement sends to the queue with no lock at all, so a replay is one *)
(* step for its drain and one for each message it enqueues.                *)
(* Those are separate steps here, so that every interleaving of a poll, a  *)
(* seek, a publish and a settlement is explored.                           *)
(*                                                                         *)
(* A delivery is its log position and its delivery count; what a message   *)
(* holds besides never decides anything in this code.                      *)
(***************************************************************************)
EXTENDS PublishLog, FiniteSets

CONSTANTS
  Subs,           \* the subscriptions ever opened under the name
  Slots,          \* the deliveries a subscription's handlers may hold at once
  Sizes,          \* payload sizes
  Retention,      \* the broker's retention bound
  BatchLimit,     \* the size a batch is filled to; 1 is the plain stream
  MaxPublish,     \* bound: messages ever published under the name
  MaxDeliveries,  \* bound: delivery count of one copy
  None            \* "no pending seek", "no target"

ASSUME SubscriptionAssumption ==
  /\ Subs # {}
  /\ IsFiniteSet(Slots) /\ Cardinality(Slots) >= BatchLimit
  /\ Sizes # {} /\ Sizes \subseteq Nat
  /\ Retention \in RetentionBounds
  /\ BatchLimit \in Nat \ {0}
  /\ MaxPublish \in Nat
  /\ MaxDeliveries \in Nat \ {0}
  /\ None \notin Nat

VARIABLES
  live,       \* Bus::Live, or FALSE for Bus::ShutDown
  log,        \* the NameLog of the name
  registered, \* the subscriptions the live bus holds a sender of
  opened,     \* the subscriptions whose subscriber exists
  closed,     \* the subscriptions whose subscriber was dropped
  queue,      \* per subscription: its channel
  watermark,  \* SeekControl::watermark
  pending,    \* SeekControl::pending
  armed,      \* SeekControl::waker holds the stream task's waker
  woken,      \* the stream task is scheduled to be polled again
  poll,       \* where the subscription's stream task is in its poll
  taken,      \* the target a poll took, then the next position its replay enqueues
  filled,     \* messages the current batch already holds
  hand,       \* per subscription and slot: a delivery held or on a timer
  seeker,     \* per subscription: where a call of Seeker::seek is
  \* History, for the properties only.
  owed,       \* positions fanned out to the subscription
  settled,    \* positions acknowledged or rejected
  floor,      \* the highest position a seek moved the subscription to,
              \* or the oldest one a replay still found
  sought,     \* whether a seek was ever requested
  landed      \* the last recorded seek, until the first message of its replay is yielded

busVars     == <<live, log, registered, opened, closed>>
pollVars    == <<armed, poll, taken, filled>>
seekVars    == <<watermark, pending, seeker>>
historyVars == <<owed, settled, floor, sought, landed>>
vars == <<live, log, registered, opened, closed, queue, watermark, pending, armed, woken,
          poll, taken, filled, hand, seeker, owed, settled, floor, sought, landed>>

Deliveries == [seq : Nat, deliveries : 1 .. MaxDeliveries]
Hands == [st : {"free", "held", "delayed"}, seq : Nat, deliveries : 1 .. MaxDeliveries]
Free == [st |-> "free", seq |-> 0, deliveries |-> 1]
Held(st, d) == [st |-> st, seq |-> d.seq, deliveries |-> d.deliveries]
\* A recorded seek: its target, whether Seeker::seek returned since the last yield, whether a
\* poll began and whether one took it since, and the oldest retained position not before the
\* target when its replay began.
Landings == [target : Nat, returned : BOOLEAN, repolled : BOOLEAN, taken : BOOLEAN,
             from : Nat \cup {None}]
Recorded(target) == [target |-> target, returned |-> FALSE, repolled |-> FALSE,
                     taken |-> FALSE, from |-> None]

InHand(s, n) == \E k \in Slots : hand[s][k].st # "free" /\ hand[s][k].seq = n

\* The bus lock is held by a seeker between its watermark store and its pending store, and by
\* a replay from its drain on until everything retained is enqueued.
BusLocked == \E s \in Subs : seeker[s].at = "stored" \/ poll[s] = "refill"

Higher(a, b) == IF a >= b THEN a ELSE b

Init ==
  /\ live = TRUE
  /\ log = EmptyLog
  /\ registered = {} /\ opened = {} /\ closed = {}
  /\ queue = [s \in Subs |-> << >>]
  /\ watermark = [s \in Subs |-> 0]
  /\ pending = [s \in Subs |-> None]
  /\ armed = [s \in Subs |-> FALSE]
  /\ woken = [s \in Subs |-> FALSE]
  /\ poll = [s \in Subs |-> "idle"]
  /\ taken = [s \in Subs |-> None]
  /\ filled = [s \in Subs |-> 0]
  /\ hand = [s \in Subs |-> [k \in Slots |-> Free]]
  /\ seeker = [s \in Subs |-> [at |-> "idle", target |-> 0]]
  /\ owed = [s \in Subs |-> {}]
  /\ settled = [s \in Subs |-> {}]
  /\ floor = [s \in Subs |-> 0]
  /\ sought = [s \in Subs |-> FALSE]
  /\ landed = [s \in Subs |-> None]

-----------------------------------------------------------------------------
(* The bus: subscribe, publish, shut down, connect again. *)

\* MemoryBroker::subscribe.  On a shut-down bus the registration is refused and the
\* subscriber never receives anything.
Subscribe(s) ==
  /\ ~BusLocked
  /\ s \notin opened
  /\ opened' = opened \cup {s}
  /\ registered' = IF live THEN registered \cup {s} ELSE registered
  /\ UNCHANGED <<live, log, closed, queue, woken, hand, pollVars, seekVars, historyVars>>

\* A send reaches a subscription only while its receiver exists.
Receiving(s) == s \in opened \ closed

\* MemoryState::fanout_unsent of a name with no pattern over it: append to the log, send a
\* fresh delivery to every sender registered under the name.  Against a shut-down bus nothing
\* is recorded or delivered.
Publish(size) ==
  LET d  == [seq |-> NextSeq(log), deliveries |-> 1]
      to == {s \in registered : Receiving(s)}
  IN  /\ ~BusLocked
      /\ live
      /\ NextSeq(log) < MaxPublish
      /\ log' = Push(Retention, log, size)
      /\ queue' = [s \in Subs |-> IF s \in to THEN Append(queue[s], d) ELSE queue[s]]
      /\ woken' = [s \in Subs |-> woken[s] \/ (s \in to /\ poll[s] = "parked")]
      /\ owed' = [s \in Subs |-> IF s \in to THEN owed[s] \cup {d.seq} ELSE owed[s]]
      /\ UNCHANGED <<live, registered, opened, closed, hand, pollVars, seekVars,
                     settled, floor, sought, landed>>

\* ConnectedMemoryBroker::shutdown: every registration goes, the log stays.  The
\* subscriptions keep their own sender, so what they hold and queue stays with them.
Shutdown ==
  /\ ~BusLocked
  /\ live
  /\ live' = FALSE
  /\ registered' = {}
  /\ landed' = [s \in Subs |-> None]
  /\ UNCHANGED <<log, opened, closed, queue, woken, hand, pollVars, seekVars,
                 owed, settled, floor, sought>>

\* MemoryBroker::connect revives a shut-down bus with no registrations.
Connect ==
  /\ ~BusLocked
  /\ ~live
  /\ live' = TRUE
  /\ UNCHANGED <<log, registered, opened, closed, queue, woken, hand, pollVars, seekVars,
                 historyVars>>

\* Dropping the subscriber drops the receiver and what it queues.  It happens between polls;
\* the registry keeps the dead sender.
Unsubscribe(s) ==
  /\ Receiving(s)
  /\ poll[s] \in {"idle", "parked"}
  /\ closed' = closed \cup {s}
  /\ queue' = [queue EXCEPT ![s] = << >>]
  /\ poll' = [poll EXCEPT ![s] = "idle"]
  /\ UNCHANGED <<live, log, registered, opened, woken, armed, taken, filled, hand, seekVars,
                 historyVars>>

-----------------------------------------------------------------------------
(* Seeker::seek. *)

\* The liveness check, the position and the watermark, under the bus lock.  A position that
\* was evicted is refused.
SeekStore(s, to) ==
  /\ ~BusLocked
  /\ s \in opened
  /\ seeker[s].at = "idle"
  /\ live
  /\ ~Evicted(to, log)
  /\ LET target == Resolve(to, log)
     IN  /\ watermark' = [watermark EXCEPT ![s] = target]
         /\ seeker' = [seeker EXCEPT ![s] =
              [at |-> "stored", target |-> target]]
         /\ floor' = [floor EXCEPT ![s] = Higher(@, target)]
  /\ sought' = [sought EXCEPT ![s] = TRUE]
  /\ landed' = [landed EXCEPT ![s] = None]
  /\ UNCHANGED <<busVars, queue, woken, hand, pollVars, pending, owed, settled>>

\* Mutant: a second seek does not replace the target of one still pending.
SeekRecordKeepsFirst(s) ==
  /\ seeker[s].at = "stored"
  /\ pending' = [pending EXCEPT ![s] = IF @ = None THEN seeker[s].target ELSE @]
  /\ seeker' = [seeker EXCEPT ![s].at = "recorded"]
  /\ landed' = [landed EXCEPT ![s] = Recorded(seeker[s].target)]
  /\ UNCHANGED <<busVars, queue, woken, hand, pollVars, watermark,
                 owed, settled, floor, sought>>

\* The pending target, still under the bus lock, which is released after it.
SeekRecord(s) ==
  /\ seeker[s].at = "stored"
  /\ pending' = [pending EXCEPT ![s] = seeker[s].target]
  /\ seeker' = [seeker EXCEPT ![s].at = "recorded"]
  /\ landed' = [landed EXCEPT ![s] = Recorded(seeker[s].target)]
  /\ UNCHANGED <<busVars, queue, woken, hand, pollVars, watermark,
                 owed, settled, floor, sought>>

\* AtomicWaker::wake takes the registered waker, and the call returns.
SeekReturn(s) ==
  /\ seeker[s].at = "recorded"
  /\ woken' = [woken EXCEPT ![s] = @ \/ armed[s]]
  /\ armed' = [armed EXCEPT ![s] = FALSE]
  /\ seeker' = [seeker EXCEPT ![s].at = "idle"]
  /\ landed' = [landed EXCEPT ![s] = IF @ = None THEN None ELSE [@ EXCEPT !.returned = TRUE]]
  /\ UNCHANGED <<busVars, queue, hand, poll, taken, filled, watermark, pending,
                 owed, settled, floor, sought>>

-----------------------------------------------------------------------------
(* One poll of the subscription's stream: begin_poll, apply_pending_seek,   *)
(* replay_from, poll_fresh; and the batch fill of poll_fill.                *)

FreeSlots(s) == {k \in Slots : hand[s][k].st = "free"}

\* Mutant: the seek waker is not registered by the poll.
BeginPollUnarmed(s) ==
  /\ Receiving(s)
  /\ poll[s] = "idle" \/ (poll[s] = "parked" /\ woken[s])
  /\ Cardinality(FreeSlots(s)) >= BatchLimit
  /\ poll' = [poll EXCEPT ![s] = "begun"]
  /\ woken' = [woken EXCEPT ![s] = FALSE]
  /\ landed' = [landed EXCEPT ![s] = IF @ = None THEN None ELSE [@ EXCEPT !.repolled = TRUE]]
  /\ UNCHANGED <<busVars, queue, armed, taken, filled, hand, seekVars,
                 owed, settled, floor, sought>>

\* The task is polled: at any time when it is not parked, and when it is parked only once it
\* was woken.  The seek waker is registered before the pending target is read.
BeginPoll(s) ==
  /\ Receiving(s)
  /\ poll[s] = "idle" \/ (poll[s] = "parked" /\ woken[s])
  /\ Cardinality(FreeSlots(s)) >= BatchLimit
  /\ poll' = [poll EXCEPT ![s] = "begun"]
  /\ armed' = [armed EXCEPT ![s] = TRUE]
  /\ woken' = [woken EXCEPT ![s] = FALSE]
  /\ landed' = [landed EXCEPT ![s] = IF @ = None THEN None ELSE [@ EXCEPT !.repolled = TRUE]]
  /\ UNCHANGED <<busVars, queue, taken, filled, hand, seekVars, owed, settled, floor, sought>>

\* SeekControl::take, outside the bus lock.
TakeSeek(s) ==
  /\ poll[s] = "begun"
  /\ taken' = [taken EXCEPT ![s] = pending[s]]
  /\ pending' = [pending EXCEPT ![s] = None]
  /\ poll' = [poll EXCEPT ![s] = IF pending[s] = None THEN "fresh" ELSE "replay"]
  /\ landed' = [landed EXCEPT ![s] =
       IF @ = None THEN None ELSE [@ EXCEPT !.taken = landed[s].taken \/ pending[s] # None]]
  /\ UNCHANGED <<busVars, queue, woken, armed, filled, hand, watermark, seeker,
                 owed, settled, floor, sought>>

\* Where the last recorded seek stands when a replay of it begins.
Applying(s, start) ==
  landed' = [landed EXCEPT ![s] =
    IF @ = None THEN None ELSE IF @.taken THEN [@ EXCEPT !.from = start] ELSE @]

\* Mutant: the replay is enqueued behind what is queued.
ReplayUndrained(s) ==
  /\ ~BusLocked
  /\ poll[s] = "replay"
  /\ live
  /\ taken' = [taken EXCEPT ![s] = ReplayStart(log, taken[s])]
  /\ poll' = [poll EXCEPT ![s] = "refill"]
  /\ floor' = [floor EXCEPT ![s] = Higher(@, log.first_seq)]
  /\ Applying(s, ReplayStart(log, taken[s]))
  /\ UNCHANGED <<busVars, queue, woken, armed, filled, hand, seekVars, owed, settled, sought>>

\* Mutant: the replay starts past its target.
ReplayPastTarget(s) ==
  /\ ~BusLocked
  /\ poll[s] = "replay"
  /\ live
  /\ queue' = [queue EXCEPT ![s] = << >>]
  /\ taken' = [taken EXCEPT ![s] = ReplayStart(log, taken[s] + 1)]
  /\ poll' = [poll EXCEPT ![s] = "refill"]
  /\ floor' = [floor EXCEPT ![s] = Higher(@, log.first_seq)]
  /\ Applying(s, ReplayStart(log, taken[s]))
  /\ UNCHANGED <<busVars, woken, armed, filled, hand, seekVars, owed, settled, sought>>

\* replay_from takes both locks and drains the queue.  Its last try_recv found the channel
\* empty, so the drain is one step; a requeue sent after it is not drained.
ReplayDrain(s) ==
  /\ ~BusLocked
  /\ poll[s] = "replay"
  /\ live
  /\ queue' = [queue EXCEPT ![s] = << >>]
  /\ taken' = [taken EXCEPT ![s] = ReplayStart(log, taken[s])]
  /\ poll' = [poll EXCEPT ![s] = "refill"]
  /\ floor' = [floor EXCEPT ![s] = Higher(@, log.first_seq)]
  /\ Applying(s, ReplayStart(log, taken[s]))
  /\ UNCHANGED <<busVars, woken, armed, filled, hand, seekVars, owed, settled, sought>>

\* On a bus that was shut down meanwhile nothing is replayed and nothing drained.
ReplayRefused(s) ==
  /\ ~BusLocked
  /\ poll[s] = "replay"
  /\ ~live
  /\ taken' = [taken EXCEPT ![s] = None]
  /\ poll' = [poll EXCEPT ![s] = "fresh"]
  /\ UNCHANGED <<busVars, queue, woken, armed, filled, hand, seekVars, historyVars>>

\* SubscriptionShared::requeue_replay enqueues the retained messages from the target on, each
\* as a fresh delivery, under the locks; the settlements that send meanwhile hold none.
ReplaySend(s) ==
  /\ poll[s] = "refill"
  /\ taken[s] < NextSeq(log)
  /\ queue' = [queue EXCEPT ![s] = Append(@, [seq |-> taken[s], deliveries |-> 1])]
  /\ taken' = [taken EXCEPT ![s] = @ + 1]
  /\ UNCHANGED <<busVars, woken, armed, poll, filled, hand, seekVars, historyVars>>

\* Everything retained is enqueued: the locks go, and the poll goes on to poll_fresh.
ReplayEnd(s) ==
  /\ poll[s] = "refill"
  /\ taken[s] >= NextSeq(log)
  /\ taken' = [taken EXCEPT ![s] = None]
  /\ poll' = [poll EXCEPT ![s] = "fresh"]
  /\ UNCHANGED <<busVars, queue, woken, armed, filled, hand, seekVars, historyVars>>

Stale(s) == Head(queue[s]).seq < watermark[s]

\* poll_fresh drops a stale pre-seek copy and goes on.
DropStale(s) ==
  /\ poll[s] = "fresh"
  /\ queue[s] # << >>
  /\ Stale(s)
  /\ queue' = [queue EXCEPT ![s] = Tail(@)]
  /\ UNCHANGED <<busVars, woken, hand, pollVars, seekVars, historyVars>>

\* The recorded seek is done with once the first message of its replay is yielded.
Yielded(s) ==
  landed' = [landed EXCEPT ![s] =
    IF @ = None \/ (@.from # None /\ Head(queue[s]).deliveries = 1) THEN None
    ELSE [@ EXCEPT !.returned = FALSE]]

\* poll_fresh yields the head of the queue as a message: the plain stream returns it, a batch
\* goes on filling until it is full.
Yield(s, k) ==
  /\ poll[s] = "fresh"
  /\ queue[s] # << >>
  /\ ~Stale(s)
  /\ k \in FreeSlots(s)
  /\ hand' = [hand EXCEPT ![s][k] = Held("held", Head(queue[s]))]
  /\ queue' = [queue EXCEPT ![s] = Tail(@)]
  /\ LET full == filled[s] + 1 >= BatchLimit
     IN  /\ filled' = [filled EXCEPT ![s] = IF full THEN 0 ELSE @ + 1]
         /\ poll' = [poll EXCEPT ![s] = IF full THEN "idle" ELSE "fresh"]
  /\ Yielded(s)
  /\ UNCHANGED <<busVars, woken, armed, taken, seekVars, owed, settled, floor, sought>>

\* Mutant: a batch that is not full waits for more.
DrainedWaits(s) ==
  /\ poll[s] = "fresh"
  /\ queue[s] = << >>
  /\ poll' = [poll EXCEPT ![s] = "parked"]
  /\ UNCHANGED <<busVars, queue, woken, armed, taken, filled, hand, seekVars, historyVars>>

\* The channel is empty: a poll with nothing in its batch parks on it, one with something
\* ships what it has.
Drained(s) ==
  /\ poll[s] = "fresh"
  /\ queue[s] = << >>
  /\ poll' = [poll EXCEPT ![s] = IF filled[s] = 0 THEN "parked" ELSE "idle"]
  /\ filled' = [filled EXCEPT ![s] = 0]
  /\ UNCHANGED <<busVars, queue, woken, armed, taken, hand, seekVars, historyVars>>

-----------------------------------------------------------------------------
(* Settlement of a delivery in hand (impl Settle for MemoryMessage, Drop). *)

HandDelivery(s, k) == [seq |-> hand[s][k].seq, deliveries |-> hand[s][k].deliveries]

\* Mutant: a redelivery counts twice.
RedeliveredTwice(d) == [d EXCEPT !.deliveries = @ + 2]

\* MemoryDelivery::redelivered
Redelivered(d) == [d EXCEPT !.deliveries = @ + 1]

\* MemoryMessage::requeue_now: back to the queue of the subscription it came from, which wakes
\* the stream parked on it; a dropped receiver is not an error.
SendBack(s, d) ==
  IF Receiving(s)
  THEN /\ queue' = [queue EXCEPT ![s] = Append(@, d)]
       /\ woken' = [woken EXCEPT ![s] = @ \/ poll[s] = "parked"]
  ELSE UNCHANGED <<queue, woken>>

Release(s, k) == hand' = [hand EXCEPT ![s][k] = Free]

\* ack, nack(false) and into_raw: the delivery is gone.
Settle(s, k) ==
  /\ hand[s][k].st = "held"
  /\ Release(s, k)
  /\ settled' = [settled EXCEPT ![s] = @ \cup {hand[s][k].seq}]
  /\ UNCHANGED <<busVars, queue, woken, pollVars, seekVars, owed, floor, sought, landed>>

\* Mutant: nack leaves the delivery in the message, whose drop sends it back again.
RequeueAndDrop(s, k) ==
  /\ hand[s][k].st = "held"
  /\ hand[s][k].deliveries < MaxDeliveries
  /\ SendBack(s, Redelivered(HandDelivery(s, k)))
  /\ UNCHANGED <<busVars, hand, pollVars, seekVars, historyVars>>

\* nack(true), nack_after with no delay, and dropping the message unsettled: it goes back
\* counted once more.
Requeue(s, k) ==
  /\ hand[s][k].st = "held"
  /\ hand[s][k].deliveries < MaxDeliveries
  /\ Release(s, k)
  /\ SendBack(s, Redelivered(HandDelivery(s, k)))
  /\ UNCHANGED <<busVars, pollVars, seekVars, historyVars>>

\* nack_after with a delay: a timer task holds the redelivered copy and the channel's sender.
NackAfter(s, k) ==
  /\ hand[s][k].st = "held"
  /\ hand[s][k].deliveries < MaxDeliveries
  /\ hand' = [hand EXCEPT ![s][k] = Held("delayed", Redelivered(HandDelivery(s, k)))]
  /\ UNCHANGED <<busVars, queue, woken, pollVars, seekVars, historyVars>>

TimerFires(s, k) ==
  /\ hand[s][k].st = "delayed"
  /\ Release(s, k)
  /\ SendBack(s, HandDelivery(s, k))
  /\ UNCHANGED <<busVars, pollVars, seekVars, historyVars>>

-----------------------------------------------------------------------------
BusStep ==
  \/ \E s \in Subs : Subscribe(s) \/ Unsubscribe(s)
  \/ \E size \in Sizes : Publish(size)
  \/ Shutdown
  \/ Connect

SeekStep(s) ==
  \/ \E to \in Positions(MaxPublish) : SeekStore(s, to)
  \/ SeekRecord(s)
  \/ SeekReturn(s)

PollStep(s) ==
  \/ BeginPoll(s) \/ TakeSeek(s) \/ DropStale(s) \/ Drained(s)
  \/ ReplayDrain(s) \/ ReplayRefused(s) \/ ReplaySend(s) \/ ReplayEnd(s)
  \/ \E k \in Slots : Yield(s, k)

SettleStep(s) ==
  \E k \in Slots : Settle(s, k) \/ Requeue(s, k) \/ NackAfter(s, k) \/ TimerFires(s, k)

Next == BusStep \/ \E s \in Subs : SeekStep(s) \/ PollStep(s) \/ SettleStep(s)

Safe == Init /\ [][Next]_vars

-----------------------------------------------------------------------------
(* Properties. *)

\* Every variable of the subscription has its type, and counters stay within their bounds.
TypeOK ==
  /\ live \in BOOLEAN
  /\ log.entries \in Seq(Sizes) /\ log.first_seq \in Nat
  /\ registered \in SUBSET Subs /\ opened \in SUBSET Subs /\ closed \in SUBSET Subs
  /\ queue \in [Subs -> Seq(Deliveries)]
  /\ watermark \in [Subs -> Nat]
  /\ pending \in [Subs -> Nat \cup {None}]
  /\ armed \in [Subs -> BOOLEAN] /\ woken \in [Subs -> BOOLEAN]
  /\ poll \in [Subs -> {"idle", "begun", "replay", "refill", "fresh", "parked"}]
  /\ taken \in [Subs -> Nat \cup {None}]
  /\ \A s \in Subs : poll[s] \in {"replay", "refill"} => taken[s] # None
  /\ filled \in [Subs -> 0 .. BatchLimit - 1]
  /\ hand \in [Subs -> [Slots -> Hands]]
  /\ seeker \in [Subs -> [at : {"idle", "stored", "recorded"}, target : Nat]]
  /\ owed \in [Subs -> SUBSET Nat] /\ settled \in [Subs -> SUBSET Nat]
  /\ floor \in [Subs -> Nat]
  /\ sought \in [Subs -> BOOLEAN]
  /\ landed \in [Subs -> Landings \cup {None}]

Queued(s, n) == \E i \in 1 .. Len(queue[s]) : queue[s][i].seq = n

\* A replay that holds the locks has still to enqueue it.
Replaying(s, n) == poll[s] = "refill" /\ n >= taken[s]

\* Every message fanned out to a subscription that still exists is queued, held by a handler,
\* on a redelivery timer, settled, or still to be enqueued by a replay that holds the locks,
\* unless a seek moved the subscription past it or a replay found it evicted: no interleaving
\* of publish, seek, replay, stale filter and requeue loses one.  (fanout holds both locks,
\* "or the reverse - either would lose or duplicate".)
NothingLost ==
  \A s \in Subs : Receiving(s) =>
    \A n \in owed[s] : \/ Queued(s, n) \/ InHand(s, n) \/ Replaying(s, n)
                        \/ n \in settled[s] \/ n < floor[s]

\* A subscription that was never repositioned has one copy of each message it was sent: never
\* two queued or in hand, and none once it is settled, whatever was requeued or delayed.
OneCopyWithoutSeek ==
  \A s \in Subs : ~sought[s] =>
    /\ \A i, j \in 1 .. Len(queue[s]) : i # j => queue[s][i].seq # queue[s][j].seq
    /\ \A k, l \in Slots :
         hand[s][k].st # "free" /\ hand[s][l].st # "free" /\ k # l
         => hand[s][k].seq # hand[s][l].seq
    /\ \A i \in 1 .. Len(queue[s]), k \in Slots :
         hand[s][k].st # "free" => queue[s][i].seq # hand[s][k].seq
    /\ \A n \in settled[s] : ~Queued(s, n) /\ ~InHand(s, n)

\* First deliveries wait in the order they were published, and none of a position the log has
\* not reached, also across a replay, which drains what is queued before it enqueues.
FreshInOrder ==
  \A s \in Subs : \A i, j \in 1 .. Len(queue[s]) :
    /\ queue[s][i].seq < NextSeq(log)
    /\ i < j /\ queue[s][i].deliveries = 1 /\ queue[s][j].deliveries = 1
       => queue[s][i].seq < queue[s][j].seq

\* A message published from now on is never taken for a stale copy: no watermark is past the
\* tip of the log (the clamp of MemoryPosition::resolve).
NoLiveMessageStale == \A s \in Subs : watermark[s] <= NextSeq(log)

\* A batch is filled within one poll: what it holds is never kept across a park or until the
\* next poll.
NoBatchHeldBack == \A s \in Subs : filled[s] > 0 => poll[s] = "fresh"

\* A parked stream that nobody has woken has nothing to do: its queue is empty, and a pending
\* seek is one whose seeker is about to wake it.  (The waker is registered before the pending
\* seek is read, so a seek landing between the read and the park finds it.)
NoLostWakeup ==
  \A s \in Subs : poll[s] = "parked" /\ ~woken[s] =>
    /\ queue[s] = << >>
    /\ pending[s] # None => seeker[s].at = "recorded" /\ armed[s]

\* What the stream yields in a step, if it yields.
Yields(s, k) == hand[s][k].st = "free" /\ hand'[s][k].st = "held"

\* From the first poll begun after a seek was recorded, or from its replay if that is earlier,
\* until the replay's first message is yielded, nothing before the target is yielded; that
\* message is the one at the target or, when eviction passed the target before the seek was
\* applied, the oldest one retained by then.  A requeue that lands between the drain and the
\* replay may be yielded before it, since it is sent without a lock, and only as a redelivery.
SeekLandsOnTarget ==
  [][\A s \in Subs, k \in Slots :
       Yields(s, k) /\ landed[s] # None /\ (landed[s].repolled \/ landed[s].from # None) =>
         /\ hand'[s][k].seq >= landed[s].target
         /\ hand'[s][k].deliveries = 1 => hand'[s][k].seq = landed[s].from]_vars

\* What the documentation of Seeker::seek says: once it resolved, the next delivery yielded
\* reflects the new position (it is not one of before the target, nor past it while the
\* target is retained).
NextDeliveryReflectsSeek ==
  [][\A s \in Subs, k \in Slots :
       Yields(s, k) /\ landed[s] # None /\ landed[s].returned =>
         \/ hand'[s][k].seq = landed[s].target
         \/ /\ hand'[s][k].seq > landed[s].target
            /\ log.first_seq > landed[s].target]_vars
=============================================================================
