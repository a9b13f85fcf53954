------------------------------ MODULE MCPools ------------------------------
(***************************************************************************)
(* The concurrent dispatches for TLC: a subscription has one of them, so a *)
(* behaviour is one of the worker pool, of the batch pool or of the ring   *)
(* hand-off, over the variables they share by name, and the variables of   *)
(* the others stay as they start.  All implement Dispatch.                 *)
(***************************************************************************)
EXTENDS WorkerPool

CONSTANTS
  a,
  MaxBatches  \* bound: batches read off the stream, at most MaxItems

VARIABLES
  kind,
  queue, reported, slots, box, arrived, shut, left, saw, closing,
  conf, ring, abandoned, parked, armed, woken, which, offset, turn, index,
  loop_waiting, loop_armed, loop_woken

OneKey == {a}
FirstWorker == [k \in OneKey |-> 0]

\* One ring long enough for the loop to be woken before it is empty.
RingItems == 5
RingOfThree == {[keyed |-> FALSE, ring |-> 3, items |-> RingItems]}

Batch == INSTANCE BatchPool
Rings == INSTANCE RingHandoff WITH
  N <- 1, Confs <- RingOfThree, item <- hand, handled <- finished

deliveryOnly == <<keyed, inbox, closed, free, freeClosed, worker, rotation>>
batchOnly == <<queue, reported, slots, box, arrived, shut, left, closing>>
ringOnly == <<conf, ring, abandoned, parked, armed, woken, which, offset, turn, index,
              loop_waiting, loop_armed, loop_woken>>
poolsVars == <<kind, vars, batchOnly, ringOnly, saw>>

NoDeliveries ==
  /\ keyed = FALSE /\ inbox = << >> /\ closed = FALSE /\ free = << >> /\ freeClosed = FALSE
  /\ worker = 0 /\ rotation = 0
NoBatches ==
  /\ queue = << >> /\ reported = FALSE /\ slots = {} /\ box = << >> /\ arrived = << >>
  /\ shut = {} /\ left = {} /\ closing = 0
NoRings ==
  /\ conf = << >> /\ ring = << >> /\ abandoned = FALSE /\ parked = << >> /\ armed = << >>
  /\ woken = << >> /\ which = 0 /\ offset = 0 /\ turn = 0 /\ index = 0
  /\ loop_waiting = 0 /\ loop_armed = FALSE /\ loop_woken = FALSE

InitPools ==
  \/ kind = "deliveries" /\ Init /\ NoBatches /\ NoRings /\ saw = << >>
  \/ kind = "batches" /\ Batch!Init /\ NoDeliveries /\ NoRings /\ gone = {}
  \/ kind = "rings" /\ Rings!Init /\ NoDeliveries /\ NoBatches /\ aborted = FALSE

OfDeliveries(A) == kind = "deliveries" /\ A /\ UNCHANGED <<kind, batchOnly, ringOnly, saw>>
OfBatches(A) == kind = "batches" /\ A /\ UNCHANGED <<kind, deliveryOnly, ringOnly, gone>>
OfRings(A) ==
  kind = "rings" /\ A /\ UNCHANGED <<kind, deliveryOnly, batchOnly, aborted>>

NextPools == OfDeliveries(Next) \/ OfBatches(Batch!Next) \/ OfRings(Rings!Next)

SafePools == InitPools /\ [][NextPools]_poolsVars

SpecPools ==
  /\ SafePools
  /\ WF_poolsVars(OfDeliveries(LoopStep) \/ OfBatches(Batch!LoopStep) \/ OfRings(Rings!FeedStep))
  /\ \A w \in Crew :
       WF_poolsVars(\/ OfDeliveries(WorkerStep(w))
                    \/ OfBatches(Batch!WorkerStep(w))
                    \/ w = 0 /\ OfRings(Rings!DrainStep(w)))

InFlight ==
  CASE kind = "deliveries" -> Waiting [] kind = "batches" -> Batch!Waiting [] OTHER -> Rings!Waiting

Ended == IF kind = "rings" THEN Rings!AllEnded ELSE AllEnded

MostInFlight ==
  CASE kind = "deliveries" -> Limit [] kind = "batches" -> N [] OTHER -> Rings!Limit

D == INSTANCE Dispatch WITH
  limit   <- MostInFlight,
  waiting <- InFlight,
  running <- Range(hand) \ {0},
  done    <- Range(finished),
  broken  <- died \/ aborted

-----------------------------------------------------------------------------
(* Properties of every kind. *)

\* Every kind implements the dispatch: a pool has no more in flight than it has workers (by key: one
\* more queued per worker and one in the loop's hand), each starts the deliveries of a key in
\* order, one at a time, and none drops anything unless a worker panicked or the shutdown
\* timeout aborted the loop.
ImplementsDispatch == D!Spec

\* After shutdown every worker finishes what it holds and ends, and so does the loop, whether a
\* worker panics or not: no notification is lost and nobody waits on a worker that is gone.
StopsAfterCancel == cancelled ~> Ended

\* What the loop read is run to its end, unless a worker panics or the loop is aborted: by key
\* too, where the loop waits on a busy worker without listening to shutdown.
EveryDeliveryHandled ==
  \A n \in 1 .. RingItems : (n \in InFlight) ~> (n \in Range(finished) \/ died \/ aborted)

\* The queue of free workers has room for every report, a panicking worker's included, a worker in
\* it is free, and the slot of a batch worker is in one place: FreeIsFree of the worker pool,
\* FreeListHasRoom and SlotInOnePlace of the batch pool.
FreeListsHaveRoom ==
  /\ kind = "deliveries" => FreeIsFree
  /\ kind = "batches" => Batch!FreeListHasRoom /\ Batch!SlotInOnePlace

\* A worker of a batch pool that panicked is found by the loop: PanicIsFound of the batch pool,
\* whose workers mark themselves gone before they report.
BatchPanicIsFound == kind = "batches" => Batch!PanicIsFound

\* A worker of a delivery pool that panicked is found by the loop: PanicIsFound of the pool.
WorkerPanicIsFound == kind = "deliveries" => PanicIsFound
=============================================================================
