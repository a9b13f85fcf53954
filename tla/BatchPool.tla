----------------------------- MODULE BatchPool -----------------------------
(***************************************************************************)
(* The Tokio worker pool of a batch subscription                           *)
(* (crates/runtime-tokio/src/dispatch/batch_pool.rs).  The loop owns one   *)
(* batch slot per worker; it fills the slot of a free worker, hands it     *)
(* over through the worker's queue of one, and the worker gives it back    *)
(* with its report that it is free.                                        *)
(*                                                                         *)
(* The queues are lock-free and the waits are on Notify permits, so each   *)
(* queue operation, flag and notification is a step of its own.  notify_one *)
(* leaves one permit, or hands it to the waiter (external: tokio).  A      *)
(* batch is its number in reading order.                                   *)
(***************************************************************************)
EXTENDS Integers, Sequences, FiniteSets, Functions

CONSTANTS
  N,         \* workers.count()
  NoKey,     \* the key of every batch
  None,      \* no worker held
  MaxBatches \* bound: batches read off the stream

Crew == 0 .. N - 1

VARIABLES
  queue,      \* FreeList::queue: a worker and whether it gives its slot back
  reported,   \* FreeList::reported holds a permit
  slots,      \* the workers whose slot the loop has
  box,        \* Inbox::slot: the batch handed to a worker, or 0
  arrived,    \* Inbox::arrived holds a permit
  shut,       \* Inbox::closed: the workers whose inbox is closed
  left,       \* Inbox::gone: the workers that marked themselves gone
  saw,        \* Inbox::closed as a worker read it before its pop
  at,         \* where each worker is
  hand,       \* the batch a worker runs, or 0
  loop,       \* where the loop is
  held,       \* the worker whose slot the loop fills
  carry,      \* the batch in that slot, or 0
  closing,    \* the next inbox to close
  cancelled,  \* shutdown
  aborted,    \* the crew was dropped: its tasks are told to end
  \* History, for the properties only.
  keyOf,      \* NoKey for each batch read
  finished,   \* the batches run to their end
  died        \* a worker panicked

freeVars   == <<queue, reported>>
boxVars    == <<box, arrived, shut, left>>
workerVars == <<saw, at, hand>>
loopVars   == <<slots, loop, held, carry, closing>>
stopVars   == <<cancelled, aborted>>
history    == <<keyOf, finished, died>>
vars == <<queue, reported, slots, box, arrived, shut, left, saw, at, hand, loop, held, carry,
          closing, cancelled, aborted, keyOf, finished, died>>

\* run starts the workers and reports each free, its slot with the loop.
Init ==
  /\ queue = [i \in 1 .. N |-> <<i - 1, FALSE>>] /\ reported = TRUE
  /\ slots = Crew
  /\ box = [w \in Crew |-> 0]
  /\ arrived = [w \in Crew |-> FALSE]
  /\ shut = {} /\ left = {}
  /\ saw = [w \in Crew |-> FALSE]
  /\ at = [w \in Crew |-> "flag"]
  /\ hand = [w \in Crew |-> 0]
  /\ loop = "top" /\ held = None /\ carry = 0 /\ closing = 0
  /\ cancelled = FALSE /\ aborted = FALSE
  /\ keyOf = << >> /\ finished = << >> /\ died = FALSE

Goto(w, there) == at' = [at EXCEPT ![w] = there]

-----------------------------------------------------------------------------
(* work and Inbox::next: one worker. *)

\* Inbox::next reads the flag before the slot.
ReadClosed(w) ==
  /\ at[w] = "flag"
  /\ saw' = [saw EXCEPT ![w] = w \in shut]
  /\ Goto(w, "pop")
  /\ UNCHANGED <<freeVars, boxVars, hand, loopVars, stopVars, history>>

\* Mutant: the flag is not read before the slot but after it.
PopThenRead(w) ==
  /\ at[w] = "pop"
  /\ IF box[w] # 0 /\ w \notin shut
     THEN /\ hand' = [hand EXCEPT ![w] = box[w]]
          /\ box' = [box EXCEPT ![w] = 0]
          /\ Goto(w, "run")
     ELSE Goto(w, IF w \in shut THEN "ended" ELSE "wait") /\ UNCHANGED <<hand, box>>
  /\ UNCHANGED <<freeVars, arrived, shut, left, saw, loopVars, stopVars, history>>

\* The slot's batch, the end of the worker on its own terms, or the wait.
PopBox(w) ==
  /\ at[w] = "pop"
  /\ IF box[w] # 0
     THEN /\ hand' = [hand EXCEPT ![w] = box[w]]
          /\ box' = [box EXCEPT ![w] = 0]
          /\ Goto(w, "run")
     ELSE Goto(w, IF saw[w] THEN "ended" ELSE "wait") /\ UNCHANGED <<hand, box>>
  /\ UNCHANGED <<freeVars, arrived, shut, left, saw, loopVars, stopVars, history>>

\* The wait returns with the permit.
Notified(w) ==
  /\ at[w] = "wait"
  /\ arrived[w]
  /\ arrived' = [arrived EXCEPT ![w] = FALSE]
  /\ Goto(w, "flag")
  /\ UNCHANGED <<freeVars, box, shut, left, saw, hand, loopVars, stopVars, history>>

\* run_batch: the handler and the settlement of every element.
RunReturns(w) ==
  /\ at[w] = "run"
  /\ finished' = Append(finished, hand[w])
  /\ hand' = [hand EXCEPT ![w] = 0]
  /\ Goto(w, "report")
  /\ UNCHANGED <<freeVars, boxVars, saw, loopVars, stopVars, keyOf, died>>

\* FreeList::report: the push, ...
Report(w) ==
  /\ at[w] \in {"report", "lastReport"}
  /\ queue' = IF Len(queue) < N THEN Append(queue, <<w, at[w] = "report">>) ELSE queue
  /\ Goto(w, IF at[w] = "report" THEN "tell" ELSE "lastTell")
  /\ UNCHANGED <<reported, boxVars, saw, hand, loopVars, stopVars, history>>

\* ... and the notification.
Tell(w) ==
  /\ at[w] \in {"tell", "lastTell"}
  /\ reported' = TRUE
  /\ Goto(w, IF at[w] = "tell" THEN "flag" ELSE "ended")
  /\ UNCHANGED <<queue, boxVars, saw, hand, loopVars, stopVars, history>>

\* A panic outside the handler's own catch: the slot and its batch go, ...
Panic(w) ==
  /\ at[w] = "run"
  /\ hand' = [hand EXCEPT ![w] = 0]
  /\ died' = TRUE
  /\ Goto(w, "mark")
  /\ UNCHANGED <<freeVars, boxVars, saw, loopVars, stopVars, keyOf, finished>>

\* Mutant: the worker that panics reports nothing.
MarkSilent(w) ==
  /\ at[w] = "mark"
  /\ left' = left \cup {w}
  /\ Goto(w, "ended")
  /\ UNCHANGED <<freeVars, box, arrived, shut, saw, hand, loopVars, stopVars, history>>

\* ... then the Farewell guard marks the worker gone and reports it once more, without a slot.
Mark(w) ==
  /\ at[w] = "mark"
  /\ left' = left \cup {w}
  /\ Goto(w, "lastReport")
  /\ UNCHANGED <<freeVars, box, arrived, shut, saw, hand, loopVars, stopVars, history>>

\* A worker told to end does so at its next await, its guard armed; a batch in its queue goes.
WorkerAborted(w) ==
  /\ aborted
  /\ at[w] \in {"wait", "run"}
  /\ hand' = [hand EXCEPT ![w] = 0]
  /\ box' = [box EXCEPT ![w] = 0]
  /\ Goto(w, "mark")
  /\ UNCHANGED <<freeVars, arrived, shut, left, saw, loopVars, stopVars, history>>

-----------------------------------------------------------------------------
(* acquire and run: the loop. *)

\* A slot kept across a stream error is filled again.
Top ==
  /\ loop = "top"
  /\ loop' = IF cancelled THEN "close" ELSE IF held # None THEN "poll" ELSE "look"
  /\ UNCHANGED <<freeVars, boxVars, workerVars, slots, held, carry, closing, stopVars, history>>

\* FreeList::next and the rest of acquire: a worker and its slot, or the end where the slot went
\* with its worker.
Acquire ==
  /\ loop = "look"
  /\ queue # << >>
  /\ LET w == Head(queue)[1]
         given == Head(queue)[2]
     IN  IF given \/ w \in slots
         THEN held' = w /\ slots' = slots \ {w} /\ loop' = "poll"
         ELSE loop' = "close" /\ UNCHANGED <<held, slots>>
  /\ queue' = Tail(queue)
  /\ UNCHANGED <<reported, boxVars, workerVars, carry, closing, stopVars, history>>

NobodyFree ==
  /\ loop = "look"
  /\ queue = << >>
  /\ loop' = "wait"
  /\ UNCHANGED <<freeVars, boxVars, workerVars, slots, held, carry, closing, stopVars, history>>

\* The wait ends with a report, or with shutdown.
WaitEnds ==
  /\ loop = "wait"
  /\ reported \/ cancelled
  /\ reported' = FALSE
  /\ loop' = IF reported THEN "look" ELSE "close"
  /\ UNCHANGED <<queue, boxVars, workerVars, slots, held, carry, closing, stopVars, history>>

\* The stream fills the slot.
Fill ==
  /\ loop = "poll"
  /\ Len(keyOf) < MaxBatches
  /\ keyOf' = Append(keyOf, NoKey)
  /\ carry' = Len(keyOf) + 1
  /\ loop' = "hand"
  /\ UNCHANGED <<freeVars, boxVars, workerVars, slots, held, closing, stopVars, finished, died>>

\* Mutant: the slot goes with the error.
FillFailsDrops ==
  /\ loop = "poll"
  /\ held' = None
  /\ loop' = "top"
  /\ UNCHANGED <<freeVars, boxVars, workerVars, slots, carry, closing, stopVars, history>>

\* The stream errs: the slot is drained and kept.
FillFails ==
  /\ loop = "poll"
  /\ loop' = "top"
  /\ UNCHANGED <<freeVars, boxVars, workerVars, slots, held, carry, closing, stopVars, history>>

\* The stream ends, or has nothing while shutdown fires.
FillStops(why) ==
  /\ loop = "poll"
  /\ why = "shutdown" => cancelled
  /\ loop' = "close"
  /\ held' = None
  /\ UNCHANGED <<freeVars, boxVars, workerVars, slots, carry, closing, stopVars, history>>

\* Inbox::hand: refused by a worker that is gone or whose queue is taken, ...
Hand ==
  /\ loop = "hand"
  /\ IF held \in left \/ box[held] # 0
     THEN /\ loop' = "close"
          /\ held' = None
          /\ UNCHANGED box
     ELSE /\ box' = [box EXCEPT ![held] = carry]
          /\ loop' = "notify"
          /\ UNCHANGED held
  /\ carry' = 0
  /\ UNCHANGED <<freeVars, arrived, shut, left, workerVars, slots, closing, stopVars, history>>

\* ... or handed over, and the worker told.
HandTells ==
  /\ loop = "notify"
  /\ arrived' = [arrived EXCEPT ![held] = TRUE]
  /\ held' = None
  /\ loop' = "top"
  /\ UNCHANGED <<freeVars, box, shut, left, workerVars, slots, carry, closing, stopVars, history>>

\* Inbox::close of each in turn: the flag, ...
CloseFlag ==
  /\ loop = "close"
  /\ closing < N
  /\ shut' = shut \cup {closing}
  /\ loop' = "closeTell"
  /\ UNCHANGED <<freeVars, box, arrived, left, workerVars, slots, held, carry, closing, stopVars,
                 history>>

\* Mutant: the worker is not told.
CloseSilent ==
  /\ loop = "closeTell"
  /\ closing' = closing + 1
  /\ loop' = "close"
  /\ UNCHANGED <<freeVars, boxVars, workerVars, slots, held, carry, stopVars, history>>

\* ... and the notification.
CloseTells ==
  /\ loop = "closeTell"
  /\ arrived' = [arrived EXCEPT ![closing] = TRUE]
  /\ closing' = closing + 1
  /\ loop' = "close"
  /\ UNCHANGED <<freeVars, box, shut, left, workerVars, slots, held, carry, stopVars, history>>

Join ==
  /\ loop = "close" /\ closing = N
  /\ \A w \in Crew : at[w] = "ended"
  /\ loop' = "done"
  /\ UNCHANGED <<freeVars, boxVars, workerVars, slots, held, carry, closing, stopVars, history>>

\* The shutdown timeout aborts the loop's task: its slots go, and the crew with it.
Abort ==
  /\ cancelled /\ loop # "done"
  /\ aborted' = TRUE
  /\ slots' = {} /\ carry' = 0 /\ held' = None
  /\ loop' = "done"
  /\ UNCHANGED <<freeVars, boxVars, workerVars, closing, cancelled, history>>

Cancel ==
  /\ ~cancelled
  /\ cancelled' = TRUE
  /\ UNCHANGED <<freeVars, boxVars, workerVars, loopVars, aborted, history>>

AllEnded == loop = "done" /\ \A w \in Crew : at[w] = "ended"

Done == AllEnded /\ UNCHANGED vars

-----------------------------------------------------------------------------
WorkerStep(w) ==
  \/ ReadClosed(w) \/ PopBox(w) \/ Notified(w) \/ RunReturns(w) \/ Report(w) \/ Tell(w)
  \/ Mark(w) \/ WorkerAborted(w)

LoopStep ==
  \/ Top \/ Acquire \/ NobodyFree \/ WaitEnds \/ Hand \/ HandTells \/ CloseFlag \/ CloseTells
  \/ Join \/ FillStops("shutdown")

StreamStep == Fill \/ FillFails \/ FillStops("ended")

Next ==
  \/ \E w \in Crew : WorkerStep(w) \/ Panic(w)
  \/ LoopStep \/ StreamStep \/ Cancel \/ Abort \/ Done

Safe == Init /\ [][Next]_vars

\* The executor polls woken tasks, and a handler returns.
Spec == Safe /\ WF_vars(LoopStep) /\ \A w \in Crew : WF_vars(WorkerStep(w))

-----------------------------------------------------------------------------
(* What is in flight, for the dispatch the pool implements. *)

Items == 1 .. Len(keyOf)
Waiting == {n \in Items : carry = n \/ \E w \in Crew : box[w] = n}
Running == {n \in Items : \E w \in Crew : hand[w] = n}

-----------------------------------------------------------------------------
(* Properties. *)

InQueue(w) == \E i \in 1 .. Len(queue) : queue[i][1] = w
GivenBack(w) == \E i \in 1 .. Len(queue) : queue[i] = <<w, TRUE>>

\* The places a worker's slot can be: with the loop, filled or filling, in the worker's queue, in
\* its hands, on its way back.
SlotPlaces(w) ==
  {p \in {"loop", "held", "box", "hand", "report", "queue"} :
     \/ p = "loop" /\ w \in slots
     \/ p = "held" /\ held = w /\ loop # "notify"
     \/ p = "box" /\ box[w] # 0
     \/ p = "hand" /\ hand[w] # 0
     \/ p = "report" /\ at[w] = "report"
     \/ p = "queue" /\ GivenBack(w)}

\* A worker's slot is in one place as long as the loop reads, and gone only with its worker: the
\* loop never allocates a second one and never runs out of one.
SlotInOnePlace ==
  \A w \in Crew :
    /\ Cardinality(SlotPlaces(w)) <= 1
    /\ SlotPlaces(w) = {} =>
         \/ loop \in {"close", "closeTell", "done"}
         \/ w \in left \/ at[w] = "mark"

\* While the loop reads it, the free list has room for every report and holds a worker once.
FreeListHasRoom ==
  ~aborted =>
  /\ Len(queue) <= N
  /\ \A i, j \in 1 .. Len(queue) : i # j => queue[i][1] # queue[j][1]
  /\ \A w \in Crew : at[w] \in {"report", "lastReport"} => ~InQueue(w)

\* A worker that panicked is found: the loop stops, or the worker's report is before it.
PanicIsFound ==
  \A w \in Crew : at[w] = "ended" /\ ~aborted =>
    loop \in {"close", "closeTell", "done"} \/ InQueue(w)
=============================================================================
