----------------------------- MODULE WorkerPool -----------------------------
(***************************************************************************)
(* The Tokio worker pool behind workers(n)                                 *)
(* (crates/runtime-tokio/src/dispatch/pool.rs): one loop reads the stream  *)
(* and hands each delivery to one of N workers through the worker's        *)
(* channel of one entry.  A pool takes a free worker off a queue before it *)
(* reads; keyed workers are named by the delivery's key, and the loop      *)
(* waits on a busy one.                                                    *)
(*                                                                         *)
(* The workers are tasks on the threads of the runtime, so the parts of a  *)
(* worker's unwinding are steps of their own: its locals go before its     *)
(* parameters, the Farewell guard that reports it before the receiving end *)
(* of its inbox.  The channels are Tokio's (external): a send waits for    *)
(* room and fails once the receiver is gone, a receive drains what was     *)
(* sent before the sender went.                                            *)
(***************************************************************************)
EXTENDS Integers, Sequences, FiniteSets, Functions

CONSTANTS
  N,         \* workers.count()
  Keys,      \* the partition keys
  NoKey,     \* a delivery without a key
  KeyIndex,  \* key_index: the worker of each key (external: DefaultHasher)
  None,      \* no worker held
  MaxItems   \* bound: deliveries read off the stream

Crew == 0 .. N - 1

ASSUME PoolAssumption ==
  /\ N \in Nat \ {0}
  /\ NoKey \notin Keys
  /\ KeyIndex \in [Keys -> Crew]
  /\ None \notin Crew
  /\ MaxItems \in Nat

VARIABLES
  keyed,      \* workers.by_key(), never changed
  inbox,      \* per worker: what its channel holds
  closed,     \* the loop dropped the sending ends of the inboxes
  gone,       \* workers whose receiving end is dropped
  free,       \* the queue of free workers
  freeClosed, \* the loop dropped its end of that queue
  at,         \* where each worker is
  hand,       \* the delivery a worker dispatches, or 0
  loop,       \* where the loop is
  held,       \* the free worker held for the next delivery
  carry,      \* the delivery the loop is sending, or 0
  worker,     \* the worker it sends to
  rotation,   \* where deliveries without a key have got to
  cancelled,  \* shutdown
  aborted,    \* the crew was dropped: its tasks are told to end
  \* History, for the properties only.
  keyOf,      \* the key of each delivery read
  finished,   \* the deliveries dispatched to their end, in that order
  died        \* a worker panicked

poolVars   == <<inbox, closed, gone, free, freeClosed>>
workerVars == <<at, hand>>
loopVars   == <<loop, held, carry, worker, rotation>>
stopVars   == <<cancelled, aborted>>
history    == <<keyOf, finished, died>>
vars == <<keyed, inbox, closed, gone, free, freeClosed, at, hand, loop, held, carry, worker,
          rotation, cancelled, aborted, keyOf, finished, died>>

\* start: every worker is free, and the queue of a pool is seeded with all of them.
Init ==
  /\ keyed \in BOOLEAN
  /\ inbox = [w \in Crew |-> << >>] /\ closed = FALSE /\ gone = {}
  /\ free = (IF keyed THEN << >> ELSE [i \in 1 .. N |-> i - 1]) /\ freeClosed = FALSE
  /\ at = [w \in Crew |-> "recv"]
  /\ hand = [w \in Crew |-> 0]
  /\ loop = "top" /\ held = None /\ carry = 0 /\ worker = 0 /\ rotation = 0
  /\ cancelled = FALSE /\ aborted = FALSE
  /\ keyOf = << >> /\ finished = << >> /\ died = FALSE

Goto(w, there) == at' = [at EXCEPT ![w] = there]

-----------------------------------------------------------------------------
(* work: one worker. *)

\* Mutant: a worker reports itself free as it takes a delivery.
RecvReports(w) ==
  /\ at[w] = "recv"
  /\ inbox[w] # << >>
  /\ hand' = [hand EXCEPT ![w] = Head(inbox[w])]
  /\ inbox' = [inbox EXCEPT ![w] = Tail(@)]
  /\ free' = IF keyed \/ freeClosed THEN free ELSE Append(free, w)
  /\ Goto(w, "dispatch")
  /\ UNCHANGED <<keyed, closed, gone, freeClosed, loopVars, stopVars, history>>

Recv(w) ==
  /\ at[w] = "recv"
  /\ inbox[w] # << >>
  /\ hand' = [hand EXCEPT ![w] = Head(inbox[w])]
  /\ inbox' = [inbox EXCEPT ![w] = Tail(@)]
  /\ Goto(w, "dispatch")
  /\ UNCHANGED <<keyed, closed, gone, free, freeClosed, loopVars, stopVars, history>>

\* The inbox is drained and the loop let go of it: the guard is disarmed and the worker ends.
RecvEnds(w) ==
  /\ at[w] = "recv"
  /\ closed /\ inbox[w] = << >>
  /\ gone' = gone \cup {w}
  /\ Goto(w, "ended")
  /\ UNCHANGED <<keyed, inbox, closed, free, freeClosed, hand, loopVars, stopVars, history>>

\* dispatch: the handler, its settlement and its continuations.
DispatchReturns(w) ==
  /\ at[w] = "dispatch"
  /\ finished' = Append(finished, hand[w])
  /\ hand' = [hand EXCEPT ![w] = 0]
  /\ Goto(w, IF keyed THEN "recv" ELSE "report")
  /\ UNCHANGED <<keyed, poolVars, loopVars, stopVars, keyOf, died>>

\* The worker is free again: its index goes back, or the loop is gone.
Report(w) ==
  /\ at[w] = "report"
  /\ \/ /\ ~freeClosed /\ Len(free) < N
        /\ free' = Append(free, w)
        /\ Goto(w, "recv")
        /\ UNCHANGED gone
     \/ /\ freeClosed
        /\ gone' = gone \cup {w}
        /\ Goto(w, "ended")
        /\ UNCHANGED free
  /\ UNCHANGED <<keyed, inbox, closed, freeClosed, hand, loopVars, stopVars, history>>

\* A panic outside the handler's own catch: the delivery goes first, ...
Panic(w) ==
  /\ at[w] = "dispatch"
  /\ hand' = [hand EXCEPT ![w] = 0]
  /\ died' = TRUE
  /\ Goto(w, IF keyed THEN "dropping" ELSE "farewell")
  /\ UNCHANGED <<keyed, poolVars, loopVars, stopVars, keyOf, finished>>

\* ... then the Farewell guard reports the worker once more, ...
FarewellDrop(w) ==
  /\ at[w] = "farewell"
  /\ free' = IF ~freeClosed /\ Len(free) < N THEN Append(free, w) ELSE free
  /\ Goto(w, "dropping")
  /\ UNCHANGED <<keyed, inbox, closed, gone, freeClosed, hand, loopVars, stopVars, history>>

\* ... then the receiving end of the inbox, with whatever it holds.
DropInbox(w) ==
  /\ at[w] = "dropping"
  /\ inbox' = [inbox EXCEPT ![w] = << >>]
  /\ gone' = gone \cup {w}
  /\ Goto(w, "ended")
  /\ UNCHANGED <<keyed, closed, free, freeClosed, hand, loopVars, stopVars, history>>

\* A worker told to end does so at its next await, its guard armed: the queue is gone as well.
WorkerAborted(w) ==
  /\ aborted
  /\ at[w] \in {"recv", "dispatch", "report"}
  /\ hand' = [hand EXCEPT ![w] = 0]
  /\ Goto(w, "dropping")
  /\ UNCHANGED <<keyed, poolVars, loopVars, stopVars, history>>

-----------------------------------------------------------------------------
(* spawn_dispatch_pool: the loop. *)

Top ==
  /\ loop = "top"
  /\ loop' = IF cancelled THEN "close" ELSE IF keyed \/ held # None THEN "poll" ELSE "free"
  /\ UNCHANGED <<keyed, poolVars, workerVars, held, carry, worker, rotation, stopVars, history>>

\* A pool takes a free worker before it reads.
TakeFree ==
  /\ loop = "free"
  /\ free # << >>
  /\ held' = Head(free)
  /\ free' = Tail(free)
  /\ loop' = "poll"
  /\ UNCHANGED <<keyed, inbox, closed, gone, freeClosed, workerVars, carry, worker, rotation,
                 stopVars, history>>

\* The guards that hold the queue's sending ends are all gone.
NobodyReports == \A w \in Crew : at[w] \in {"dropping", "ended"}

\* With no worker free, the wait ends with the last worker, or with shutdown.
FreeStops ==
  /\ loop = "free"
  /\ free = << >>
  /\ NobodyReports \/ cancelled
  /\ loop' = "close"
  /\ UNCHANGED <<keyed, poolVars, workerVars, held, carry, worker, rotation, stopVars, history>>

\* Mutant: a keyed delivery goes round the workers.
KeyIgnored(k) == (rotation + 1) % N

\* The worker of a delivery no worker is held for.
WorkerFor(k) == IF k = NoKey THEN (rotation + 1) % N ELSE KeyIndex[k]

\* The stream has a delivery.  A pool does not ask for its key.
Pull(k) ==
  /\ loop = "poll"
  /\ Len(keyOf) < MaxItems
  /\ ~keyed => k = NoKey
  /\ keyOf' = Append(keyOf, k)
  /\ carry' = Len(keyOf) + 1
  /\ worker' = IF held # None THEN held ELSE WorkerFor(k)
  /\ rotation' = IF held = None /\ k = NoKey THEN (rotation + 1) % N ELSE rotation
  /\ held' = None
  /\ loop' = "send"
  /\ UNCHANGED <<keyed, poolVars, workerVars, stopVars, finished, died>>

\* The stream errs: the loop goes on, with the worker it holds.
PullFails ==
  /\ loop = "poll"
  /\ loop' = "top"
  /\ UNCHANGED <<keyed, poolVars, workerVars, held, carry, worker, rotation, stopVars, history>>

\* The stream ends, or has nothing while shutdown fires.
PullStops(why) ==
  /\ loop = "poll"
  /\ why = "shutdown" => cancelled
  /\ loop' = "close"
  /\ UNCHANGED <<keyed, poolVars, workerVars, held, carry, worker, rotation, stopVars, history>>

\* inboxes[worker].send: a busy worker's inbox is waited on; a worker that is gone stops the
\* loop, and the delivery goes.
Send ==
  /\ loop = "send"
  /\ \/ /\ worker \notin gone /\ inbox[worker] = << >>
        /\ inbox' = [inbox EXCEPT ![worker] = <<carry>>]
        /\ loop' = "top"
     \/ /\ worker \in gone
        /\ loop' = "close"
        /\ UNCHANGED inbox
  /\ carry' = 0
  /\ UNCHANGED <<keyed, closed, gone, free, freeClosed, workerVars, held, worker, rotation,
                 stopVars, history>>

\* The inboxes are let go of, ...
Close ==
  /\ loop = "close"
  /\ closed' = TRUE
  /\ loop' = "join"
  /\ UNCHANGED <<keyed, inbox, gone, free, freeClosed, workerVars, held, carry, worker,
                 rotation, stopVars, history>>

\* ... and once every worker has been joined, the queue.
Join ==
  /\ loop = "join"
  /\ \A w \in Crew : at[w] = "ended"
  /\ freeClosed' = TRUE
  /\ loop' = "done"
  /\ UNCHANGED <<keyed, inbox, closed, gone, free, workerVars, held, carry, worker, rotation,
                 stopVars, history>>

\* The shutdown timeout aborts the loop's task: everything it owns goes, the crew with it.
Abort ==
  /\ cancelled /\ loop # "done"
  /\ closed' = TRUE /\ freeClosed' = TRUE
  /\ free' = << >>
  /\ aborted' = TRUE
  /\ carry' = 0 /\ held' = None
  /\ loop' = "done"
  /\ UNCHANGED <<keyed, inbox, gone, workerVars, worker, rotation, cancelled, history>>

Cancel ==
  /\ ~cancelled
  /\ cancelled' = TRUE
  /\ UNCHANGED <<keyed, poolVars, workerVars, loopVars, aborted, history>>

AllEnded == loop = "done" /\ \A w \in Crew : at[w] = "ended"

Done == AllEnded /\ UNCHANGED vars

-----------------------------------------------------------------------------
WorkerStep(w) ==
  \/ Recv(w) \/ RecvEnds(w) \/ DispatchReturns(w) \/ Report(w)
  \/ FarewellDrop(w) \/ DropInbox(w) \/ WorkerAborted(w)

\* The steps of the loop that wait for nobody outside the pool.
LoopStep ==
  \/ Top \/ TakeFree \/ FreeStops \/ Send \/ Close \/ Join \/ PullStops("shutdown")

StreamStep == (\E k \in Keys \cup {NoKey} : Pull(k)) \/ PullFails \/ PullStops("ended")

Next ==
  \/ \E w \in Crew : WorkerStep(w) \/ Panic(w)
  \/ LoopStep \/ StreamStep \/ Cancel \/ Abort \/ Done

Safe == Init /\ [][Next]_vars

\* The executor polls woken tasks, and a handler returns.  Nothing forces the stream, a panic,
\* shutdown or its timeout.
Spec == Safe /\ WF_vars(LoopStep) /\ \A w \in Crew : WF_vars(WorkerStep(w))

-----------------------------------------------------------------------------
(* What is in flight, for the dispatch the pool implements. *)

InInbox(w, n) == \E i \in 1 .. Len(inbox[w]) : inbox[w][i] = n
Items == 1 .. Len(keyOf)

Waiting == {n \in Items : carry = n \/ \E w \in Crew : InInbox(w, n)}
Running == {n \in Items : \E w \in Crew : hand[w] = n}

\* A pool has a worker for each delivery it reads; a keyed worker has one more queued, and the
\* loop one in hand.
Limit == IF keyed THEN 2 * N + 1 ELSE N

-----------------------------------------------------------------------------
(* Properties. *)

\* The queue of free workers always has room for a report, the farewell of a worker that panics
\* included: it holds each worker once, and none that has a delivery in hand or in its inbox,
\* unless the worker is unwinding.  ("The queue has room".)
FreeIsFree ==
  ~keyed =>
    /\ \A i, j \in 1 .. Len(free) : i # j => free[i] # free[j]
    /\ \A w \in Range(free) \cup {held} : w # None =>
         /\ ~(held = w /\ w \in Range(free))
         /\ at[w] \in {"recv", "dropping", "ended"}
         /\ inbox[w] = << >>

\* A worker that panicked is found: the loop stops, or still has the worker's index before it,
\* in the queue, held, or as the one it sends to.  ("found by the next delivery the loop hands
\* it, rather than never picked again".)
PanicIsFound ==
  ~keyed => \A w \in Crew : at[w] = "ended" /\ ~aborted =>
    \/ loop \in {"close", "join", "done"}
    \/ w \in Range(free) \/ held = w \/ (loop = "send" /\ worker = w)
=============================================================================
