---------------------------- MODULE TestHarness ----------------------------
(***************************************************************************)
(* How a test on TestApp knows that what it started is over                *)
(* (crates/runtime/src/testing/coordinator.rs): a publish of the test, or  *)
(* an advance of its clock, returns when the reaction has settled.         *)
(*                                                                         *)
(* In process the in-memory broker counts every delivery it holds and the  *)
(* dispatch every call, and Coordinator::drive waits for the count to be   *)
(* zero.  Live the broker is out of sight: settle_live compares what the   *)
(* subscription handled with what was published to it and fell due, and    *)
(* asks that no call runs.                                                 *)
(*                                                                         *)
(* In process the clock is paused and moves when the test says so.  Live   *)
(* it runs all the time, and there are two: the broker sends a delayed     *)
(* message back on its own timer, and the harness counts it as due on a    *)
(* time it stamps itself.                                                  *)
(*                                                                         *)
(* One subscription with conf.workers workers, on the threads of a         *)
(* runtime: each access to the coordinator and to the queue is a step.     *)
(* Numbers 1 .. conf.tests are the test's messages, the later ones those   *)
(* handlers publish to the same subscription; a redelivery or a retry copy *)
(* keeps its message's number, so a message is in one place at a time.     *)
(***************************************************************************)
EXTENDS Integers, FiniteSets

CONSTANT Confs   \* the tests considered

(* live: start_live, else the in-process transport.  workers: how many     *)
(* calls run at once (1 where a handler panics).  outcomes: what handlers  *)
(* do.  tests, cascades: the messages the test publishes, and handlers.    *)
(* max_steps: the step budget.  retries: bound on the calls of a live test *)
(* that are not acked.                                                     *)

VARIABLES
  conf,
  in_flight,  \* Inner::in_flight, which may go below zero for an instant
  spent,      \* processed less step_from, up to max_steps
  woken,      \* the test's Notified has been signalled since it was enabled
  handled,    \* deliveries in Inner::records (read live only)
  published,  \* Inner::published (read live only)
  expected,   \* Inner::redeliveries not due yet
  due,        \* ... and those due
  back,       \* history: the redeliveries a live broker has sent back
  queue,      \* the messages the subscription's queue holds, or the broker has for it
  timers,     \* messages nack_after put off
  firing,     \* ... whose time has come
  fired,      \* ... sent back and not counted yet
  cascade,    \* messages handlers have published
  open,       \* the subscriber is there
  cancelled,  \* a fail-fast panic raised the shutdown signal
  worker,     \* where each worker is, its message, what its handler did
  test,       \* where the test's task is
  made,       \* the messages the test published
  saw,        \* what settle_live has read: [due, handled, owed]
  seen        \* history: the messages some handler got

countVars == <<in_flight, spent, woken>>
liveVars  == <<handled, published, expected, due, back>>
msgVars   == <<queue, timers, firing, fired, cascade>>
testVars  == <<test, made, saw>>
vars == <<conf, in_flight, spent, woken, handled, published, expected, due, back, queue, timers,
          firing, fired, cascade, open, cancelled, worker, test, made, saw, seen>>

Live == conf.live
Workers == 1 .. conf.workers

Init ==
  /\ conf \in Confs
  /\ in_flight = 0 /\ spent = 0 /\ woken = FALSE
  /\ handled = 0 /\ published = 0 /\ expected = 0 /\ due = 0 /\ back = 0
  /\ queue = {} /\ timers = {} /\ firing = {} /\ fired = {} /\ cascade = 0
  /\ open = TRUE /\ cancelled = FALSE
  /\ worker = [w \in Workers |-> [at |-> "idle", msg |-> 0, outcome |-> "none"]]
  /\ test = "idle" /\ made = 0 /\ saw = [due |-> 0, handled |-> 0, owed |-> 0]
  /\ seen = {}

-----------------------------------------------------------------------------
(* The coordinator. *)

NotifyWaiters == woken' = TRUE

Enqueued == in_flight' = in_flight + 1 /\ NotifyWaiters /\ UNCHANGED spent

Consumed ==
  /\ spent' = IF spent < conf.max_steps THEN spent + 1 ELSE spent
  /\ in_flight' = in_flight - 1
  /\ NotifyWaiters

\* push_published
Publish == published' = (IF Live THEN published + 1 ELSE published) /\ NotifyWaiters

Goto(w, there) == worker' = [worker EXCEPT ![w].at = there]

-----------------------------------------------------------------------------
(* The subscription: a delivery from the queue to the end of its dispatch. *)

Take(w) ==
  /\ worker[w].at = "idle" /\ open /\ ~cancelled
  /\ \E n \in queue :
       /\ queue' = queue \ {n}
       /\ worker' = [worker EXCEPT ![w] = [at |-> "taken", msg |-> n, outcome |-> "none"]]
  /\ UNCHANGED <<conf, countVars, liveVars, timers, firing, fired, cascade, open, cancelled,
                 testVars, seen>>

\* Mutant: the dispatch takes no count of its own.
TokenUncounted(w) ==
  /\ worker[w].at = "taken"
  /\ Goto(w, "handle")
  /\ UNCHANGED <<conf, countVars, liveVars, msgVars, open, cancelled, testVars, seen>>

\* dispatch: the count that spans the whole call.
Token(w) ==
  /\ worker[w].at = "taken"
  /\ Enqueued
  /\ Goto(w, "handle")
  /\ UNCHANGED <<conf, liveVars, msgVars, open, cancelled, testVars, seen>>

\* The handler publishes to its own subscription; the in-memory bus counts what it sent ...
Cascade(w) ==
  /\ worker[w].at = "handle"
  /\ cascade < conf.cascades
  /\ cascade' = cascade + 1
  /\ queue' = queue \cup {conf.tests + cascade + 1}
  /\ Goto(w, IF Live THEN "sent" ELSE "counting")
  /\ UNCHANGED <<conf, countVars, liveVars, timers, firing, fired, open, cancelled, testVars, seen>>

Counted(w) ==
  /\ worker[w].at = "counting"
  /\ Enqueued
  /\ Goto(w, "sent")
  /\ UNCHANGED <<conf, liveVars, msgVars, open, cancelled, testVars, seen>>

\* ... and once the broker took it the publish is recorded.
Sent(w) ==
  /\ worker[w].at = "sent"
  /\ Publish
  /\ Goto(w, "published")
  /\ UNCHANGED <<conf, in_flight, spent, handled, expected, due, back, msgVars, open, cancelled,
                 testVars, seen>>

\* The handler returns, or panics and takes the service down; then the call is recorded.
Return(w, outcome) ==
  /\ worker[w].at \in {"handle", "published"}
  /\ Live /\ outcome # "ack" => handled < conf.retries
  /\ cancelled' = (cancelled \/ outcome = "panic")
  /\ handled' = IF Live THEN handled + 1 ELSE handled
  /\ seen' = seen \cup {worker[w].msg}
  /\ worker' = [worker EXCEPT ![w].at = "settle", ![w].outcome = outcome]
  /\ UNCHANGED <<conf, countVars, published, expected, due, back, msgVars, open,
                 testVars>>

\* The message is settled and dropped, which is what the in-memory broker counts.
DropMessage == IF Live THEN UNCHANGED countVars ELSE Consumed

Settling(w, outcome) == worker[w].at = "settle" /\ worker[w].outcome = outcome

Ack(w) ==
  /\ Settling(w, "ack")
  /\ DropMessage
  /\ Goto(w, "end")
  /\ UNCHANGED <<conf, liveVars, msgVars, open, cancelled, testVars, seen>>

\* nack(true), or the drop of a delivery that was not settled: requeue_now, ...
Requeue(w) ==
  /\ Settling(w, "requeue") \/ Settling(w, "panic")
  /\ queue' = queue \cup {worker[w].msg}
  /\ Goto(w, IF Live THEN "end" ELSE "requeued")
  /\ UNCHANGED <<conf, countVars, liveVars, timers, firing, fired, cascade, open, cancelled,
                 testVars, seen>>

RequeueCounted(w) ==
  /\ worker[w].at = "requeued"
  /\ Enqueued
  /\ Goto(w, "dropping")
  /\ UNCHANGED <<conf, liveVars, msgVars, open, cancelled, testVars, seen>>

\* ... and the drop of the message.
Dropped(w) ==
  /\ worker[w].at = "dropping"
  /\ Consumed
  /\ Goto(w, "end")
  /\ UNCHANGED <<conf, liveVars, msgVars, open, cancelled, testVars, seen>>

\* send_copy: the hold, ...
Hold(w) ==
  /\ Settling(w, "copy")
  /\ in_flight' = in_flight + 1
  /\ Goto(w, "held")
  /\ UNCHANGED <<conf, spent, woken, liveVars, msgVars, open, cancelled, testVars, seen>>

\* ... the original dropped, ...
CopySettles(w) ==
  /\ worker[w].at = "held"
  /\ DropMessage
  /\ Goto(w, "copying")
  /\ UNCHANGED <<conf, liveVars, msgVars, open, cancelled, testVars, seen>>

\* ... the copy sent, counted and recorded, ...
CopySent(w) ==
  /\ worker[w].at = "copying"
  /\ queue' = queue \cup {worker[w].msg}
  /\ Goto(w, IF Live THEN "copied" ELSE "copycount")
  /\ UNCHANGED <<conf, countVars, liveVars, timers, firing, fired, cascade, open, cancelled,
                 testVars, seen>>

CopyCounted(w) ==
  /\ worker[w].at = "copycount"
  /\ Enqueued
  /\ Goto(w, "copied")
  /\ UNCHANGED <<conf, liveVars, msgVars, open, cancelled, testVars, seen>>

CopyRecorded(w) ==
  /\ worker[w].at = "copied"
  /\ Publish
  /\ Goto(w, "holding")
  /\ UNCHANGED <<conf, in_flight, spent, handled, expected, due, back, msgVars, open, cancelled,
                 testVars, seen>>

\* ... and the hold let go.
Release(w) ==
  /\ worker[w].at = "holding"
  /\ in_flight' = in_flight - 1
  /\ NotifyWaiters
  /\ Goto(w, "end")
  /\ UNCHANGED <<conf, spent, liveVars, msgVars, open, cancelled, testVars, seen>>

\* A native nack_after: the broker's timer has the message, the drop is counted, ...
NackAfter(w) ==
  /\ Settling(w, "later")
  /\ timers' = timers \cup {worker[w].msg}
  /\ DropMessage
  /\ Goto(w, "delayed")
  /\ UNCHANGED <<conf, liveVars, queue, firing, fired, cascade, open, cancelled, testVars, seen>>

\* ... and the harness is told when to expect it back: expect_redelivery.
Expect(w) ==
  /\ worker[w].at = "delayed"
  /\ expected' = (IF Live THEN expected + 1 ELSE expected)
  /\ NotifyWaiters
  /\ Goto(w, "end")
  /\ UNCHANGED <<conf, in_flight, spent, handled, published, due, back, msgVars, open, cancelled,
                 testVars, seen>>

\* The end of the dispatch gives its count back.
End(w) ==
  /\ worker[w].at = "end"
  /\ Consumed
  /\ worker' = [worker EXCEPT ![w] = [at |-> "idle", msg |-> 0, outcome |-> "none"]]
  /\ UNCHANGED <<conf, liveVars, msgVars, open, cancelled, testVars, seen>>

\* After a fail-fast panic the loop ends and MemorySubscriber::drop closes the queue ...
CloseQueue ==
  /\ cancelled /\ open
  /\ \A w \in Workers : worker[w].at = "idle"
  /\ open' = FALSE
  /\ UNCHANGED <<conf, countVars, liveVars, msgVars, cancelled, worker, testVars, seen>>

\* ... and counts off what was in it.
DrainQueue ==
  /\ ~open /\ ~Live
  /\ \E n \in queue : queue' = queue \ {n}
  /\ Consumed
  /\ UNCHANGED <<conf, liveVars, timers, firing, fired, cascade, open, cancelled, worker,
                 testVars, seen>>

\* schedule_redelivery: the message comes back, ...
Fire ==
  /\ \E n \in firing :
       /\ firing' = firing \ {n}
       /\ queue' = IF open THEN queue \cup {n} ELSE queue
       /\ fired' = IF open THEN fired \cup {n} ELSE fired
  /\ UNCHANGED <<conf, countVars, liveVars, timers, cascade, open, cancelled, worker, testVars,
                 seen>>

\* ... and is counted.
FireCounted ==
  /\ \E n \in fired : fired' = fired \ {n}
  /\ Enqueued
  /\ UNCHANGED <<conf, liveVars, queue, timers, firing, cascade, open, cancelled, worker,
                 testVars, seen>>

\* Live: the broker's own timer sends a message back, at any time since it took it, ...
Redeliver ==
  /\ Live
  /\ \E n \in timers :
       /\ timers' = timers \ {n}
       /\ queue' = queue \cup {n}
  /\ back' = back + 1
  /\ UNCHANGED <<conf, countVars, handled, published, expected, due, firing, fired, cascade, open,
                 cancelled, worker, testVars, seen>>

\* ... and the clock passes the time the harness stamped on a redelivery; nobody is woken.
FallDue ==
  /\ Live
  /\ expected > 0
  /\ expected' = expected - 1
  /\ due' = due + 1
  /\ UNCHANGED <<conf, countVars, handled, published, back, msgVars, open, cancelled, worker,
                 testVars, seen>>

-----------------------------------------------------------------------------
(* The test's task. *)

TestGoto(here, there) == test = here /\ test' = there

\* InjectSink::send: refused once the service is shut down.
Inject ==
  /\ TestGoto("idle", IF Live THEN "record" ELSE "count")
  /\ made < conf.tests /\ ~cancelled
  /\ made' = made + 1
  /\ queue' = queue \cup {made + 1}
  /\ UNCHANGED <<conf, countVars, liveVars, timers, firing, fired, cascade, open, cancelled,
                 worker, saw, seen>>

InjectCounted ==
  /\ TestGoto("count", "record")
  /\ Enqueued
  /\ UNCHANGED <<conf, liveVars, msgVars, open, cancelled, worker, made, saw, seen>>

RecordPublished ==
  /\ TestGoto("record", IF Live THEN "enable" ELSE "begin")
  /\ Publish
  /\ UNCHANGED <<conf, in_flight, spent, handled, expected, due, back, msgVars, open, cancelled,
                 worker, made, saw, seen>>

\* TestApp::advance, in process: the paused clock moves past every delayed message ...
Advance ==
  /\ TestGoto("idle", "fire")
  /\ ~Live /\ timers # {}
  /\ firing' = firing \cup timers
  /\ timers' = {}
  /\ UNCHANGED <<conf, countVars, liveVars, queue, fired, cascade, open, cancelled, worker, made,
                 saw, seen>>

\* ... and fire_due_timers has awaited the timers of this process.
FiredDue ==
  /\ TestGoto("fire", "begin")
  /\ firing \cup fired = {}
  /\ UNCHANGED <<conf, countVars, liveVars, msgVars, open, cancelled, worker, made, saw, seen>>

\* Live an advance sleeps while the clock runs, and settles; TestApp::settle settles at once.
Sleep ==
  /\ TestGoto("idle", "enable")
  /\ Live
  /\ UNCHANGED <<conf, countVars, liveVars, msgVars, open, cancelled, worker, made, saw, seen>>

\* begin_step
BeginStep ==
  /\ TestGoto("begin", "enable")
  /\ spent' = 0
  /\ UNCHANGED <<conf, in_flight, woken, liveVars, msgVars, open, cancelled, worker, made, saw,
                 seen>>

\* drive and settle_live register for a wake before they read anything.
Enable ==
  /\ TestGoto("enable", IF Live THEN "now" ELSE "load")
  /\ woken' = FALSE
  /\ UNCHANGED <<conf, in_flight, spent, liveVars, msgVars, open, cancelled, worker, made, saw,
                 seen>>

\* drive: settled when nothing is in flight, ...
Load ==
  /\ TestGoto("load", IF in_flight = 0 THEN "idle" ELSE "budget")
  /\ UNCHANGED <<conf, countVars, liveVars, msgVars, open, cancelled, worker, made, saw, seen>>

\* Mutant: every look has the whole budget.
BudgetAnew ==
  /\ TestGoto("budget", IF spent >= conf.max_steps THEN "failed" ELSE "wait")
  /\ spent' = 0
  /\ UNCHANGED <<conf, in_flight, woken, liveVars, msgVars, open, cancelled, worker, made, saw,
                 seen>>

\* ... NotQuiescent when the step budget is spent.
Budget ==
  /\ TestGoto("budget", IF spent >= conf.max_steps THEN "failed" ELSE "wait")
  /\ UNCHANGED <<conf, countVars, liveVars, msgVars, open, cancelled, worker, made, saw, seen>>

\* settle_live: owed takes the time first.  It fixes the redeliveries that count: one noted later
\* falls due later, and one noted before is still listed when the list is read, ...
ReadNow ==
  /\ TestGoto("now", "handled")
  /\ saw' = [due |-> due, handled |-> 0, owed |-> 0]
  /\ UNCHANGED <<conf, countVars, liveVars, msgVars, open, cancelled, worker, made, seen>>

\* ... then reads what was handled, ...
ReadHandled ==
  /\ TestGoto("handled", "published")
  /\ saw' = [saw EXCEPT !.handled = handled]
  /\ UNCHANGED <<conf, countVars, liveVars, msgVars, open, cancelled, worker, made, seen>>

\* ... then what was published, and adds the redeliveries, ...
ReadPublished ==
  /\ TestGoto("published", "running")
  /\ saw' = [saw EXCEPT !.owed = published + saw.due]
  /\ UNCHANGED <<conf, countVars, liveVars, msgVars, open, cancelled, worker, made, seen>>

\* ... and last whether a call runs.
ReadRunning ==
  /\ TestGoto("running", IF saw.handled >= saw.owed /\ in_flight = 0 THEN "idle" ELSE "wait")
  /\ UNCHANGED <<conf, countVars, liveVars, msgVars, open, cancelled, worker, made, saw, seen>>

Notified ==
  /\ TestGoto("wait", "enable")
  /\ woken
  /\ UNCHANGED <<conf, countVars, liveVars, msgVars, open, cancelled, worker, made, saw, seen>>

\* NotSettled: the deadline of a live wait.
Deadline ==
  /\ TestGoto("wait", "failed")
  /\ Live
  /\ UNCHANGED <<conf, countVars, liveVars, msgVars, open, cancelled, worker, made, saw, seen>>

\* The test asserts, or is over.
Asserts == test \in {"idle", "failed"} /\ UNCHANGED vars

-----------------------------------------------------------------------------
WorkerStep(w) ==
  \/ Take(w) \/ Token(w) \/ Cascade(w) \/ Counted(w) \/ Sent(w)
  \/ \E outcome \in conf.outcomes : Return(w, outcome)
  \/ Ack(w) \/ Requeue(w) \/ RequeueCounted(w) \/ Dropped(w)
  \/ Hold(w) \/ CopySettles(w) \/ CopySent(w) \/ CopyCounted(w) \/ CopyRecorded(w) \/ Release(w)
  \/ NackAfter(w) \/ Expect(w) \/ End(w)

LoopEnds == CloseQueue \/ DrainQueue
TimerStep == Fire \/ FireCounted \/ Redeliver

SettleStep ==
  \/ InjectCounted \/ RecordPublished \/ FiredDue \/ BeginStep \/ Enable \/ Load \/ Budget
  \/ ReadNow \/ ReadHandled \/ ReadPublished \/ ReadRunning \/ Notified

Next ==
  \/ \E w \in Workers : WorkerStep(w)
  \/ LoopEnds \/ TimerStep \/ FallDue \/ SettleStep
  \/ Inject \/ Advance \/ Sleep \/ Deadline \/ Asserts

Safe == Init /\ [][Next]_vars

Crew == UNION {1 .. c.workers : c \in Confs}

\* The executor polls the woken tasks, timers that are due fire, a live broker sends back what it
\* was told to delay, and handlers return.  Nothing makes the test go on, or the deadline pass.
Spec ==
  /\ Safe
  /\ WF_vars(SettleStep) /\ WF_vars(LoopEnds) /\ WF_vars(TimerStep)
  /\ \A w \in Crew : WF_vars(w \in Workers /\ WorkerStep(w))

-----------------------------------------------------------------------------
(* Properties. *)

\* While the test asserts, nothing of the reaction it waited for is left: no delivery is queued or
\* on its way back, no call runs, and every message it published has been handled, unless a
\* fail-fast panic ended the service.  ("drives the resulting reaction to a standstill".)  Live
\* this is so as long as the broker has sent back no redelivery but those that were due when the
\* settle took the time: one that came earlier may stand in for a publish that is still with the
\* broker, and one that comes later runs while the test asserts.
SettledIsStill ==
  test = "idle" /\ (Live => back <= saw.due) =>
    /\ queue = {} /\ firing = {} /\ fired = {}
    /\ \A w \in Workers : worker[w].at = "idle"
    /\ cancelled \/ 1 .. made \cup {conf.tests + i : i \in 1 .. cascade} \subseteq seen

\* Live, every message the test published and a settle waited for has been handled by the time it
\* returns.  ("until every subscription has handled each recorded publish its broker delivers to it".)
EveryPublishHandled == test = "idle" => 1 .. made \subseteq seen

\* Every publish of the test returns: the wait sees the end of the reaction, or the step budget
\* ends an endless requeue.  Live it ends before the deadline.
DriveEnds == test \notin {"idle", "failed"} ~> test \in {"idle", "failed"}
=============================================================================
