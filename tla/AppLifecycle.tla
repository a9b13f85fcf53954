---------------------------- MODULE AppLifecycle ----------------------------
(***************************************************************************)
(* A service of the Tokio runner from start to the end of its shutdown     *)
(* (crates/runtime-tokio/src/app/run.rs, teardown.rs, health.rs and        *)
(* shutdown.rs): brokers connect, subscriptions open and spawn their       *)
(* dispatch loops, and a failed start, an orderly shutdown or a fail-fast  *)
(* failure takes all of it down again while handlers run.                  *)
(*                                                                         *)
(* The main task (stage), the loops, the workers of pools, the             *)
(* continuations handlers leave behind and the health watcher are tasks of *)
(* their own.  A loop is what it does to the teardown: it reads the        *)
(* shutdown flag, polls the stream, runs or hands on a delivery, ends.     *)
(* How it hands on is in WorkerPool.                                       *)
(***************************************************************************)
EXTENDS Integers, FiniteSets, FiniteSetsExt

CONSTANTS
  Brokers,   \* registered brokers, as 1 .. n in registration order
  Subs,      \* subscriptions, as 1 .. n in registration order
  None,      \* no failure recorded
  Confs,     \* the services considered
  MaxConts   \* bound: continuations alive at once

(* timeout: shutdown_timeout is set.  workers: the deliveries a            *)
(* subscription has in hand at once: 1 where it is sequential, and for a   *)
(* pool its workers, or twice as many where it hands out by key and each   *)
(* worker may have one running and one queued.  fail_fast:                 *)
(* SubscriptionEnd::FailFast.  until: the service is driven by run_until.  *)
(* harness: the service is torn down by TestApp::shutdown.                 *)
ASSUME AppAssumption ==
  /\ IsFiniteSet(Brokers) /\ Brokers = 1 .. Cardinality(Brokers)
  /\ IsFiniteSet(Subs) /\ Subs = 1 .. Cardinality(Subs)
  /\ None \notin Subs
  /\ Confs \subseteq [timeout : BOOLEAN, workers : Nat \ {0}, fail_fast : BOOLEAN,
                      until : BOOLEAN, harness : BOOLEAN]
  /\ MaxConts \in Nat

VARIABLES
  conf,       \* the service, never changed
  stage,      \* where the main task is, in start, unwind_started or Teardown::run
  broker,     \* each broker
  loop,       \* each subscription's loop
  inHand,     \* the deliveries each loop has in hand, running or queued at a worker
  orphans,    \* handlers of a loop that is gone, told to end
  told,       \* loops the drain aborted
  joined,     \* the loops the drain has seen finish
  timed,      \* a shutdown timeout is set
  expired,    \* the timeout of the current wait has passed
  conts,      \* continuations alive
  abandoned,  \* a drain gave up on continuations
  cancelled,  \* Shutdown: the signal is raised
  stopping,   \* Shutdown: the teardown has begun
  failure,    \* Shutdown: the first failure recorded, or None
  active,     \* SubscriptionCount::active
  health,     \* HealthState
  watcher,    \* the watcher of watch_for_failure
  drained,    \* the first panic the drain saw
  closed,     \* the first refusal of a broker to shut down
  outcome,    \* what start or shutdown returns
  signalled,  \* history: who failed the service before shutdown took the failure
  unseen      \* history: the loops that panicked after the drain had aborted them

mainVars  == <<stage, joined, timed, expired, drained, closed, outcome>>
loopVars  == <<loop, inHand, orphans, told, active>>
sigVars   == <<cancelled, failure, signalled>>
vars == <<conf, stage, broker, loop, inHand, orphans, told, joined, timed, expired, conts,
          abandoned, cancelled, stopping, failure, active, health, watcher, drained, closed,
          outcome, signalled, unseen>>

Init ==
  /\ conf \in Confs
  /\ stage = "state" /\ outcome = "none"
  /\ broker = [b \in Brokers |-> "registered"]
  /\ loop = [s \in Subs |-> "none"]
  /\ inHand = [s \in Subs |-> 0]
  /\ orphans = [s \in Subs |-> 0]
  /\ told = {} /\ joined = {} /\ timed = conf.timeout /\ expired = FALSE
  /\ conts = 0 /\ abandoned = FALSE
  /\ cancelled = FALSE /\ stopping = FALSE /\ failure = None
  /\ active = 0 /\ health = "Running" /\ watcher = "none"
  /\ drained = FALSE /\ closed = FALSE
  /\ signalled = {} /\ unseen = {}

Finished == {"ended", "panicked", "aborted"}
Spawned == {s \in Subs : loop[s] # "none"}
Live == Spawned \ {s \in Subs : loop[s] \in Finished}

Starting == outcome \in {"none", "connect", "startup", "subscribe"} /\ ~stopping

-----------------------------------------------------------------------------
(* start: the main task, until the service runs. *)

ProduceState(ok) ==
  /\ stage = "state"
  /\ stage' = IF ok THEN "connect" ELSE "ended"
  /\ outcome' = IF ok THEN outcome ELSE "startup"
  /\ UNCHANGED <<conf, broker, loopVars, joined, timed, expired, conts, abandoned, sigVars,
                 stopping, health, watcher, drained, closed, unseen>>

Unconnected == {b \in Brokers : broker[b] = "registered"}

\* Mutant: a refusal returns at once.
ConnectReturns(ok) ==
  /\ stage = "connect"
  /\ Unconnected # {}
  /\ broker' = IF ok THEN [broker EXCEPT ![Min(Unconnected)] = "connected"] ELSE broker
  /\ stage' = IF ok THEN stage ELSE "ended"
  /\ outcome' = IF ok THEN outcome ELSE "connect"
  /\ UNCHANGED <<conf, loopVars, joined, timed, expired, conts, abandoned, sigVars, stopping,
                 health, watcher, drained, closed, unseen>>

\* connect_brokers, in registration order; a refusal shuts down what connected before it.
Connect(ok) ==
  /\ stage = "connect"
  /\ Unconnected # {}
  /\ IF ok
     THEN /\ broker' = [broker EXCEPT ![Min(Unconnected)] = "connected"]
          /\ UNCHANGED <<stage, outcome>>
     ELSE /\ stage' = "close"
          /\ outcome' = "connect"
          /\ UNCHANGED broker
  /\ UNCHANGED <<conf, loopVars, joined, timed, expired, conts, abandoned, sigVars, stopping,
                 health, watcher, drained, closed, unseen>>

ConnectedAll ==
  /\ stage = "connect"
  /\ Unconnected = {}
  /\ stage' = "subscribe"
  /\ UNCHANGED <<conf, broker, loopVars, joined, timed, expired, conts, abandoned, sigVars,
                 stopping, health, watcher, drained, closed, outcome, unseen>>

\* unwind_started: the signal, then the drains and the brokers, as in a shutdown.
UnwindStarted(why) ==
  /\ stage' = "drain"
  /\ outcome' = why
  /\ cancelled' = TRUE

\* start_subscribers: opens the next subscription and spawns its loop, counted as consuming.
Subscribe(ok) ==
  /\ stage = "subscribe"
  /\ Subs # Spawned
  /\ LET s == Min(Subs \ Spawned)
     IN  IF ok
         THEN /\ loop' = [loop EXCEPT ![s] = "top"]
              /\ active' = active + 1
              /\ UNCHANGED <<stage, outcome, cancelled>>
         ELSE UnwindStarted("subscribe") /\ UNCHANGED <<loop, active>>
  /\ UNCHANGED <<conf, broker, inHand, orphans, told, joined, timed, expired, conts, abandoned,
                 stopping, failure, signalled, health, watcher, drained, closed, unseen>>

\* run_after_startup, and the watcher of watch_for_failure.
AfterStartup(ok) ==
  /\ stage = "subscribe"
  /\ Subs = Spawned
  /\ IF ok
     THEN /\ stage' = "running"
          /\ watcher' = IF conf.harness THEN "done" ELSE "waiting"
          /\ UNCHANGED <<outcome, cancelled>>
     ELSE UnwindStarted("startup") /\ UNCHANGED watcher
  /\ UNCHANGED <<conf, broker, loopVars, joined, timed, expired, conts, abandoned, stopping,
                 failure, signalled, health, drained, closed, unseen>>

-----------------------------------------------------------------------------
(* RunningApp::shutdown and Teardown::run. *)

\* What RunningApp::shutdown reports; the harness has no probe.
Transition(state) == health' = IF conf.harness THEN health ELSE state

\* shutdown, called by the owner at any time: the report, and begin.
BeginShutdown ==
  /\ stage = "running"
  /\ Transition("ShuttingDown")
  /\ stopping' = TRUE
  /\ stage' = "on_shutdown"
  /\ UNCHANGED <<conf, broker, loopVars, joined, timed, expired, conts, abandoned, sigVars,
                 watcher, drained, closed, outcome, unseen>>

\* The on_shutdown hooks have run, failed or not: cancel.
OnShutdown ==
  /\ stage = "on_shutdown"
  /\ cancelled' = TRUE
  /\ stage' = "drain"
  /\ UNCHANGED <<conf, broker, loopVars, joined, timed, expired, conts, abandoned, stopping,
                 failure, signalled, health, watcher, drained, closed, outcome, unseen>>

\* The clock passes the deadline of the wait the main task is in.
Expire ==
  /\ stage \in {"drain", "conts"}
  /\ timed /\ ~expired
  /\ expired' = TRUE
  /\ UNCHANGED <<conf, stage, broker, loopVars, joined, timed, conts, abandoned, sigVars,
                 stopping, health, watcher, drained, closed, outcome, unseen>>

Unjoined == Spawned \ joined

\* Mutant: the drain returns with the first panic.
DrainJoinsFirst(s) ==
  /\ stage = "drain"
  /\ Unjoined # {} /\ s = Min(Unjoined)
  /\ loop[s] \in Finished
  /\ joined' = IF loop[s] = "panicked" THEN Spawned ELSE joined \cup {s}
  /\ drained' = (drained \/ loop[s] = "panicked")
  /\ UNCHANGED <<conf, stage, broker, loopVars, timed, expired, conts, abandoned, sigVars,
                 stopping, health, watcher, closed, outcome, unseen>>

\* drain_handles awaits the loops in order: one that finished, even past the deadline, ...
DrainJoins(s) ==
  /\ stage = "drain"
  /\ Unjoined # {} /\ s = Min(Unjoined)
  /\ loop[s] \in Finished
  /\ joined' = joined \cup {s}
  /\ drained' = (drained \/ loop[s] = "panicked")
  /\ UNCHANGED <<conf, stage, broker, loopVars, timed, expired, conts, abandoned, sigVars,
                 stopping, health, watcher, closed, outcome, unseen>>

\* Mutant: the deadline ends the wait and the loop is not told.
DrainAbortsNone(s) ==
  /\ stage = "drain"
  /\ Unjoined # {} /\ s = Min(Unjoined)
  /\ expired /\ loop[s] \notin Finished
  /\ stage' = "abort"
  /\ UNCHANGED <<conf, broker, loopVars, joined, timed, expired, conts, abandoned, sigVars,
                 stopping, health, watcher, drained, closed, outcome, unseen>>

\* ... or, at the deadline, aborts it, ...
DrainAborts(s) ==
  /\ stage = "drain"
  /\ Unjoined # {} /\ s = Min(Unjoined)
  /\ expired /\ loop[s] \notin Finished
  /\ told' = told \cup {s}
  /\ stage' = "abort"
  /\ UNCHANGED <<conf, broker, loop, inHand, orphans, active, joined, timed, expired, conts,
                 abandoned, sigVars, stopping, health, watcher, drained, closed, outcome, unseen>>

\* ... and awaits its end, whose outcome says nothing more.
DrainAwaitsAborted(s) ==
  /\ stage = "abort"
  /\ s = Min(Unjoined)
  /\ loop[s] \in Finished
  /\ joined' = joined \cup {s}
  /\ stage' = "drain"
  /\ UNCHANGED <<conf, broker, loopVars, timed, expired, conts, abandoned, sigVars, stopping,
                 health, watcher, drained, closed, outcome, unseen>>

\* Mutant: the brokers close with the loops gone.
DrainEndsAll ==
  /\ stage = "drain"
  /\ Unjoined = {}
  /\ stage' = "close"
  /\ UNCHANGED <<conf, broker, loopVars, joined, timed, expired, conts, abandoned, sigVars,
                 stopping, health, watcher, drained, closed, outcome, unseen>>

DrainEnds ==
  /\ stage = "drain"
  /\ Unjoined = {}
  /\ stage' = "conts"
  /\ expired' = FALSE
  /\ UNCHANGED <<conf, broker, loopVars, joined, timed, conts, abandoned, sigVars, stopping,
                 health, watcher, drained, closed, outcome, unseen>>

\* drain_continuations: none is left, or the rest is abandoned at the deadline.
DrainContinuations ==
  /\ stage = "conts"
  /\ conts = 0 \/ expired
  /\ abandoned' = (abandoned \/ conts > 0)
  /\ stage' = "close"
  /\ UNCHANGED <<conf, broker, loopVars, joined, timed, expired, conts, sigVars, stopping,
                 health, watcher, drained, closed, outcome, unseen>>

Open == {b \in Brokers : broker[b] = "connected"}
Closing == {b \in Brokers : broker[b] = "closing"}

\* close_brokers and unwind_connected: the last broker open is taken off the list ...
CloseBroker ==
  /\ stage = "close"
  /\ Closing = {} /\ Open # {}
  /\ broker' = [broker EXCEPT ![Max(Open)] = "closing"]
  /\ UNCHANGED <<conf, mainVars, loopVars, conts, abandoned, sigVars, stopping, health, watcher,
                 unseen>>

\* ... and answers; the first refusal is kept, and the others have their turn.
BrokerClosed(ok) ==
  /\ stage = "close"
  /\ \E b \in Closing : broker' = [broker EXCEPT ![b] = "closed"]
  /\ closed' = (closed \/ (~ok /\ ~Starting))
  /\ UNCHANGED <<conf, stage, loopVars, joined, timed, expired, conts, abandoned, sigVars,
                 stopping, health, watcher, drained, outcome, unseen>>

\* A failed start returns its error.
UnwindEnds ==
  /\ stage = "close"
  /\ Starting /\ Open \cup Closing = {}
  /\ stage' = "ended"
  /\ UNCHANGED <<conf, broker, loopVars, joined, timed, expired, conts, abandoned, sigVars,
                 stopping, health, watcher, drained, closed, outcome, unseen>>

\* Mutant: only what went wrong in the teardown itself is returned.
ResultForgetsFailure ==
  IF drained THEN "join" ELSE IF closed THEN "shutdown" ELSE "ok"

\* The first failure is the one returned: a panic, a refusal, the failure the service recorded.
Result ==
  IF drained THEN "join" ELSE IF closed THEN "shutdown"
  ELSE IF failure # None THEN "dispatch" ELSE "ok"

\* The after_shutdown hooks have run, failed or not: the failure is taken and the result is in.
AfterShutdown ==
  /\ stage = "close"
  /\ ~Starting /\ Open \cup Closing = {}
  /\ outcome' = IF outcome = "kept_running" THEN outcome ELSE Result
  /\ failure' = IF drained \/ closed THEN failure ELSE None
  /\ stage' = "report"
  /\ UNCHANGED <<conf, broker, loopVars, joined, timed, expired, conts, abandoned, cancelled,
                 stopping, signalled, health, watcher, drained, closed, unseen>>

\* Mutant: every shutdown that returns reports Stopped.
ReportStopped ==
  /\ stage = "report"
  /\ Transition("Stopped")
  /\ stage' = "ended"
  /\ UNCHANGED <<conf, broker, loopVars, joined, timed, expired, conts, abandoned, sigVars,
                 stopping, watcher, drained, closed, outcome, unseen>>

\* shutdown reports the terminal state and returns.
ReportTerminal ==
  /\ stage = "report"
  /\ Transition(IF outcome = "ok" THEN "Stopped" ELSE "Failed")
  /\ stage' = "ended"
  /\ UNCHANGED <<conf, broker, loopVars, joined, timed, expired, conts, abandoned, sigVars,
                 stopping, watcher, drained, closed, outcome, unseen>>

\* TestApp::shutdown gives up a teardown without a timeout that a runnable handler holds, and runs
\* it again with no time to wait.  What the first run had taken off its lists goes with it.
GiveUp ==
  /\ conf.harness /\ ~timed
  /\ stopping /\ stage \in {"on_shutdown", "drain", "conts", "close"}
  /\ timed' = TRUE
  /\ expired' = TRUE
  /\ broker' = [b \in Brokers |-> IF b \in Closing THEN "cut" ELSE broker[b]]
  /\ drained' = FALSE /\ closed' = FALSE
  /\ outcome' = "kept_running"
  /\ stage' = "on_shutdown"
  /\ UNCHANGED <<conf, loopVars, joined, conts, abandoned, sigVars, stopping, health, watcher,
                 unseen>>

-----------------------------------------------------------------------------
(* The dispatch loops, and what handlers do to the service. *)

\* Shutdown::signal: the first failure is recorded, and the signal raised.
Signal(s) ==
  /\ failure' = IF failure = None THEN s ELSE failure
  /\ signalled' = IF stage \in {"report", "ended"} THEN signalled ELSE signalled \cup {s}
  /\ cancelled' = TRUE

\* The loop reads the flag before it touches the stream; a pool waits until it has room.
LoopTop(s) ==
  /\ loop[s] = "top"
  /\ \/ cancelled /\ loop' = [loop EXCEPT ![s] = "closing"]
     \/ ~cancelled /\ inHand[s] < conf.workers /\ loop' = [loop EXCEPT ![s] = "poll"]
  /\ UNCHANGED <<conf, mainVars, broker, inHand, orphans, told, active, conts, abandoned,
                 sigVars, stopping, health, watcher, unseen>>

\* A delivery: run on the loop's own task, or handed to a worker.
LoopDelivers(s) ==
  /\ loop[s] = "poll"
  /\ loop' = [loop EXCEPT ![s] = IF conf.workers = 1 THEN "busy" ELSE "top"]
  /\ inHand' = [inHand EXCEPT ![s] = @ + 1]
  /\ UNCHANGED <<conf, mainVars, broker, orphans, told, active, conts, abandoned, sigVars,
                 stopping, health, watcher, unseen>>

\* The stream has nothing and shutdown fires.
LoopStops(s) ==
  /\ loop[s] = "poll"
  /\ cancelled
  /\ loop' = [loop EXCEPT ![s] = "closing"]
  /\ UNCHANGED <<conf, mainVars, broker, inHand, orphans, told, active, conts, abandoned,
                 sigVars, stopping, health, watcher, unseen>>

\* The stream ends: part of a shutdown under way, or what SubscriptionEnd says.
StreamEnds(s) ==
  /\ loop[s] = "poll"
  /\ loop' = [loop EXCEPT ![s] = "closing"]
  /\ IF conf.fail_fast /\ ~cancelled /\ ~stopping THEN Signal(s) ELSE UNCHANGED sigVars
  /\ UNCHANGED <<conf, mainVars, broker, inHand, orphans, told, active, conts, abandoned,
                 stopping, health, watcher, unseen>>

\* A pool whose delivery finds its worker gone stops pulling, with no failure recorded.
LoopGivesUp(s) ==
  /\ loop[s] = "poll"
  /\ conf.workers > 1
  /\ loop' = [loop EXCEPT ![s] = "closing"]
  /\ UNCHANGED <<conf, mainVars, broker, inHand, orphans, told, active, conts, abandoned,
                 sigVars, stopping, health, watcher, unseen>>

\* A delivery is done: the handler may leave a continuation behind, and may fail the service.
HandlerLeaves(s, leaves, fails) ==
  /\ leaves => conts < MaxConts
  /\ conts' = IF leaves THEN conts + 1 ELSE conts
  /\ IF fails THEN Signal(s) ELSE UNCHANGED sigVars

HandlerReturns(s, leaves, fails) ==
  /\ inHand[s] > 0
  /\ inHand' = [inHand EXCEPT ![s] = @ - 1]
  /\ loop' = [loop EXCEPT ![s] = IF @ = "busy" THEN "top" ELSE @]
  /\ HandlerLeaves(s, leaves, fails)
  /\ UNCHANGED <<conf, mainVars, broker, orphans, told, active, abandoned, stopping, health,
                 watcher, unseen>>

\* A loop that goes takes its sequential handler with it; its workers are told to end and not
\* awaited.  The Consuming guard goes with the task.
LoopGoes(s, how) ==
  /\ loop' = [loop EXCEPT ![s] = how]
  /\ active' = active - 1
  /\ inHand' = [inHand EXCEPT ![s] = 0]
  /\ orphans' = [orphans EXCEPT ![s] = IF conf.workers = 1 THEN 0 ELSE inHand[s]]

\* Every worker has been joined.
LoopEnds(s) ==
  /\ loop[s] = "closing"
  /\ inHand[s] = 0
  /\ LoopGoes(s, "ended")
  /\ UNCHANGED <<conf, mainVars, broker, told, conts, abandoned, sigVars, stopping, health,
                 watcher, unseen>>

LoopPanics(s) ==
  /\ loop[s] \in {"poll", "busy"}
  /\ LoopGoes(s, "panicked")
  /\ unseen' = IF s \in told THEN unseen \cup {s} ELSE unseen
  /\ UNCHANGED <<conf, mainVars, broker, told, conts, abandoned, sigVars, stopping, health,
                 watcher>>

\* An aborted loop ends at its next await.
LoopAborted(s) ==
  /\ s \in told /\ s \in Live
  /\ LoopGoes(s, "aborted")
  /\ UNCHANGED <<conf, mainVars, broker, told, conts, abandoned, sigVars, stopping, health,
                 watcher, unseen>>

\* A worker told to end reaches an await, or the end of its delivery first.
OrphanEnds(s, leaves, fails) ==
  /\ orphans[s] > 0
  /\ orphans' = [orphans EXCEPT ![s] = @ - 1]
  /\ HandlerLeaves(s, leaves, fails)
  /\ UNCHANGED <<conf, mainVars, broker, loop, inHand, told, active, abandoned, stopping, health,
                 watcher, unseen>>

ContinuationEnds ==
  /\ conts > 0
  /\ conts' = conts - 1
  /\ UNCHANGED <<conf, mainVars, broker, loopVars, abandoned, sigVars, stopping, health, watcher,
                 unseen>>

-----------------------------------------------------------------------------
(* watch_for_failure. *)

\* Mutant: the watcher does not report.
WatcherIgnores ==
  /\ watcher = "waiting" /\ cancelled
  /\ watcher' = "done"
  /\ UNCHANGED <<conf, mainVars, broker, loopVars, conts, abandoned, sigVars, stopping, health,
                 unseen>>

WatcherPeeks ==
  /\ watcher = "waiting" /\ cancelled
  /\ watcher' = IF failure # None THEN "saw" ELSE "done"
  /\ UNCHANGED <<conf, mainVars, broker, loopVars, conts, abandoned, sigVars, stopping, health,
                 unseen>>

WatcherReports ==
  /\ watcher = "saw"
  /\ health' = "Failed"
  /\ watcher' = "done"
  /\ UNCHANGED <<conf, mainVars, broker, loopVars, conts, abandoned, sigVars, stopping, unseen>>

Done == stage = "ended" /\ UNCHANGED vars

-----------------------------------------------------------------------------
StartStep ==
  \/ \E ok \in BOOLEAN : ProduceState(ok) \/ Connect(ok) \/ Subscribe(ok) \/ AfterStartup(ok)
  \/ ConnectedAll

TeardownStep ==
  \/ OnShutdown \/ DrainEnds \/ DrainContinuations
  \/ \E s \in Subs : DrainJoins(s) \/ DrainAborts(s) \/ DrainAwaitsAborted(s)
  \/ CloseBroker \/ UnwindEnds \/ AfterShutdown \/ ReportTerminal
  \/ \E ok \in BOOLEAN : BrokerClosed(ok)

LoopStep(s) == LoopTop(s) \/ LoopStops(s) \/ LoopEnds(s) \/ LoopAborted(s)

HandlerStep(s) ==
  \E leaves, fails \in BOOLEAN : HandlerReturns(s, leaves, fails) \/ OrphanEnds(s, leaves, fails)

WatcherStep == WatcherPeeks \/ WatcherReports

Next ==
  \/ StartStep \/ BeginShutdown \/ TeardownStep \/ Expire \/ GiveUp
  \/ \E s \in Subs :
       \/ LoopStep(s) \/ LoopDelivers(s) \/ StreamEnds(s) \/ LoopGivesUp(s)
       \/ LoopPanics(s) \/ HandlerStep(s)
  \/ ContinuationEnds \/ WatcherStep \/ Done

Safe == Init /\ [][Next]_vars

\* The executor polls woken tasks, hooks and brokers answer and the clock moves on.  run_until
\* shuts a service down that stops on its own.  Nothing makes a handler or a continuation return.
Spec ==
  /\ Safe
  /\ WF_vars(StartStep) /\ WF_vars(TeardownStep) /\ WF_vars(Expire)
  /\ WF_vars(conf.until /\ cancelled /\ BeginShutdown)
  /\ \A s \in Subs : WF_vars(LoopStep(s))
  /\ WF_vars(WatcherStep)

-----------------------------------------------------------------------------
(* Properties. *)

\* No broker closes under a running handler or a loop: from the first close on, every loop is
\* gone, whether it ended, panicked or was aborted, in a failed start, a shutdown or a teardown
\* the harness ran twice; only workers told to end may still be on their way.
NoCloseUnderAHandler ==
  (\E b \in Brokers : broker[b] \in {"closing", "closed", "cut"}) =>
    Live = {} /\ \A s \in Subs : inHand[s] = 0

\* Continuations drain before the brokers close: one runs against a closed broker only when a
\* timeout abandoned it, or a worker left it that was told to end and not awaited.
ContinuationsBeforeClose ==
  (\E b \in Brokers : broker[b] \in {"closing", "closed", "cut"}) /\ conts > 0 =>
    abandoned \/ \E s \in Subs : conf.workers > 1 /\ loop[s] \in {"panicked", "aborted"}

\* When start fails or shutdown returns nothing is left behind: each broker that connected was
\* shut down, in reverse order, and every loop is gone from the health report.
NothingLeaks ==
  /\ \A b, c \in Brokers :
       b < c /\ broker[b] \in {"closing", "closed", "cut"} => broker[c] \in {"registered", "closed", "cut"}
  /\ stage = "ended" => Open \cup Closing = {} /\ active = 0

\* shutdown answers Ok only where nothing failed: each loop that panicked did so after the drain
\* had aborted it, no broker refused, and no subscription failed the service before the teardown
\* took the recorded failure.
OkIsHonest ==
  stage = "report" /\ outcome = "ok" =>
    /\ \A s \in Subs : loop[s] = "panicked" => s \in unseen
    /\ ~closed
    /\ signalled = {}

\* Once shutdown has returned and the watcher is through, the probe reads what shutdown answered,
\* though both write it: Stopped for Ok, Failed for an error.  A worker that was told to end and
\* fails after the answer is the exception.  The loops it counts as running are those that run,
\* however they end.
HealthAgrees ==
  /\ active = Cardinality(Live)
  /\ stage = "ended" /\ stopping /\ watcher = "done" /\ ~conf.harness =>
       (health = "Failed" <=> outcome # "ok") \/ failure # None

\* With a shutdown timeout a shutdown, or the unwind of a failed start, ends, though no handler
\* and no continuation ever returns; and run_until shuts down a service that failed.
ShutdownEnds ==
  (conf.timeout /\ (stage = "drain" \/ (conf.until /\ failure # None))) ~> stage = "ended"

\* A service that stops on a failure reports it, though nobody ever calls shutdown.
FailureIsReported ==
  (failure # None /\ stage = "running" /\ ~conf.harness) ~> health = "Failed"
=============================================================================
