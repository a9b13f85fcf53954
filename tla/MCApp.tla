------------------------------- MODULE MCApp -------------------------------
(***************************************************************************)
(* A service and a test of one, for TLC: a behaviour is the life of a      *)
(* service of two brokers and two subscriptions, or a test that drives one *)
(* subscription through the harness, and the variables of the other stay   *)
(* as they start.                                                          *)
(***************************************************************************)
EXTENDS AppLifecycle

CONSTANT Tests   \* the tests considered

VARIABLES
  kind,
  trial,   \* the test
  in_flight, spent, woken, handled, published, expected, due, back, queue, timers, firing,
  fired, cascade, open, worker, test, made, saw, seen

\* A test's handlers do what a handler may do, and its bounds are numbers.
ASSUME TestsAssumption ==
  \A c \in Tests :
    /\ c.live \in BOOLEAN /\ c.outcomes \subseteq {"ack", "requeue", "copy", "later", "panic"}
    /\ c.workers \in Nat /\ c.tests \in Nat /\ c.cascades \in Nat /\ c.max_steps \in Nat

Harness == INSTANCE TestHarness WITH Confs <- Tests, conf <- trial

TwoBrokers == 1 .. 2
TwoSubs == 1 .. 2

Conf(timeout, workers, fail_fast, until, harness) ==
  [timeout |-> timeout, workers |-> workers, fail_fast |-> fail_fast, until |-> until,
   harness |-> harness]

\* Sequential subscriptions and pools of two, with and without a shutdown timeout, and the
\* teardown of the test harness.
Services ==
  {Conf(TRUE, 1, TRUE, TRUE, FALSE), Conf(TRUE, 2, FALSE, FALSE, FALSE),
   Conf(FALSE, 2, TRUE, TRUE, FALSE), Conf(FALSE, 1, FALSE, FALSE, TRUE)}
NoServices == {}
IdleService == Conf(FALSE, 1, FALSE, FALSE, FALSE)

Case(live, workers, outcomes, tests, cascades) ==
  [live |-> live, workers |-> workers, outcomes |-> outcomes, tests |-> tests,
   cascades |-> cascades, max_steps |-> 4, retries |-> 2]

\* In process: two calls at once that requeue, copy and publish, and one at a time that delays
\* or takes the service down.  Live: calls that publish, and calls that delay, two in turn and
\* one of two at once.
EveryTest ==
  {Case(FALSE, 2, {"ack", "requeue", "copy"}, 1, 1),
   Case(FALSE, 1, {"ack", "requeue", "later", "panic"}, 2, 0),
   Case(TRUE, 2, {"ack"}, 1, 2),
   Case(TRUE, 1, {"ack", "later"}, 2, 0),
   [Case(TRUE, 2, {"ack", "later"}, 2, 0) EXCEPT !.retries = 1]}
LiveRequeues == {Case(TRUE, 1, {"ack", "requeue"}, 2, 0)}

serviceOnly ==
  <<conf, stage, broker, loop, inHand, orphans, told, joined, timed, expired, conts, abandoned,
    stopping, failure, active, health, watcher, drained, closed, outcome,
    signalled, unseen>>
testOnly ==
  <<trial, in_flight, spent, woken, handled, published, expected, due, back, queue, timers, firing,
    fired, cascade, open, worker, test, made, saw, seen>>
appVars == <<kind, vars, testOnly>>

NoService ==
  /\ conf = IdleService /\ stage = "ended" /\ outcome = "none"
  /\ broker = [b \in Brokers |-> "registered"] /\ loop = [s \in Subs |-> "none"]
  /\ inHand = [s \in Subs |-> 0] /\ orphans = [s \in Subs |-> 0]
  /\ told = {} /\ joined = {} /\ timed = FALSE /\ expired = FALSE /\ conts = 0
  /\ abandoned = FALSE /\ stopping = FALSE /\ failure = None /\ active = 0 /\ health = "none"
  /\ watcher = "none" /\ drained = FALSE /\ closed = FALSE
  /\ signalled = {} /\ unseen = {}

NoTest ==
  /\ trial = 0 /\ in_flight = 0 /\ spent = 0 /\ woken = FALSE /\ handled = 0 /\ published = 0
  /\ expected = 0 /\ due = 0 /\ back = 0 /\ queue = {} /\ timers = {} /\ firing = {}
  /\ fired = {} /\ cascade = 0 /\ open = FALSE /\ worker = << >> /\ test = "failed" /\ made = 0
  /\ saw = << >> /\ seen = {}

InitApp ==
  \/ kind = "service" /\ Init /\ NoTest
  \/ kind = "test" /\ Harness!Init /\ NoService

OfService(A) == kind = "service" /\ A /\ UNCHANGED <<kind, testOnly>>
OfTest(A) == kind = "test" /\ A /\ UNCHANGED <<kind, serviceOnly>>

NextApp == OfService(Next) \/ OfTest(Harness!Next)

SafeApp == InitApp /\ [][NextApp]_appVars

\* The fairness of both.
SpecApp ==
  /\ SafeApp
  /\ WF_appVars(OfService(StartStep)) /\ WF_appVars(OfService(TeardownStep))
  /\ WF_appVars(OfService(Expire))
  /\ WF_appVars(OfService(conf.until /\ cancelled /\ BeginShutdown))
  /\ \A s \in Subs : WF_appVars(OfService(LoopStep(s)))
  /\ WF_appVars(OfService(WatcherStep))
  /\ WF_appVars(OfTest(Harness!SettleStep))
  /\ WF_appVars(OfTest(Harness!LoopEnds))
  /\ WF_appVars(OfTest(Harness!TimerStep))
  /\ \A w \in Harness!Crew : WF_appVars(OfTest(w \in Harness!Workers /\ Harness!WorkerStep(w)))

-----------------------------------------------------------------------------
(* Properties of the tests. *)

\* When a publish of a test has returned, nothing of its reaction is left, live as long as no
\* redelivery has come back but those due when it looked: SettledIsStill of the harness.
SettledIsStill == Harness!SettledIsStill

\* Every publish of a test returns: DriveEnds of the harness.
DriveEnds == Harness!DriveEnds

\* Live, every message the test published has been handled when its publish returns:
\* EveryPublishHandled of the harness.
EveryPublishHandled == Harness!EveryPublishHandled
=============================================================================
