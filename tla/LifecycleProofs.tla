-------------------------- MODULE LifecycleProofs --------------------------
(***************************************************************************)
(* What AppLifecycle promises of a start, a shutdown and a teardown the    *)
(* harness runs twice, for every number of brokers, subscriptions, workers *)
(* and continuations; and what a test of a service may rely on when a      *)
(* publish of it returned, from HarnessProofs.                             *)
(***************************************************************************)
EXTENDS MCApp, FiniteSetTheorems, WellFoundedInduction, TLAPS

USE AppAssumption

(* A set of naturals that is not empty has a least element, and a greatest one where it is       *)
(* bounded.                                                                                      *)
LEMMA LeastOfNats ==
  ASSUME NEW S \in SUBSET Nat, S # {}
  PROVE  /\ Min(S) \in S
         /\ \A y \in S : Min(S) <= y
<1> DEFINE R == OpToRel(<, Nat)
<1>1. IsWellFoundedOn(R, Nat)
  BY NatLessThanWellFounded
<1>2. \E x \in S : \A y \in S : ~(<<y, x>> \in R)
  <2> HIDE DEF R
  <2> QED BY <1>1, WFMin
<1>3. \A x, y \in Nat : <<y, x>> \in R <=> y < x
  BY DEF OpToRel
<1>4. PICK x \in S : \A y \in S : ~(<<y, x>> \in R)
  BY <1>2
<1>5. \A y \in S : x <= y
  <2> HIDE DEF R
  <2> SUFFICES ASSUME NEW y \in S PROVE x <= y
    OBVIOUS
  <2>1. x \in Nat /\ y \in Nat
    OBVIOUS
  <2>2. ~(<<y, x>> \in R)
    BY <1>4
  <2>3. ~(y < x)
    BY <1>3, <2>1, <2>2, Zenon
  <2> QED BY <2>1, <2>3
<1> QED BY <1>5 DEF Min

LEMMA GreatestOfNats ==
  ASSUME NEW n \in Nat, NEW S \in SUBSET (0 .. n), S # {}
  PROVE  /\ Max(S) \in S
         /\ \A y \in S : Max(S) >= y
<1> DEFINE T == {n - x : x \in S}
<1>1. T \in SUBSET Nat
  <2>1. \A x \in S : n - x \in Nat
    OBVIOUS
  <2> QED BY <2>1
<1>e. T # {}
  BY ZenonT(30)
<1>2. PICK m \in T : \A y \in T : m <= y
  <2> HIDE DEF T
  <2> QED BY <1>1, <1>e, LeastOfNats
<1>3. PICK x \in S : m = n - x
  OBVIOUS
<1>4. \A y \in S : x >= y
  <2> SUFFICES ASSUME NEW y \in S PROVE x >= y
    OBVIOUS
  <2>1. m <= n - y
    BY <1>2
  <2> QED BY <2>1, <1>3
<1> QED BY <1>4 DEF Max

BrokerStates == {"registered", "connected", "closing", "closed", "cut"}
LoopStates == {"none", "top", "poll", "busy", "closing"} \cup Finished
Before == {"state", "connect", "subscribe", "running"}
Down == {"conts", "close", "report", "ended"}
Stages == Before \cup Down \cup {"on_shutdown", "drain", "abort"}

Typed ==
  /\ conf \in Confs
  /\ stage \in Stages
  /\ broker \in [Brokers -> BrokerStates]
  /\ loop \in [Subs -> LoopStates]
  /\ inHand \in [Subs -> Nat]
  /\ orphans \in [Subs -> Nat]
  /\ told \in SUBSET Subs
  /\ joined \in SUBSET Subs
  /\ conts \in Nat
  /\ failure \in Subs \cup {None}

(* A broker that shutdown has begun to take down. *)
Touched == \E b \in Brokers : broker[b] \in {"closing", "closed", "cut"}

(* Handlers run for loops that run, workers told to end are those of a     *)
(* pool whose loop panicked or was aborted, and the drain has seen the end *)
(* of every loop it counts.                                                *)
HandInv ==
  /\ \A s \in Subs : inHand[s] > 0 => s \in Live
  /\ \A s \in Subs : orphans[s] > 0 => conf.workers > 1 /\ loop[s] \in {"panicked", "aborted"}
  /\ \A s \in joined : loop[s] \in Finished

(* Subscriptions open after the brokers have connected, and nothing is     *)
(* taken down before every loop that was spawned is joined.                *)
OrderInv ==
  /\ stage \in {"state", "connect"} => Spawned = {} /\ conts = 0
  /\ stage \in Before => ~Touched /\ ~stopping /\ joined = {} /\ told = {}
  /\ stage = "state" => Open = {}
  /\ stage \in Down \/ Touched => Unjoined = {}

Left == abandoned \/ \E s \in Subs : conf.workers > 1 /\ loop[s] \in {"panicked", "aborted"}

(* Past the drain of the continuations one is alive only where it was left.*)
ContInv == (stage = "close" \/ Touched) /\ conts > 0 => Left

CloseInv ==
  /\ \A b, c \in Brokers :
       b < c /\ broker[b] \in {"closing", "closed", "cut"} => broker[c] \in {"registered", "closed", "cut"}
  /\ stage \in {"report", "ended"} => Open \cup Closing = {}

(* What a step does to the loops that run and to their count. *)
Counted ==
  \/ Live' = Live /\ active' = active
  \/ \E x \in Subs \ Live : Live' = Live \cup {x} /\ active' = active + 1
  \/ \E x \in Live : Live' = Live \ {x} /\ active' = active - 1

CountInv == active = Cardinality(Live)

(* A panic the drain joined is in its answer, unless the loop had been     *)
(* told to end or the harness gave the teardown up.                        *)
PanicInv ==
  /\ stage = "abort" => Min(Unjoined) \in told
  /\ \A s \in told : loop[s] = "panicked" => s \in unseen
  /\ \A s \in joined :
       loop[s] = "panicked" => drained \/ s \in unseen \/ outcome = "kept_running"
  /\ stage = "report" /\ outcome = "ok" => ~closed /\ ~drained

(* A subscription that failed the service has its failure, or an earlier   *)
(* one, recorded until shutdown takes it; what the watcher saw, and what   *)
(* shutdown answered.                                                      *)
ReportInv ==
  /\ stage \notin {"report", "ended"} /\ failure = None => signalled = {}
  /\ stage = "report" /\ outcome = "ok" => signalled = {}
  /\ ~conf.harness =>
       /\ watcher = "saw" => failure # None \/ (stage \in {"report", "ended"} /\ outcome # "ok")
       /\ stage = "ended" /\ stopping => (health = "Failed" <=> outcome # "ok") \/ failure # None

(* The subscription start opens next is one that has no loop yet. *)
LEMMA NextSub ==
  ASSUME Subs # Spawned
  PROVE  Min(Subs \ Spawned) \in Subs /\ Min(Subs \ Spawned) \notin Spawned
<1>1. Subs \ Spawned \in SUBSET Nat /\ Subs \ Spawned # {}
  <2>1. Cardinality(Subs) \in Nat
    BY FS_CardinalityType
  <2>2. Subs \subseteq Nat
    BY <2>1
  <2> QED BY <2>2 DEF Spawned
<1> QED BY <1>1, LeastOfNats

(* The broker that closes is connected, and none connected comes after it. *)
LEMMA LastOpen ==
  ASSUME Open # {}
  PROVE  /\ Max(Open) \in Open
         /\ \A b \in Open : Max(Open) >= b
<1>1. Cardinality(Brokers) \in Nat
  BY FS_CardinalityType
<1>2. Open \in SUBSET (0 .. Cardinality(Brokers))
  BY <1>1 DEF Open
<1> QED BY <1>1, <1>2, GreatestOfNats

LEMMA StepTypes ==
  ASSUME Typed, [Next]_vars
  PROVE  Typed'
  <1> USE DEF mainVars, loopVars, sigVars, Typed, Stages, Before, Down
  <1>l. \A x \in {"top", "poll", "busy", "closing", "ended", "panicked", "aborted"} : x \in LoopStates
    BY DEF LoopStates, Finished
  <1>b. \A x \in {"connected", "closing", "closed", "cut"} : x \in BrokerStates
    BY DEF BrokerStates
  <1>c. conf.workers \in Nat \ {0}
    OBVIOUS
  <1>1. ASSUME NEW ok \in BOOLEAN, Connect(ok)
        PROVE  Typed'
    BY SMTT(30), <1>l, <1>b, <1>c, <1>1 DEF Connect
  <1>2. ASSUME NEW ok \in BOOLEAN, Subscribe(ok)
        PROVE  Typed'
    <2> DEFINE x == Min(Subs \ Spawned)
    <2>1. loop' = [loop EXCEPT ![x] = "top"] \/ loop' = loop
      BY <1>2 DEF Subscribe
    <2>2. loop' \in [Subs -> LoopStates]
      <3> HIDE DEF x
      <3> QED BY <2>1, <1>l
    <2>3. stage' \in Stages
      BY <1>2 DEF Subscribe, UnwindStarted
    <2> QED BY <1>2, <2>2, <2>3 DEF Subscribe
  <1>3. ASSUME NEW s \in Subs, DrainJoins(s)
        PROVE  Typed'
    BY <1>l, <1>b, <1>c, <1>3 DEF DrainJoins
  <1>4. ASSUME NEW s \in Subs, DrainAborts(s)
        PROVE  Typed'
    BY <1>l, <1>b, <1>c, <1>4 DEF DrainAborts
  <1>5. ASSUME NEW s \in Subs, DrainAwaitsAborted(s)
        PROVE  Typed'
    BY <1>l, <1>b, <1>c, <1>5 DEF DrainAwaitsAborted
  <1>6. CASE CloseBroker
    BY <1>l, <1>b, <1>c, <1>6 DEF CloseBroker
  <1>7. ASSUME NEW ok \in BOOLEAN, BrokerClosed(ok)
        PROVE  Typed'
    <2>1. PICK b \in Closing : broker' = [broker EXCEPT ![b] = "closed"]
      BY <1>7 DEF BrokerClosed
    <2> QED BY <1>b, <2>1, <1>7 DEF BrokerClosed
  <1>8. CASE GiveUp
    BY <1>l, <1>b, <1>c, <1>8 DEF GiveUp
  <1>9. ASSUME NEW s \in Subs, LoopTop(s)
        PROVE  Typed'
    <2>1. \/ loop' = [loop EXCEPT ![s] = "closing"]
          \/ loop' = [loop EXCEPT ![s] = "poll"]
      BY <1>9 DEF LoopTop
    <2>2. loop' \in [Subs -> LoopStates]
      BY <1>l, <2>1
    <2> QED BY <2>2, <1>9 DEF LoopTop
  <1>10. ASSUME NEW s \in Subs, LoopDelivers(s)
         PROVE  Typed'
    BY <1>l, <1>b, <1>c, <1>10 DEF LoopDelivers
  <1>11. ASSUME NEW s \in Subs, StreamEnds(s)
         PROVE  Typed'
    BY <1>l, <1>b, <1>c, <1>11 DEF StreamEnds, Signal
  <1>12. ASSUME NEW s \in Subs, NEW leaves \in BOOLEAN, NEW fails \in BOOLEAN, HandlerReturns(s, leaves, fails)
         PROVE  Typed'
    BY <1>l, <1>b, <1>c, <1>12 DEF HandlerReturns, HandlerLeaves, Signal
  <1>13. ASSUME NEW s \in Subs, LoopEnds(s)
         PROVE  Typed'
    BY <1>l, <1>b, <1>c, <1>13 DEF LoopEnds, LoopGoes
  <1>14. ASSUME NEW s \in Subs, LoopPanics(s)
         PROVE  Typed'
    BY <1>l, <1>b, <1>c, <1>14 DEF LoopPanics, LoopGoes
  <1>15. ASSUME NEW s \in Subs, LoopAborted(s)
         PROVE  Typed'
    BY <1>l, <1>b, <1>c, <1>15 DEF LoopAborted, LoopGoes
  <1>16. ASSUME NEW s \in Subs, NEW leaves \in BOOLEAN, NEW fails \in BOOLEAN, OrphanEnds(s, leaves, fails)
         PROVE  Typed'
    BY <1>l, <1>b, <1>c, <1>16 DEF OrphanEnds, HandlerLeaves, Signal
  <1>17. ASSUME NEW ok \in BOOLEAN,
                ProduceState(ok) \/ AfterStartup(ok)
         PROVE  Typed'
    BY <1>l, <1>b, <1>c, <1>17 DEF ProduceState, AfterStartup, UnwindStarted
  <1>18. ASSUME NEW s \in Subs,
                LoopStops(s) \/ LoopGivesUp(s)
         PROVE  Typed'
    <2>1. CASE LoopStops(s)
      BY <1>l, <1>b, <1>c, <2>1 DEF LoopStops
    <2>2. CASE LoopGivesUp(s)
      BY <1>l, <1>b, <1>c, <2>2 DEF LoopGivesUp
    <2> QED BY <1>18, <2>1, <2>2
  <1>19. CASE \/ ConnectedAll \/ BeginShutdown \/ OnShutdown \/ Expire \/ DrainEnds
              \/ DrainContinuations \/ UnwindEnds \/ AfterShutdown \/ ReportTerminal
              \/ ContinuationEnds \/ WatcherPeeks \/ WatcherReports \/ Done \/ UNCHANGED vars
    BY <1>l, <1>b, <1>c, <1>19 DEF ConnectedAll, BeginShutdown, OnShutdown, Expire, DrainEnds,
       DrainContinuations, UnwindEnds, AfterShutdown, ReportTerminal, ContinuationEnds,
       WatcherPeeks, WatcherReports, Done, Transition, vars
  <1> QED
    BY SMTT(30), <1>1, <1>2, <1>3, <1>4, <1>5, <1>6, <1>7, <1>8, <1>9, <1>10, <1>11, <1>12,
       <1>13, <1>14, <1>15, <1>16, <1>17, <1>18, <1>19 DEF Next, StartStep, TeardownStep, LoopStep,
       HandlerStep, WatcherStep

LEMMA StepHand ==
  ASSUME Typed, HandInv, [Next]_vars
  PROVE  HandInv'
  <1> USE DEF mainVars, loopVars, sigVars, HandInv, Live, Spawned, Finished
  <1>t. /\ loop \in [Subs -> LoopStates] /\ inHand \in [Subs -> Nat] /\ orphans \in [Subs -> Nat]
        /\ joined \in SUBSET Subs /\ conf.workers \in Nat \ {0}
    BY DEF Typed
  <1>n. 0 \in Nat /\ ~(0 > 0)
    OBVIOUS
  <1>1. ASSUME NEW ok \in BOOLEAN, Subscribe(ok)
        PROVE  HandInv'
    <2> DEFINE x == Min(Subs \ Spawned)
    <2>1. x \in Subs /\ loop[x] = "none"
      BY NextSub, <1>1 DEF Subscribe
    <2>2. loop' = [loop EXCEPT ![x] = "top"] \/ loop' = loop
      BY <1>1 DEF Subscribe
    <2>3. UNCHANGED <<conf, inHand, orphans, joined>>
      BY <1>1 DEF Subscribe
    <2> QED
      <3> HIDE DEF x
      <3> QED BY <1>t, <2>1, <2>2, <2>3
  <1>2. ASSUME NEW s \in Subs, DrainJoins(s)
        PROVE  HandInv'
    BY <1>t, <1>2 DEF DrainJoins
  <1>3. ASSUME NEW s \in Subs, DrainAwaitsAborted(s)
        PROVE  HandInv'
    BY <1>t, <1>3 DEF DrainAwaitsAborted
  <1>4. ASSUME NEW s \in Subs, LoopTop(s)
        PROVE  HandInv'
    BY <1>t, <1>4 DEF LoopTop
  <1>5. ASSUME NEW s \in Subs, LoopDelivers(s)
        PROVE  HandInv'
    BY <1>t, <1>5 DEF LoopDelivers
  <1>6. ASSUME NEW s \in Subs, LoopStops(s)
        PROVE  HandInv'
    BY <1>t, <1>6 DEF LoopStops
  <1>7. ASSUME NEW s \in Subs, StreamEnds(s)
        PROVE  HandInv'
    BY <1>t, <1>7 DEF StreamEnds, Signal
  <1>8. ASSUME NEW s \in Subs, LoopGivesUp(s)
        PROVE  HandInv'
    BY <1>t, <1>8 DEF LoopGivesUp
  <1>9. ASSUME NEW s \in Subs, NEW leaves \in BOOLEAN, NEW fails \in BOOLEAN, HandlerReturns(s, leaves, fails)
        PROVE  HandInv'
    BY <1>t, <1>9 DEF HandlerReturns, HandlerLeaves, Signal
  <1>10. ASSUME NEW s \in Subs, LoopEnds(s)
         PROVE  HandInv'
    BY <1>t, <1>10 DEF LoopEnds, LoopGoes
  <1>11. ASSUME NEW s \in Subs, LoopPanics(s)
         PROVE  HandInv'
    BY SMTT(30), <1>t, <1>11 DEF LoopPanics, LoopGoes
  <1>12. ASSUME NEW s \in Subs, LoopAborted(s)
         PROVE  HandInv'
    BY SMTT(30), <1>t, <1>12 DEF LoopAborted, LoopGoes
  <1>13. ASSUME NEW s \in Subs, NEW leaves \in BOOLEAN, NEW fails \in BOOLEAN, OrphanEnds(s, leaves, fails)
         PROVE  HandInv'
    BY <1>t, <1>13 DEF OrphanEnds, HandlerLeaves, Signal
  <1>14. ASSUME NEW ok \in BOOLEAN,
                ProduceState(ok) \/ Connect(ok) \/ AfterStartup(ok) \/
                BrokerClosed(ok)
         PROVE  HandInv'
    BY <1>14 DEF ProduceState, Connect, AfterStartup, BrokerClosed, UnwindStarted
  <1>15. ASSUME NEW s \in Subs,
                DrainAborts(s)
         PROVE  HandInv'
    BY <1>15 DEF DrainAborts
  <1>16. CASE \/ ConnectedAll \/ BeginShutdown \/ OnShutdown \/ Expire \/ DrainEnds
              \/ DrainContinuations \/ CloseBroker \/ UnwindEnds \/ AfterShutdown
              \/ ReportTerminal \/ GiveUp \/ ContinuationEnds \/ WatcherPeeks \/ WatcherReports
              \/ Done \/ UNCHANGED vars
    BY <1>16 DEF ConnectedAll, BeginShutdown, OnShutdown, Expire, DrainEnds, DrainContinuations,
       CloseBroker, UnwindEnds, AfterShutdown, ReportTerminal, GiveUp, ContinuationEnds,
       WatcherPeeks, WatcherReports, Done, Transition, vars
  <1> QED
    BY <1>1, <1>2, <1>3, <1>4, <1>5, <1>6, <1>7, <1>8, <1>9, <1>10, <1>11, <1>12, <1>13, <1>14,
       <1>15, <1>16 DEF Next, StartStep, TeardownStep, LoopStep, HandlerStep, WatcherStep

LEMMA StepOrder ==
  ASSUME Typed, HandInv, OrderInv, [Next]_vars
  PROVE  OrderInv'
  <1> USE DEF mainVars, loopVars, sigVars, OrderInv, Before, Down
  <1>t. /\ loop \in [Subs -> LoopStates] /\ broker \in [Brokers -> BrokerStates] /\ conts \in Nat
    BY DEF Typed
  <1>1. ASSUME NEW ok \in BOOLEAN, ProduceState(ok)
        PROVE  OrderInv'
    BY <1>t, <1>1 DEF ProduceState, Touched, Open, Spawned, Unjoined
  <1>2. ASSUME NEW ok \in BOOLEAN, Connect(ok)
        PROVE  OrderInv'
    BY <1>t, <1>2 DEF Connect, Touched, Open, Spawned, Unjoined
  <1>3. CASE ConnectedAll
    BY <1>t, <1>3 DEF ConnectedAll, Touched, Open, Spawned, Unjoined
  <1>4. ASSUME NEW ok \in BOOLEAN, Subscribe(ok)
        PROVE  OrderInv'
    BY <1>t, <1>4 DEF Subscribe, UnwindStarted, Touched, Open, Spawned, Unjoined
  <1>5. ASSUME NEW ok \in BOOLEAN, AfterStartup(ok)
        PROVE  OrderInv'
    BY <1>t, <1>5 DEF AfterStartup, UnwindStarted, Touched, Open, Spawned, Unjoined
  <1>6. CASE BeginShutdown
    BY <1>t, <1>6 DEF BeginShutdown, Transition, Touched, Open, Spawned, Unjoined
  <1>7. CASE OnShutdown
    BY <1>t, <1>7 DEF OnShutdown, Touched, Open, Spawned, Unjoined
  <1>8. ASSUME NEW s \in Subs, DrainJoins(s)
        PROVE  OrderInv'
    BY <1>t, <1>8 DEF DrainJoins, Touched, Open, Spawned, Unjoined
  <1>9. ASSUME NEW s \in Subs, DrainAborts(s)
        PROVE  OrderInv'
    BY <1>t, <1>9 DEF DrainAborts, Touched, Open, Spawned, Unjoined
  <1>10. ASSUME NEW s \in Subs, DrainAwaitsAborted(s)
         PROVE  OrderInv'
    BY <1>t, <1>10 DEF DrainAwaitsAborted, Touched, Open, Spawned, Unjoined
  <1>11. CASE DrainEnds
    BY <1>t, <1>11 DEF DrainEnds, Touched, Open, Spawned, Unjoined
  <1>12. CASE DrainContinuations
    BY <1>t, <1>12 DEF DrainContinuations, Touched, Open, Spawned, Unjoined
  <1>13. CASE CloseBroker
    BY <1>t, <1>13 DEF CloseBroker, Touched, Open, Spawned, Unjoined
  <1>14. ASSUME NEW ok \in BOOLEAN, BrokerClosed(ok)
         PROVE  OrderInv'
    BY <1>t, <1>14 DEF BrokerClosed, Touched, Open, Spawned, Unjoined
  <1>15. CASE UnwindEnds
    BY <1>t, <1>15 DEF UnwindEnds, Touched, Open, Spawned, Unjoined
  <1>16. CASE AfterShutdown
    BY <1>t, <1>16 DEF AfterShutdown, Touched, Open, Spawned, Unjoined
  <1>17. CASE ReportTerminal
    BY <1>t, <1>17 DEF ReportTerminal, Transition, Touched, Open, Spawned, Unjoined
  <1>18. CASE GiveUp
    <2>1. Touched' => Touched
      BY <1>t, <1>18 DEF GiveUp, Touched, Closing
    <2>2. Unjoined' = Unjoined /\ stage' = "on_shutdown"
      BY <1>18 DEF GiveUp, Unjoined, Spawned
    <2> QED BY <2>1, <2>2
  <1>19. ASSUME NEW s \in Subs, LoopTop(s)
         PROVE  OrderInv'
    BY <1>t, <1>19 DEF LoopTop, Touched, Open, Spawned, Unjoined
  <1>20. ASSUME NEW s \in Subs, LoopDelivers(s)
         PROVE  OrderInv'
    BY <1>t, <1>20 DEF LoopDelivers, Touched, Open, Spawned, Unjoined
  <1>21. ASSUME NEW s \in Subs, LoopStops(s)
         PROVE  OrderInv'
    BY <1>t, <1>21 DEF LoopStops, Touched, Open, Spawned, Unjoined
  <1>22. ASSUME NEW s \in Subs, StreamEnds(s)
         PROVE  OrderInv'
    BY <1>t, <1>22 DEF StreamEnds, Signal, Touched, Open, Spawned, Unjoined
  <1>23. ASSUME NEW s \in Subs, LoopGivesUp(s)
         PROVE  OrderInv'
    BY <1>t, <1>23 DEF LoopGivesUp, Touched, Open, Spawned, Unjoined
  <1>24. ASSUME NEW s \in Subs, NEW leaves \in BOOLEAN, NEW fails \in BOOLEAN, HandlerReturns(s, leaves, fails)
         PROVE  OrderInv'
    BY <1>t, <1>24 DEF HandlerReturns, HandlerLeaves, Signal, Touched, Open, Spawned, Unjoined,
       HandInv, Live
  <1>25. ASSUME NEW s \in Subs, LoopEnds(s)
         PROVE  OrderInv'
    BY <1>t, <1>25 DEF LoopEnds, LoopGoes, Touched, Open, Spawned, Unjoined
  <1>26. ASSUME NEW s \in Subs, LoopPanics(s)
         PROVE  OrderInv'
    BY <1>t, <1>26 DEF LoopPanics, LoopGoes, Touched, Open, Spawned, Unjoined
  <1>27. ASSUME NEW s \in Subs, LoopAborted(s)
         PROVE  OrderInv'
    BY <1>t, <1>27 DEF LoopAborted, LoopGoes, Touched, Open, Spawned, Unjoined, HandInv, Live
  <1>28. ASSUME NEW s \in Subs, NEW leaves \in BOOLEAN, NEW fails \in BOOLEAN, OrphanEnds(s, leaves, fails)
         PROVE  OrderInv'
    BY <1>t, <1>28 DEF OrphanEnds, HandlerLeaves, Signal, Touched, Open, Spawned, Unjoined,
       HandInv, Live
  <1>29. CASE ContinuationEnds
    BY <1>t, <1>29 DEF ContinuationEnds, Touched, Open, Spawned, Unjoined
  <1>30. CASE \/ Expire \/ WatcherPeeks \/ WatcherReports \/ Done \/ UNCHANGED vars
    BY <1>t, <1>30 DEF Expire, WatcherPeeks, WatcherReports, Done, vars, Touched, Open, Spawned,
       Unjoined
  <1> QED
    BY <1>1, <1>2, <1>3, <1>4, <1>5, <1>6, <1>7, <1>8, <1>9, <1>10, <1>11, <1>12, <1>13, <1>14,
       <1>15, <1>16, <1>17, <1>18, <1>19, <1>20, <1>21, <1>22, <1>23, <1>24, <1>25, <1>26,
       <1>27, <1>28, <1>29, <1>30 DEF Next, StartStep, TeardownStep, LoopStep, HandlerStep,
       WatcherStep

LEMMA StepConts ==
  ASSUME Typed, HandInv, OrderInv, ContInv, [Next]_vars
  PROVE  ContInv'
  <1> USE DEF mainVars, loopVars, sigVars, ContInv, Touched, Left
  <1>t. /\ loop \in [Subs -> LoopStates] /\ broker \in [Brokers -> BrokerStates] /\ conts \in Nat
        /\ inHand \in [Subs -> Nat] /\ orphans \in [Subs -> Nat]
    BY DEF Typed
  <1>1. ASSUME NEW ok \in BOOLEAN, ProduceState(ok)
        PROVE  ContInv'
    BY <1>t, <1>1 DEF ProduceState
  <1>2. ASSUME NEW ok \in BOOLEAN, Connect(ok)
        PROVE  ContInv'
    BY <1>t, <1>2 DEF Connect, OrderInv
  <1>3. CASE ConnectedAll
    BY <1>t, <1>3 DEF ConnectedAll
  <1>4. ASSUME NEW ok \in BOOLEAN, Subscribe(ok)
        PROVE  ContInv'
    BY <1>t, <1>4 DEF Subscribe, UnwindStarted, OrderInv, Before
  <1>5. ASSUME NEW ok \in BOOLEAN, AfterStartup(ok)
        PROVE  ContInv'
    BY <1>t, <1>5 DEF AfterStartup, UnwindStarted
  <1>6. CASE BeginShutdown
    BY <1>t, <1>6 DEF BeginShutdown, Transition
  <1>7. CASE OnShutdown
    BY <1>t, <1>7 DEF OnShutdown
  <1>8. ASSUME NEW s \in Subs, DrainJoins(s)
        PROVE  ContInv'
    BY <1>t, <1>8 DEF DrainJoins
  <1>9. ASSUME NEW s \in Subs, DrainAborts(s)
        PROVE  ContInv'
    BY <1>t, <1>9 DEF DrainAborts
  <1>10. ASSUME NEW s \in Subs, DrainAwaitsAborted(s)
         PROVE  ContInv'
    BY <1>t, <1>10 DEF DrainAwaitsAborted
  <1>11. CASE DrainEnds
    BY <1>t, <1>11 DEF DrainEnds
  <1>12. CASE DrainContinuations
    BY <1>t, <1>12 DEF DrainContinuations
  <1>13. CASE CloseBroker
    BY <1>t, <1>13 DEF CloseBroker
  <1>14. ASSUME NEW ok \in BOOLEAN, BrokerClosed(ok)
         PROVE  ContInv'
    BY <1>t, <1>14 DEF BrokerClosed
  <1>15. CASE UnwindEnds
    BY <1>t, <1>15 DEF UnwindEnds
  <1>16. CASE AfterShutdown
    BY <1>t, <1>16 DEF AfterShutdown
  <1>17. CASE ReportTerminal
    BY <1>t, <1>17 DEF ReportTerminal, Transition
  <1>18. CASE GiveUp
    BY <1>t, <1>18 DEF GiveUp, Closing
  <1>19. ASSUME NEW s \in Subs, LoopTop(s)
         PROVE  ContInv'
    BY <1>t, <1>19 DEF LoopTop
  <1>20. ASSUME NEW s \in Subs, LoopDelivers(s)
         PROVE  ContInv'
    BY <1>t, <1>20 DEF LoopDelivers
  <1>21. ASSUME NEW s \in Subs, LoopStops(s)
         PROVE  ContInv'
    BY <1>t, <1>21 DEF LoopStops
  <1>22. ASSUME NEW s \in Subs, StreamEnds(s)
         PROVE  ContInv'
    BY <1>t, <1>22 DEF StreamEnds, Signal
  <1>23. ASSUME NEW s \in Subs, LoopGivesUp(s)
         PROVE  ContInv'
    BY <1>t, <1>23 DEF LoopGivesUp
  <1>24. ASSUME NEW s \in Subs, NEW leaves \in BOOLEAN, NEW fails \in BOOLEAN, HandlerReturns(s, leaves, fails)
         PROVE  ContInv'
    BY <1>t, <1>24 DEF HandlerReturns, HandlerLeaves, Signal, HandInv, OrderInv, Down, Unjoined,
       Live
  <1>25. ASSUME NEW s \in Subs, LoopEnds(s)
         PROVE  ContInv'
    BY <1>t, <1>25 DEF LoopEnds, LoopGoes
  <1>26. ASSUME NEW s \in Subs, LoopPanics(s)
         PROVE  ContInv'
    BY <1>t, <1>26 DEF LoopPanics, LoopGoes
  <1>27. ASSUME NEW s \in Subs, LoopAborted(s)
         PROVE  ContInv'
    BY <1>t, <1>27 DEF LoopAborted, LoopGoes, Live
  <1>28. ASSUME NEW s \in Subs, NEW leaves \in BOOLEAN, NEW fails \in BOOLEAN, OrphanEnds(s, leaves, fails)
         PROVE  ContInv'
    BY <1>t, <1>28 DEF OrphanEnds, HandlerLeaves, Signal, HandInv
  <1>29. CASE ContinuationEnds
    BY <1>t, <1>29 DEF ContinuationEnds
  <1>30. CASE \/ Expire \/ WatcherPeeks \/ WatcherReports \/ Done \/ UNCHANGED vars
    BY <1>t, <1>30 DEF Expire, WatcherPeeks, WatcherReports, Done, vars
  <1> QED
    BY <1>1, <1>2, <1>3, <1>4, <1>5, <1>6, <1>7, <1>8, <1>9, <1>10, <1>11, <1>12, <1>13, <1>14,
       <1>15, <1>16, <1>17, <1>18, <1>19, <1>20, <1>21, <1>22, <1>23, <1>24, <1>25, <1>26,
       <1>27, <1>28, <1>29, <1>30 DEF Next, StartStep, TeardownStep, LoopStep, HandlerStep,
       WatcherStep

LEMMA StepClose ==
  ASSUME Typed, OrderInv, CloseInv, [Next]_vars
  PROVE  CloseInv'
  <1> USE DEF mainVars, loopVars, sigVars, CloseInv
  <1>t. broker \in [Brokers -> BrokerStates]
    BY DEF Typed
  <1>i. Brokers \subseteq Int
    BY FS_CardinalityType
  <1>1. ASSUME NEW ok \in BOOLEAN, ProduceState(ok)
        PROVE  CloseInv'
    BY <1>t, <1>i, <1>1 DEF ProduceState, OrderInv, Before, Touched, Open, Closing
  <1>2. ASSUME NEW ok \in BOOLEAN, Connect(ok)
        PROVE  CloseInv'
    BY <1>t, <1>i, <1>2 DEF Connect, OrderInv, Before, Touched, Open, Closing
  <1>3. CASE CloseBroker
    <2> DEFINE x == Max(Open)
    <2>1. x \in Open /\ \A b \in Open : x >= b
      BY LastOpen, <1>3 DEF CloseBroker
    <2>2. broker' = [broker EXCEPT ![x] = "closing"] /\ Closing = {} /\ stage' = "close"
      BY <1>3 DEF CloseBroker
    <2>3. \A c \in Brokers : c > x => broker[c] \in {"registered", "closed", "cut"}
      <3> HIDE DEF x
      <3> QED BY <1>t, <1>i, <2>1, <2>2 DEF Open, Closing, BrokerStates
    <2>4. \A b \in Brokers : b < x => broker[b] \notin {"closing", "closed", "cut"}
      <3> HIDE DEF x
      <3> QED BY <2>1 DEF Open
    <2> QED
      <3> HIDE DEF x
      <3> QED BY <1>t, <1>i, <2>1, <2>2, <2>3, <2>4 DEF Open
  <1>4. ASSUME NEW ok \in BOOLEAN, BrokerClosed(ok)
        PROVE  CloseInv'
    BY <1>t, <1>i, <1>4 DEF BrokerClosed, Closing
  <1>5. CASE UnwindEnds
    BY <1>t, <1>i, <1>5 DEF UnwindEnds, Open, Closing
  <1>6. CASE AfterShutdown
    BY <1>t, <1>i, <1>6 DEF AfterShutdown, Open, Closing
  <1>7. CASE ReportTerminal
    BY <1>t, <1>i, <1>7 DEF ReportTerminal, Transition, Open, Closing
  <1>8. CASE GiveUp
    BY <1>t, <1>i, <1>8 DEF GiveUp, Closing
  <1>9. ASSUME NEW ok \in BOOLEAN,
               Subscribe(ok) \/ AfterStartup(ok)
        PROVE  CloseInv'
    BY <1>9 DEF Subscribe, AfterStartup, UnwindStarted, Open, Closing
  <1>10. ASSUME NEW s \in Subs,
                DrainJoins(s) \/ DrainAborts(s) \/ DrainAwaitsAborted(s) \/
                LoopTop(s) \/ LoopDelivers(s) \/ LoopStops(s) \/ StreamEnds(s)
                \/ LoopGivesUp(s) \/ LoopEnds(s) \/ LoopPanics(s) \/
                LoopAborted(s)
         PROVE  CloseInv'
    BY <1>10 DEF DrainJoins, DrainAborts, DrainAwaitsAborted, LoopTop, LoopDelivers, LoopStops,
       StreamEnds, LoopGivesUp, LoopEnds, LoopPanics, LoopAborted, Signal, LoopGoes, Open,
       Closing
  <1>11. ASSUME NEW s \in Subs, NEW leaves \in BOOLEAN, NEW fails \in BOOLEAN,
                HandlerReturns(s, leaves, fails) \/ OrphanEnds(s, leaves, fails)
         PROVE  CloseInv'
    BY <1>11 DEF HandlerReturns, OrphanEnds, HandlerLeaves, Signal, Open, Closing
  <1>12. CASE \/ ConnectedAll \/ BeginShutdown \/ OnShutdown \/ Expire \/ DrainEnds
              \/ DrainContinuations \/ ContinuationEnds \/ WatcherPeeks \/ WatcherReports \/ Done
              \/ UNCHANGED vars
    BY <1>12 DEF ConnectedAll, BeginShutdown, OnShutdown, Expire, DrainEnds, DrainContinuations,
       ContinuationEnds, WatcherPeeks, WatcherReports, Done, Transition, vars, Open, Closing
  <1> QED
    BY <1>1, <1>2, <1>3, <1>4, <1>5, <1>6, <1>7, <1>8, <1>9, <1>10, <1>11, <1>12 DEF Next,
       StartStep, TeardownStep, LoopStep, HandlerStep, WatcherStep

LEMMA StepLive ==
  ASSUME Typed, HandInv, [Next]_vars
  PROVE  Counted
  <1> USE DEF mainVars, loopVars, sigVars, Live, Spawned, Finished, Counted
  <1>t. /\ loop \in [Subs -> LoopStates] /\ inHand \in [Subs -> Nat] /\ orphans \in [Subs -> Nat]
    BY DEF Typed
  <1>1. ASSUME NEW ok \in BOOLEAN, Subscribe(ok)
        PROVE  Counted
    <2> DEFINE x == Min(Subs \ Spawned)
    <2>1. x \in Subs /\ loop[x] = "none"
      BY NextSub, <1>1 DEF Subscribe
    <2>2. \/ loop' = [loop EXCEPT ![x] = "top"] /\ active' = active + 1
          \/ loop' = loop /\ active' = active
      BY <1>1 DEF Subscribe
    <2> QED
      <3> HIDE DEF x
      <3> QED BY <1>t, <2>1, <2>2
  <1>2. ASSUME NEW s \in Subs, LoopTop(s)
        PROVE  Counted
    BY <1>t, <1>2 DEF LoopTop
  <1>3. ASSUME NEW s \in Subs, LoopDelivers(s)
        PROVE  Counted
    BY <1>t, <1>3 DEF LoopDelivers
  <1>4. ASSUME NEW s \in Subs, LoopStops(s)
        PROVE  Counted
    BY <1>t, <1>4 DEF LoopStops
  <1>5. ASSUME NEW s \in Subs, StreamEnds(s)
        PROVE  Counted
    BY <1>t, <1>5 DEF StreamEnds, Signal
  <1>6. ASSUME NEW s \in Subs, LoopGivesUp(s)
        PROVE  Counted
    BY <1>t, <1>6 DEF LoopGivesUp
  <1>7. ASSUME NEW s \in Subs, NEW leaves \in BOOLEAN, NEW fails \in BOOLEAN, HandlerReturns(s, leaves, fails)
        PROVE  Counted
    BY <1>t, <1>7 DEF HandlerReturns, HandlerLeaves, Signal, HandInv
  <1>8. ASSUME NEW s \in Subs, LoopEnds(s)
        PROVE  Counted
    BY <1>t, <1>8 DEF LoopEnds, LoopGoes
  <1>9. ASSUME NEW s \in Subs, LoopPanics(s)
        PROVE  Counted
    BY <1>t, <1>9 DEF LoopPanics, LoopGoes
  <1>10. ASSUME NEW s \in Subs, LoopAborted(s)
         PROVE  Counted
    BY <1>t, <1>10 DEF LoopAborted, LoopGoes
  <1>11. ASSUME NEW ok \in BOOLEAN,
                ProduceState(ok) \/ Connect(ok) \/ AfterStartup(ok) \/
                BrokerClosed(ok)
         PROVE  Counted
    BY <1>11 DEF ProduceState, Connect, AfterStartup, BrokerClosed, UnwindStarted
  <1>12. ASSUME NEW s \in Subs,
                DrainJoins(s) \/ DrainAborts(s) \/ DrainAwaitsAborted(s)
         PROVE  Counted
    BY <1>12 DEF DrainJoins, DrainAborts, DrainAwaitsAborted
  <1>13. ASSUME NEW s \in Subs, NEW leaves \in BOOLEAN, NEW fails \in BOOLEAN,
                OrphanEnds(s, leaves, fails)
         PROVE  Counted
    BY <1>13 DEF OrphanEnds, HandlerLeaves, Signal
  <1>14. CASE \/ ConnectedAll \/ BeginShutdown \/ OnShutdown \/ Expire \/ DrainEnds
              \/ DrainContinuations \/ CloseBroker \/ UnwindEnds \/ AfterShutdown
              \/ ReportTerminal \/ GiveUp \/ ContinuationEnds \/ WatcherPeeks \/ WatcherReports
              \/ Done \/ UNCHANGED vars
    BY <1>14 DEF ConnectedAll, BeginShutdown, OnShutdown, Expire, DrainEnds, DrainContinuations,
       CloseBroker, UnwindEnds, AfterShutdown, ReportTerminal, GiveUp, ContinuationEnds,
       WatcherPeeks, WatcherReports, Done, Transition, vars
  <1> QED
    BY <1>1, <1>2, <1>3, <1>4, <1>5, <1>6, <1>7, <1>8, <1>9, <1>10, <1>11, <1>12, <1>13, <1>14
       DEF Next, StartStep, TeardownStep, LoopStep, HandlerStep, WatcherStep

LEMMA StepCount ==
  ASSUME Typed, HandInv, CountInv, [Next]_vars
  PROVE  CountInv'
<1>1. IsFiniteSet(Live) /\ Live \subseteq Subs
  BY FS_Subset DEF Live, Spawned
<1>2. Cardinality(Live) \in Nat
  BY <1>1, FS_CardinalityType
<1>3. \A x : /\ x \notin Live => Cardinality(Live \cup {x}) = Cardinality(Live) + 1
             /\ x \in Live => Cardinality(Live \ {x}) = Cardinality(Live) - 1
  BY <1>1, FS_AddElement, FS_RemoveElement
<1>4. Counted
  BY StepLive
<1> QED BY <1>2, <1>3, <1>4 DEF Counted, CountInv

LEMMA StepPanic ==
  ASSUME Typed, HandInv, OrderInv, PanicInv, [Next]_vars
  PROVE  PanicInv'
  <1> USE DEF mainVars, loopVars, sigVars, PanicInv, Unjoined
  <1>t. /\ loop \in [Subs -> LoopStates] /\ told \in SUBSET Subs /\ joined \in SUBSET Subs
    BY DEF Typed
  <1>h. \A s \in joined : loop[s] \in Finished
    BY DEF HandInv
  <1>1. ASSUME NEW ok \in BOOLEAN, ProduceState(ok)
        PROVE  PanicInv'
    BY <1>t, <1>h, <1>1 DEF ProduceState, Spawned, Finished, OrderInv, Before
  <1>2. ASSUME NEW ok \in BOOLEAN, Connect(ok)
        PROVE  PanicInv'
    BY <1>t, <1>h, <1>2 DEF Connect, Spawned, Finished, OrderInv, Before
  <1>3. CASE ConnectedAll
    BY <1>t, <1>h, <1>3 DEF ConnectedAll, Spawned, Finished
  <1>4. ASSUME NEW ok \in BOOLEAN, Subscribe(ok)
        PROVE  PanicInv'
    BY <1>t, <1>h, <1>4 DEF Subscribe, UnwindStarted, Spawned, Finished, OrderInv, Before
  <1>5. ASSUME NEW ok \in BOOLEAN, AfterStartup(ok)
        PROVE  PanicInv'
    BY <1>t, <1>h, <1>5 DEF AfterStartup, UnwindStarted, Spawned, Finished, OrderInv, Before
  <1>6. CASE BeginShutdown
    BY <1>t, <1>h, <1>6 DEF BeginShutdown, Transition, Spawned, Finished
  <1>7. CASE OnShutdown
    BY <1>t, <1>h, <1>7 DEF OnShutdown, Spawned, Finished
  <1>8. CASE Expire
    BY <1>t, <1>h, <1>8 DEF Expire, Spawned, Finished
  <1>9. ASSUME NEW s \in Subs, DrainJoins(s)
        PROVE  PanicInv'
    BY <1>t, <1>h, <1>9 DEF DrainJoins, Spawned, Finished
  <1>10. ASSUME NEW s \in Subs, DrainAborts(s)
         PROVE  PanicInv'
    BY <1>t, <1>h, <1>10 DEF DrainAborts, Spawned, Finished
  <1>11. ASSUME NEW s \in Subs, DrainAwaitsAborted(s)
         PROVE  PanicInv'
    BY <1>t, <1>h, <1>11 DEF DrainAwaitsAborted, Spawned, Finished
  <1>12. CASE DrainEnds
    BY <1>t, <1>h, <1>12 DEF DrainEnds, Spawned, Finished
  <1>13. CASE DrainContinuations
    BY <1>t, <1>h, <1>13 DEF DrainContinuations, Spawned, Finished
  <1>14. CASE CloseBroker
    BY <1>t, <1>h, <1>14 DEF CloseBroker, Spawned, Finished
  <1>15. ASSUME NEW ok \in BOOLEAN, BrokerClosed(ok)
         PROVE  PanicInv'
    BY <1>t, <1>h, <1>15 DEF BrokerClosed, Spawned, Finished
  <1>16. CASE UnwindEnds
    BY <1>t, <1>h, <1>16 DEF UnwindEnds, Spawned, Finished
  <1>17. CASE AfterShutdown
    BY <1>t, <1>h, <1>17 DEF AfterShutdown, Spawned, Finished, Result
  <1>18. CASE ReportTerminal
    BY <1>t, <1>h, <1>18 DEF ReportTerminal, Transition, Spawned, Finished
  <1>19. CASE GiveUp
    BY <1>t, <1>h, <1>19 DEF GiveUp, Spawned, Finished
  <1>20. ASSUME NEW s \in Subs, LoopTop(s)
         PROVE  PanicInv'
    BY <1>t, <1>h, <1>20 DEF LoopTop, Spawned, Finished
  <1>21. ASSUME NEW s \in Subs, LoopDelivers(s)
         PROVE  PanicInv'
    BY <1>t, <1>h, <1>21 DEF LoopDelivers, Spawned, Finished
  <1>22. ASSUME NEW s \in Subs, LoopStops(s)
         PROVE  PanicInv'
    BY <1>t, <1>h, <1>22 DEF LoopStops, Spawned, Finished
  <1>23. ASSUME NEW s \in Subs, StreamEnds(s)
         PROVE  PanicInv'
    BY <1>t, <1>h, <1>23 DEF StreamEnds, Signal, Spawned, Finished
  <1>24. ASSUME NEW s \in Subs, LoopGivesUp(s)
         PROVE  PanicInv'
    BY <1>t, <1>h, <1>24 DEF LoopGivesUp, Spawned, Finished
  <1>25. ASSUME NEW s \in Subs, NEW leaves \in BOOLEAN, NEW fails \in BOOLEAN, HandlerReturns(s, leaves, fails)
         PROVE  PanicInv'
    BY <1>t, <1>h, <1>25 DEF HandlerReturns, HandlerLeaves, Signal, Spawned, Finished
  <1>26. ASSUME NEW s \in Subs, LoopEnds(s)
         PROVE  PanicInv'
    BY <1>t, <1>h, <1>26 DEF LoopEnds, LoopGoes, Spawned, Finished
  <1>27. ASSUME NEW s \in Subs, LoopPanics(s)
         PROVE  PanicInv'
    BY <1>t, <1>h, <1>27 DEF LoopPanics, LoopGoes, Spawned, Finished
  <1>28. ASSUME NEW s \in Subs, LoopAborted(s)
         PROVE  PanicInv'
    BY <1>t, <1>h, <1>28 DEF LoopAborted, LoopGoes, Spawned, Finished, Live
  <1>29. ASSUME NEW s \in Subs, NEW leaves \in BOOLEAN, NEW fails \in BOOLEAN, OrphanEnds(s, leaves, fails)
         PROVE  PanicInv'
    BY <1>t, <1>h, <1>29 DEF OrphanEnds, HandlerLeaves, Signal, Spawned, Finished
  <1>30. CASE ContinuationEnds
    BY <1>t, <1>h, <1>30 DEF ContinuationEnds, Spawned, Finished
  <1>31. CASE WatcherPeeks
    BY <1>t, <1>h, <1>31 DEF WatcherPeeks, Spawned, Finished
  <1>32. CASE WatcherReports
    BY <1>t, <1>h, <1>32 DEF WatcherReports, Spawned, Finished
  <1>33. CASE \/ Done \/ UNCHANGED vars
    <2>1. UNCHANGED <<stage, loop, told, joined, outcome, drained, closed, unseen>>
      BY <1>33 DEF Done, vars
    <2>2. Unjoined' = Unjoined
      BY <2>1 DEF Spawned
    <2> QED BY <2>1, <2>2
  <1> QED
    BY <1>1, <1>2, <1>3, <1>4, <1>5, <1>6, <1>7, <1>8, <1>9, <1>10, <1>11, <1>12, <1>13, <1>14,
       <1>15, <1>16, <1>17, <1>18, <1>19, <1>20, <1>21, <1>22, <1>23, <1>24, <1>25, <1>26,
       <1>27, <1>28, <1>29, <1>30, <1>31, <1>32, <1>33 DEF Next, StartStep, TeardownStep,
       LoopStep, HandlerStep, WatcherStep

LEMMA StepReport ==
  ASSUME Typed, OrderInv, ReportInv, [Next]_vars
  PROVE  ReportInv'
  <1> USE DEF mainVars, loopVars, sigVars, ReportInv
  <1>1. ASSUME NEW ok \in BOOLEAN, ProduceState(ok)
        PROVE  ReportInv'
    BY <1>1 DEF ProduceState, OrderInv, Before
  <1>2. ASSUME NEW ok \in BOOLEAN, Connect(ok)
        PROVE  ReportInv'
    BY <1>2 DEF Connect
  <1>3. CASE ConnectedAll
    BY <1>3 DEF ConnectedAll
  <1>4. ASSUME NEW ok \in BOOLEAN, Subscribe(ok)
        PROVE  ReportInv'
    BY <1>4 DEF Subscribe, UnwindStarted
  <1>5. ASSUME NEW ok \in BOOLEAN, AfterStartup(ok)
        PROVE  ReportInv'
    BY <1>5 DEF AfterStartup, UnwindStarted
  <1>6. CASE BeginShutdown
    BY <1>6 DEF BeginShutdown, Transition
  <1>7. CASE OnShutdown
    BY <1>7 DEF OnShutdown
  <1>8. ASSUME NEW s \in Subs, DrainJoins(s)
        PROVE  ReportInv'
    BY <1>8 DEF DrainJoins
  <1>9. ASSUME NEW s \in Subs, DrainAborts(s)
        PROVE  ReportInv'
    BY <1>9 DEF DrainAborts
  <1>10. ASSUME NEW s \in Subs, DrainAwaitsAborted(s)
         PROVE  ReportInv'
    BY <1>10 DEF DrainAwaitsAborted
  <1>11. CASE DrainEnds
    BY <1>11 DEF DrainEnds
  <1>12. CASE DrainContinuations
    BY <1>12 DEF DrainContinuations
  <1>13. CASE CloseBroker
    BY <1>13 DEF CloseBroker
  <1>14. ASSUME NEW ok \in BOOLEAN, BrokerClosed(ok)
         PROVE  ReportInv'
    BY <1>14 DEF BrokerClosed
  <1>15. CASE UnwindEnds
    BY <1>15 DEF UnwindEnds, Starting
  <1>16. CASE AfterShutdown
    BY <1>16 DEF AfterShutdown, Result
  <1>17. CASE ReportTerminal
    BY <1>17 DEF ReportTerminal, Transition
  <1>18. CASE GiveUp
    BY <1>18 DEF GiveUp
  <1>19. ASSUME NEW s \in Subs, LoopTop(s)
         PROVE  ReportInv'
    BY <1>19 DEF LoopTop
  <1>20. ASSUME NEW s \in Subs, LoopDelivers(s)
         PROVE  ReportInv'
    BY <1>20 DEF LoopDelivers
  <1>21. ASSUME NEW s \in Subs, LoopStops(s)
         PROVE  ReportInv'
    BY <1>21 DEF LoopStops
  <1>22. ASSUME NEW s \in Subs, StreamEnds(s)
         PROVE  ReportInv'
    BY <1>22 DEF StreamEnds, Signal
  <1>23. ASSUME NEW s \in Subs, LoopGivesUp(s)
         PROVE  ReportInv'
    BY <1>23 DEF LoopGivesUp
  <1>24. ASSUME NEW s \in Subs, NEW leaves \in BOOLEAN, NEW fails \in BOOLEAN, HandlerReturns(s, leaves, fails)
         PROVE  ReportInv'
    BY <1>24 DEF HandlerReturns, HandlerLeaves, Signal
  <1>25. ASSUME NEW s \in Subs, LoopEnds(s)
         PROVE  ReportInv'
    BY <1>25 DEF LoopEnds, LoopGoes
  <1>26. ASSUME NEW s \in Subs, LoopPanics(s)
         PROVE  ReportInv'
    BY <1>26 DEF LoopPanics, LoopGoes
  <1>27. ASSUME NEW s \in Subs, LoopAborted(s)
         PROVE  ReportInv'
    BY <1>27 DEF LoopAborted, LoopGoes
  <1>28. ASSUME NEW s \in Subs, NEW leaves \in BOOLEAN, NEW fails \in BOOLEAN, OrphanEnds(s, leaves, fails)
         PROVE  ReportInv'
    BY <1>28 DEF OrphanEnds, HandlerLeaves, Signal
  <1>29. CASE ContinuationEnds
    BY <1>29 DEF ContinuationEnds
  <1>30. CASE WatcherPeeks
    BY <1>30 DEF WatcherPeeks
  <1>31. CASE WatcherReports
    BY <1>31 DEF WatcherReports
  <1>32. CASE \/ Expire \/ Done \/ UNCHANGED vars
    BY <1>32 DEF Expire, Done, vars
  <1> QED
    BY <1>1, <1>2, <1>3, <1>4, <1>5, <1>6, <1>7, <1>8, <1>9, <1>10, <1>11, <1>12, <1>13, <1>14,
       <1>15, <1>16, <1>17, <1>18, <1>19, <1>20, <1>21, <1>22, <1>23, <1>24, <1>25, <1>26,
       <1>27, <1>28, <1>29, <1>30, <1>31, <1>32 DEF Next, StartStep, TeardownStep, LoopStep,
       HandlerStep, WatcherStep

-----------------------------------------------------------------------------
(* The invariant every theorem below rests on: its parts are inductive     *)
(* together, a later one on those before it.                               *)
Inv ==
  /\ Typed /\ HandInv /\ OrderInv /\ ContInv /\ CloseInv /\ CountInv /\ PanicInv /\ ReportInv

LEMMA InitInv == Init => Inv
<1> SUFFICES ASSUME Init PROVE Inv
  OBVIOUS
<1>1. Typed
  BY DEF Init, Typed, Stages, Before, BrokerStates, LoopStates
<1>2. Spawned = {} /\ Live = {}
  BY DEF Init, Spawned, Live
<1>3. HandInv /\ OrderInv /\ ContInv /\ CloseInv /\ ReportInv
  BY <1>2 DEF Init, HandInv, OrderInv, ContInv, CloseInv, ReportInv, Touched, Open, Closing,
     Unjoined, Before, Down
<1>4. CountInv
  BY <1>2, FS_EmptySet DEF Init, CountInv
<1>5. PanicInv
  BY DEF Init, PanicInv
<1> QED BY <1>1, <1>3, <1>4, <1>5 DEF Inv

LEMMA StepInv == Inv /\ [Next]_vars => Inv'
  BY StepTypes, StepHand, StepOrder, StepConts, StepClose, StepCount, StepPanic, StepReport
     DEF Inv

LEMMA Invariant == Safe => []Inv
  BY InitInv, StepInv, PTL DEF Safe

\* No broker closes under a running handler or a loop, in a failed start, a shutdown or a teardown
\* run twice: teardown.rs joins every loop before close_brokers, and a loop that is gone has left
\* no handler it would be waiting for.
THEOREM BrokersOutliveHandlers == Safe => []NoCloseUnderAHandler
<1>1. ASSUME Inv, Touched PROVE Live = {} /\ \A s \in Subs : inHand[s] = 0
  <2>1. Live = {}
    BY <1>1 DEF Inv, HandInv, OrderInv, Unjoined, Live, Spawned
  <2>2. \A s \in Subs : inHand[s] \in Nat /\ ~(inHand[s] > 0)
    BY <1>1, <2>1 DEF Inv, Typed, HandInv
  <2> QED BY <2>1, <2>2
<1>2. Inv => NoCloseUnderAHandler
  BY <1>1 DEF Touched, NoCloseUnderAHandler
<1> QED BY <1>2, Invariant, PTL

\* Continuations are drained before a broker closes, except those a timeout abandoned and those
\* that workers leave which were told to end: drain_continuations stands between the join of the
\* loops and close_brokers, and only a loop that runs, or such a worker, adds one.
THEOREM BrokersOutliveContinuations == Safe => []ContinuationsBeforeClose
<1>1. Inv => ContinuationsBeforeClose
  BY DEF Inv, ContInv, Touched, Left, ContinuationsBeforeClose
<1> QED BY <1>1, Invariant, PTL

\* When start fails or shutdown returns, each broker that had connected was taken down, the later
\* one first, and no loop is counted as consuming: the unwinding of a failed start and the
\* teardown reach every broker and every loop.
THEOREM AllTakenDown == Safe => []NothingLeaks
<1>1. ASSUME Inv PROVE NothingLeaks
  <2>1. stage = "ended" => Live = {}
    BY <1>1 DEF Inv, Typed, HandInv, OrderInv, Down, Unjoined, Live, Spawned
  <2>2. stage = "ended" => active = 0
    BY <1>1, <2>1, FS_EmptySet DEF Inv, CountInv
  <2> QED BY <1>1, <2>2 DEF Inv, CloseInv, NothingLeaks
<1> QED BY <1>1, Invariant, PTL

\* shutdown answers Ok only where each loop that panicked did so after the drain had aborted it, no
\* broker refused and no subscription failed the service before the failure was taken:
\* drain_handles goes on past the first panic, and Teardown::run keeps the first of the three.
THEOREM OkMeansClean == Safe => []OkIsHonest
<1>1. ASSUME Inv PROVE OkIsHonest
  <2> SUFFICES ASSUME stage = "report", outcome = "ok"
               PROVE  /\ \A s \in Subs : loop[s] = "panicked" => s \in unseen
                      /\ ~closed /\ signalled = {}
    BY DEF OkIsHonest
  <2>1. ~closed /\ ~drained
    BY <1>1 DEF Inv, PanicInv
  <2>2. Spawned \subseteq joined
    BY <1>1 DEF Inv, OrderInv, Down, Unjoined
  <2>3. \A s \in Subs : loop[s] = "panicked" => s \in unseen
    BY <1>1, <2>1, <2>2 DEF Inv, PanicInv, Spawned
  <2>4. signalled = {}
    BY <1>1 DEF Inv, ReportInv
  <2> QED BY <2>1, <2>3, <2>4
<1> QED BY <1>1, Invariant, PTL

\* The probe agrees with what shutdown answered, whichever of shutdown and the watcher writes it
\* last, and the loops it counts are those that run: health.rs and Teardown::run.
THEOREM ProbeAgrees == Safe => []HealthAgrees
<1>1. Inv => HealthAgrees
  BY DEF Inv, CountInv, ReportInv, HealthAgrees
<1> QED BY <1>1, Invariant, PTL

(***************************************************************************)
(* The tests of a service: what HarnessProofs proves of the harness, for   *)
(* the life of a service or of a test that MCApp puts together             *)
(***************************************************************************)
HP == INSTANCE HarnessProofs WITH Confs <- Tests, conf <- trial

\* A step of the harness as MCApp takes it is one of the steps HarnessProofs speaks of.
LEMMA SameSteps == Harness!Next => HP!Next
<1>1. ASSUME NEW w PROVE Harness!WorkerStep(w) => HP!WorkerStep(w)
  BY Zenon DEF Harness!WorkerStep, HP!WorkerStep, Harness!Take, HP!Take, Harness!Token, HP!Token,
     Harness!Cascade, HP!Cascade, Harness!Counted, HP!Counted, Harness!Sent, HP!Sent,
     Harness!Return, HP!Return, Harness!Ack, HP!Ack, Harness!Requeue, HP!Requeue,
     Harness!RequeueCounted, HP!RequeueCounted, Harness!Dropped, HP!Dropped, Harness!Hold,
     HP!Hold, Harness!CopySettles, HP!CopySettles, Harness!CopySent, HP!CopySent,
     Harness!CopyCounted, HP!CopyCounted, Harness!CopyRecorded, HP!CopyRecorded, Harness!Release,
     HP!Release, Harness!NackAfter, HP!NackAfter, Harness!Expect, HP!Expect, Harness!End, HP!End,
     Harness!countVars, HP!countVars, Harness!liveVars, HP!liveVars, Harness!testVars,
     HP!testVars, Harness!msgVars, HP!msgVars, Harness!Enqueued, HP!Enqueued, Harness!Goto,
     HP!Goto, Harness!Live, HP!Live, Harness!Publish, HP!Publish, Harness!DropMessage,
     HP!DropMessage, Harness!Settling, HP!Settling, Harness!Consumed, HP!Consumed,
     Harness!NotifyWaiters, HP!NotifyWaiters
<1>2. Harness!LoopEnds \/ Harness!TimerStep => HP!LoopEnds \/ HP!TimerStep
  BY Zenon DEF Harness!LoopEnds, HP!LoopEnds, Harness!CloseQueue, HP!CloseQueue, Harness!DrainQueue,
     HP!DrainQueue, Harness!countVars, HP!countVars, Harness!liveVars, HP!liveVars,
     Harness!msgVars, HP!msgVars, Harness!testVars, HP!testVars, Harness!Workers, HP!Workers,
     Harness!Live, HP!Live, Harness!Consumed, HP!Consumed, Harness!NotifyWaiters,
     HP!NotifyWaiters, Harness!TimerStep, HP!TimerStep, Harness!Fire, HP!Fire,
     Harness!FireCounted, HP!FireCounted, Harness!Redeliver, HP!Redeliver, Harness!Enqueued,
     HP!Enqueued
<1>3. Harness!SettleStep => HP!SettleStep
  BY Zenon DEF Harness!SettleStep, HP!SettleStep, Harness!InjectCounted, HP!InjectCounted,
     Harness!RecordPublished, HP!RecordPublished, Harness!FiredDue, HP!FiredDue,
     Harness!BeginStep, HP!BeginStep, Harness!Enable, HP!Enable, Harness!Load, HP!Load,
     Harness!Budget, HP!Budget, Harness!ReadHandled, HP!ReadHandled, Harness!ReadPublished,
     HP!ReadPublished, Harness!ReadNow, HP!ReadNow, Harness!ReadRunning, HP!ReadRunning,
     Harness!Notified, HP!Notified, Harness!liveVars, HP!liveVars, Harness!msgVars, HP!msgVars,
     Harness!Enqueued, HP!Enqueued, Harness!TestGoto, HP!TestGoto, Harness!Live, HP!Live,
     Harness!Publish, HP!Publish, Harness!countVars, HP!countVars, Harness!NotifyWaiters,
     HP!NotifyWaiters
<1>4. (\/ Harness!FallDue \/ Harness!Inject \/ Harness!Advance \/ Harness!Sleep \/ Harness!Deadline
       \/ Harness!Asserts)
        => HP!FallDue \/ HP!Inject \/ HP!Advance \/ HP!Sleep \/ HP!Deadline \/ HP!Asserts
  BY Zenon DEF Harness!FallDue, HP!FallDue, Harness!Inject, HP!Inject, Harness!Sleep, HP!Sleep,
     Harness!countVars, HP!countVars, Harness!liveVars, HP!liveVars, Harness!testVars, HP!testVars,
     Harness!Live, HP!Live, Harness!TestGoto, HP!TestGoto, Harness!Advance, HP!Advance,
     Harness!Deadline, HP!Deadline, Harness!msgVars, HP!msgVars, Harness!Asserts, HP!Asserts,
     Harness!vars, HP!vars
<1>5. Harness!Workers = HP!Workers
  BY DEF Harness!Workers, HP!Workers
<1>6. Harness!LoopEnds \/ Harness!TimerStep \/ Harness!SettleStep => HP!Next
  BY <1>2, <1>3, Zenon DEF HP!Next
<1>7. (\/ Harness!FallDue \/ Harness!Inject \/ Harness!Advance \/ Harness!Sleep \/ Harness!Deadline
       \/ Harness!Asserts)
        => HP!Next
  BY <1>4, Zenon DEF HP!Next
<1>8. (\E w \in Harness!Workers : Harness!WorkerStep(w)) => HP!Next
  BY <1>1, <1>5, Zenon DEF HP!Next
<1> QED BY <1>6, <1>7, <1>8, Zenon DEF Harness!Next

\* A test keeps the harness's invariant, and a service keeps out of the harness.
TestInv == (kind = "test" /\ HP!HInv) \/ (kind = "service" /\ test = "failed")

\* The two halves of the induction, as HarnessProofs has them.
LEMMA TestBegins ==
  ASSUME HP!TestsTyped, HP!Init
  PROVE  HP!HInv
BY HP!InitInv

LEMMA TestGoesOn ==
  ASSUME HP!TestsTyped, HP!LiveAcks, HP!HInv, [HP!Next]_HP!vars
  PROVE  HP!HInv'
BY HP!StepInv

\* Coordinator::drive and settle_live, in a test of a service.  When a publish of the test, or an
\* advance of its clock, has returned, nothing of the reaction is left and every message was
\* handled, live until a redelivery comes back that was not due when the settle took the time, in
\* every life of a service or of a test: SettledIsStill.
THEOREM TestsReturnWhenStill ==
  ASSUME \A c \in Tests : c.live => c.outcomes \subseteq {"ack", "later"}
  PROVE  SafeApp => []SettledIsStill
<1>1. HP!TestsTyped /\ HP!LiveAcks
  BY TestsAssumption DEF HP!TestsTyped, HP!LiveAcks, HP!Outcomes
<1>2. InitApp => TestInv
  <2>1. Harness!Init => HP!Init
    BY DEF Harness!Init, HP!Init, Harness!Workers, HP!Workers
  <2> QED BY <1>1, <2>1, TestBegins DEF InitApp, NoTest, TestInv
<1>3. TestInv /\ [NextApp]_appVars => TestInv'
  <2>1. SUFFICES ASSUME TestInv, [NextApp]_appVars PROVE TestInv'
    OBVIOUS
  <2>2. CASE kind = "service"
    <3>1. test = "failed" /\ kind' = kind /\ test' = test
      BY <2>1, <2>2 DEF TestInv, NextApp, OfService, OfTest, appVars, testOnly
    <3> QED BY <2>2, <3>1 DEF TestInv
  <2>3. CASE kind = "test"
    <3>1. HP!HInv
      BY <2>1, <2>3 DEF TestInv
    <3>2. kind' = kind /\ [HP!Next]_HP!vars
      <4>1. CASE UNCHANGED appVars
        <5>1. UNCHANGED HP!vars
          BY <4>1 DEF appVars, vars, testOnly, HP!vars
        <5> QED BY <4>1, <5>1 DEF appVars
      <4>2. CASE NextApp
        <5>1. kind' = kind /\ Harness!Next
          BY <2>3, <4>2 DEF NextApp, OfService, OfTest
        <5> QED BY <5>1, SameSteps
      <4> QED BY <2>1, <4>1, <4>2
    <3>3. HP!HInv'
      BY <1>1, <3>1, <3>2, TestGoesOn
    <3> QED BY <2>3, <3>2, <3>3 DEF TestInv
  <2> QED BY <2>1, <2>2, <2>3 DEF TestInv
<1>4. TestInv => SettledIsStill
  <2>1. HP!HInv => HP!SettledIsStill
    BY <1>1, HP!StillInv
  <2> QED BY <2>1 DEF TestInv, SettledIsStill, Harness!SettledIsStill, HP!SettledIsStill,
          Harness!Workers, HP!Workers, Harness!Live, HP!Live
<1> QED BY <1>2, <1>3, <1>4, PTL DEF SafeApp
=============================================================================
