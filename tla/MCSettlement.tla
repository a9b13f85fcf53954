---------------------------- MODULE MCSettlement ----------------------------
(***************************************************************************)
(* Settlement for TLC: a behaviour is two messages of one subscription     *)
(* over one kind of transport, or the batches of a mount settled by        *)
(* outcomes that share an .error, without a heap (BatchFan) or with one    *)
(* (BatchGather); the variables of the others stay as they start.          *)
(***************************************************************************)
EXTENDS Settlement

CONSTANTS
  m1, m2,
  Kinds,        \* of "single", "fan" and "gather": what is considered
  Size,         \* elements of a batch
  Store,        \* records of the store that batches share
  MaxOutcomes   \* bound: batches the worker of a fan settles

ASSUME BatchAssumption == Size \in Nat \ {0} /\ Store \in Nat /\ MaxOutcomes \in Nat

VARIABLES
  kind,
  wk, rec, pub, slot, rep, fan, report, closed,
  at, el, gathered, last, kept, alive,
  ended, failed, heard, followed

TwoMessages == {m1, m2}

Conf(counts, native, settles, dead, path, room) ==
  [counts |-> counts, native |-> native, settles |-> settles, dead |-> dead, path |-> path,
   room |-> room, fits |-> MaxCount]

(* A transport that counts nothing, one that delays as well, one that      *)
(* counts and delays, and one that settles nothing.                        *)
Transports ==
  {Conf(FALSE, FALSE, TRUE, TRUE, "published", 1),
   Conf(FALSE, TRUE, TRUE, TRUE, "published", 1),
   Conf(TRUE, TRUE, TRUE, FALSE, "published", 1),
   Conf(FALSE, FALSE, FALSE, TRUE, "published", 1)}

(* The in-memory broker of the Embassy runner: it counts and does not      *)
(* delay, and copies wait in the runner's store.                           *)
LocalBroker == {Conf(TRUE, FALSE, TRUE, TRUE, "kept", 2)}

(* Messages whose headers are full, without a heap, over a broker that     *)
(* counts and delays and over one that does neither.                       *)
FullHeaders ==
  {[Conf(TRUE, TRUE, TRUE, TRUE, "kept", 1) EXCEPT !.fits = 0],
   [Conf(FALSE, FALSE, TRUE, TRUE, "kept", 1) EXCEPT !.fits = 0]}

(* A store with room for one copy, and for both.                           *)
EveryTransport ==
  Transports \cup LocalBroker \cup FullHeaders \cup {Conf(TRUE, FALSE, TRUE, TRUE, "kept", 1)}
AnyTransport == Conf(FALSE, FALSE, TRUE, TRUE, "published", 1)

AllKinds == {"single", "fan", "gather"}
SingleOnly == {"single"}
FanOnly == {"fan"}

F == INSTANCE BatchFan WITH Capacity <- Store
G == INSTANCE BatchGather

outcomeOnly == <<ended, failed, heard, followed>>
fanOnly == <<wk, rec, pub, slot, rep, fan, report, closed>>
gatherOnly == <<at, el, gathered, last, kept, alive>>
settleVars == <<kind, vars, fanOnly, gatherOnly, outcomeOnly>>

NoMessages ==
  /\ conf = AnyTransport
  /\ dlv = [m \in Messages |-> NoDelivery] /\ job = [m \in Messages |-> NoCopy] /\ used = 0
  /\ fate = [m \in Messages |-> "acked"] /\ runs = [m \in Messages |-> 0]
  /\ slips = [m \in Messages |-> 0] /\ lost = [m \in Messages |-> "no"]
  /\ errors = 0 /\ refusals = 0 /\ crashes = 0
NoFan ==
  /\ wk = [st |-> "none"] /\ rec = [r \in F!Records |-> F!FreeRecord] /\ pub = << >>
  /\ slot = F!Nothing /\ rep = "none" /\ fan = F!FreeFan /\ closed = FALSE
  /\ report = [a \in F!Actors |-> [error |-> 0, then |-> 0]]
NoGather ==
  /\ at = 0 /\ el = << >> /\ gathered = << >> /\ last = G!NoLast /\ kept = FALSE /\ alive = "all"
NoOutcome == ended = << >> /\ failed = << >> /\ heard = << >> /\ followed = << >>

InitSettle ==
  /\ kind \in Kinds
  /\ \/ kind = "single" /\ Init /\ NoFan /\ NoGather /\ NoOutcome
     \/ kind = "fan" /\ F!Init /\ NoMessages /\ NoGather
     \/ kind = "gather" /\ G!Init /\ NoMessages /\ NoFan

OfSingle(A) == kind = "single" /\ A /\ UNCHANGED <<kind, fanOnly, gatherOnly, outcomeOnly>>
OfFan(A) == kind = "fan" /\ A /\ UNCHANGED <<kind, vars, gatherOnly>>
OfGather(A) == kind = "gather" /\ A /\ UNCHANGED <<kind, vars, fanOnly>>

NextSettle == OfSingle(Next) \/ OfFan(F!Next) \/ OfGather(G!Next)

SafeSettle == InitSettle /\ [][NextSettle]_settleVars

SpecSettle ==
  /\ SafeSettle
  /\ \A m \in Messages : WF_settleVars(OfSingle(Step(m)))
  /\ WF_settleVars(OfFan(F!WorkerStep) \/ OfGather(G!Worker))
  /\ WF_settleVars(OfFan(F!Driver) \/ OfGather(G!LastPolled))
  /\ WF_settleVars(OfFan(F!Reporter))
  /\ \A a \in F!Actors : WF_settleVars(OfFan(F!ReactEnds(a)))
  /\ \A i \in G!Elements : WF_settleVars(OfGather(G!Task(i)))

-----------------------------------------------------------------------------
(* Properties of the shared outcomes. *)

S == INSTANCE SharedOutcome WITH Elements <- 1 .. Size

(* Either build implements the outcome: the .error of a batch runs at most *)
(* once, after the last of its publishes and with every failure in the     *)
(* order of the batch, and its .then at most once and only if some element *)
(* had no failed publish: its copy went out, or it made none.              *)
ImplementsOutcome == S!Spec

(* The fan holds the outcome of every part on its way and waits for        *)
(* exactly these: PartsReachTheirOutcome of the fan, GatherCounts of the   *)
(* rendezvous.                                                             *)
ReportsReachTheirOutcome ==
  /\ kind = "fan" => F!PartsReachTheirOutcome
  /\ kind = "gather" => G!GatherCounts

(* A due copy leaves and a waiting outcome gets the fan, unless a .then    *)
(* that does not end holds the reporter with the next report behind it;    *)
(* with a heap the outcome ends unless the shutdown timeout aborts the     *)
(* loop.                                                                   *)
OutcomesEnd ==
  /\ \A r \in F!Records :
       (kind = "fan" /\ rec[r].st = "due") ~> (rec[r].st = "free" \/ F!HeldUp)
  /\ (kind = "fan" /\ wk.st = "begin") ~> (wk.st # "begin" \/ F!HeldUp)
  /\ (kind = "gather") ~> (alive # "all" \/ last.st = "ran")

(* What the driver's comment says, a slow follow-up delays no later copy:  *)
(* a due copy leaves, whether a .then ends or not.                         *)
DueCopiesLeave ==
  \A r \in F!Records : (kind = "fan" /\ rec[r].st = "due") ~> rec[r].st = "free"
=============================================================================
