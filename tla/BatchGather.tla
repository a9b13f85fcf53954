---------------------------- MODULE BatchGather ----------------------------
(***************************************************************************)
(* The .error and .then one outcome shares between the elements of a       *)
(* batch, in a build with a heap (crates/runtime/src/publish_failure/      *)
(* boxed.rs): every outcome has a rendezvous of its own, each element a    *)
(* hook for its failure and a continuation for its success, and the call   *)
(* that reports the last element gets the continuation of the whole.       *)
(*                                                                         *)
(* The worker settles the elements in turn; a delayed copy waits, leaves   *)
(* and reports on a task of its own, and a continuation handed to the host *)
(* runs when its task is polled, all of them at once.  Outcomes share      *)
(* nothing, so there is one.                                               *)
(***************************************************************************)
EXTENDS Naturals, Sequences, FiniteSets, SequencesExt

CONSTANT Size   \* elements of the batch

Elements == 1 .. Size
Outcomes == {1}

VARIABLES
  at,        \* the element the worker settles
  el,        \* i -> where the element is
  gathered,  \* the rendezvous: pending, sent, failures, after
  last,      \* the continuation of the whole outcome: what it runs, once it exists
  kept,      \* delayed copies wait in the host's store, not on tasks of their own
  alive,     \* what still runs: all, only the tasks, or nothing
  ended, failed, heard, followed

vars == <<at, el, gathered, last, kept, alive, ended, failed, heard, followed>>

(* An element is to do, sending (in the worker's publish), waiting (out    *)
(* its delay), leaving (in its task's publish), told (its success is with  *)
(* a task not polled yet) or reported.                                     *)
Fresh == [i \in Elements |-> "todo"]

NoLast == [st |-> "none", failures |-> << >>, after |-> FALSE]

Init ==
  /\ at = 1
  /\ el = Fresh
  /\ \E after \in BOOLEAN :
       gathered = [pending |-> Size, sent |-> FALSE, failures |-> << >>, after |-> after]
  /\ last = NoLast
  /\ kept \in BOOLEAN
  /\ alive = "all"
  /\ ended = [o \in Outcomes |-> {}] /\ failed = [o \in Outcomes |-> {}]
  /\ heard = [o \in Outcomes |-> << >>] /\ followed = [o \in Outcomes |-> FALSE]

-----------------------------------------------------------------------------
(* Runs the outcome's .error on the failures and its .then beside it. *)
Run(failures, after) ==
  /\ heard' = IF failures # << >> THEN [heard EXCEPT ![1] = failures] ELSE heard
  /\ followed' = IF after THEN [followed EXCEPT ![1] = TRUE] ELSE followed

(* The failures given to the .error in the order they were reported. *)
SortedAsReported(failures) == failures

(* sort_by_key of the index, which no two failures share. *)
Sorted(failures) ==
  CHOOSE s \in [1 .. Len(failures) -> ToSet(failures)] :
    ToSet(s) = ToSet(failures) /\ \A i, j \in DOMAIN s : i < j => s[i] < s[j]

(* report, under the lock.  The continuation of the last one runs here, or *)
(* goes to the host.                                                       *)
Report(i, ok, here) ==
  LET failures == IF ok THEN gathered.failures ELSE Append(gathered.failures, i)
      sent     == gathered.sent \/ ok
      pending  == gathered.pending - 1
      whole    == [st |-> "handed", failures |-> Sorted(failures),
                   after |-> gathered.after /\ sent]
  IN IF pending > 0
     THEN /\ gathered' = [gathered EXCEPT !.pending = pending, !.sent = sent, !.failures = failures]
          /\ UNCHANGED <<last, heard, followed>>
     ELSE /\ gathered' = [pending |-> 0, sent |-> sent, failures |-> << >>,
                          after |-> gathered.after /\ ~sent]
          /\ IF here
             THEN /\ Run(whole.failures, whole.after)
                  /\ last' = [NoLast EXCEPT !.st = "ran"]
             ELSE last' = whole /\ UNCHANGED <<heard, followed>>

Ends(i, ok) ==
  /\ ended' = [ended EXCEPT ![1] = @ \cup {i}]
  /\ failed' = IF ok THEN failed ELSE [failed EXCEPT ![1] = @ \cup {i}]

Move(i, place) == el' = [el EXCEPT ![i] = place]

Settling == alive = "all" /\ at \in Elements
NextElement == at' = at + 1

-----------------------------------------------------------------------------
(* No publish took the reaction: the success continuation goes to the      *)
(* host.                                                                   *)
SettlesUnpublished ==
  /\ Settling /\ el[at] = "todo"
  /\ Move(at, "told") /\ Ends(at, TRUE) /\ NextElement
  /\ UNCHANGED <<gathered, last, kept, alive, heard, followed>>

(* The original is dropped: a delayed copy waits on its own task, one      *)
(* without a delay is awaited.                                             *)
Drops ==
  /\ Settling /\ el[at] = "todo"
  /\ \/ Move(at, "waiting") /\ NextElement
     \/ Move(at, "sending") /\ UNCHANGED at
  /\ UNCHANGED <<gathered, last, kept, alive, ended, failed, heard, followed>>

(* The publish of element i ended.  A success is a continuation for the    *)
(* host; a failure is reported here, and what the report returns is for    *)
(* the host.                                                               *)
LeavesToHost(i) ==
  \/ Move(i, "told") /\ Ends(i, TRUE) /\ UNCHANGED <<gathered, last, heard, followed>>
  \/ Move(i, "reported") /\ Ends(i, FALSE) /\ Report(i, FALSE, FALSE)

Sent ==
  /\ Settling /\ el[at] = "sending"
  /\ LeavesToHost(at)
  /\ NextElement
  /\ UNCHANGED <<kept, alive>>

Worker == SettlesUnpublished \/ Drops \/ Sent

(* A delayed copy.  Its own task publishes, reports and runs what the      *)
(* report returns; the driver of a store leaves it to the host.            *)
Due(i) ==
  /\ alive # "none" /\ el[i] = "waiting"
  /\ Move(i, "leaving")
  /\ UNCHANGED <<at, gathered, last, kept, alive, ended, failed, heard, followed>>

Leaves(i) ==
  /\ alive # "none" /\ el[i] = "leaving"
  /\ IF kept THEN LeavesToHost(i)
     ELSE \E ok \in BOOLEAN : Move(i, "reported") /\ Ends(i, ok) /\ Report(i, ok, TRUE)
  /\ UNCHANGED <<at, kept, alive>>

(* The host polls a success continuation: it reports. *)
Polled(i) ==
  /\ alive # "none" /\ el[i] = "told"
  /\ Report(i, TRUE, TRUE)
  /\ Move(i, "reported")
  /\ UNCHANGED <<at, kept, alive, ended, failed>>

(* The host polls the continuation of the whole. *)
LastPolled ==
  /\ alive # "none" /\ last.st = "handed"
  /\ Run(last.failures, last.after)
  /\ last' = [NoLast EXCEPT !.st = "ran"]
  /\ UNCHANGED <<at, el, gathered, kept, alive, ended, failed>>

(* The shutdown timeout passed: the loop is aborted, and its tasks are     *)
(* left to go on until the process ends.                                   *)
Abort ==
  /\ alive # "none"
  /\ alive' = IF alive = "all" THEN "tasks" ELSE "none"
  /\ UNCHANGED <<at, el, gathered, last, kept, ended, failed, heard, followed>>

Task(i) == Due(i) \/ Leaves(i) \/ Polled(i)

Next == Worker \/ LastPolled \/ Abort \/ \E i \in Elements : Task(i)

Safe == Init /\ [][Next]_vars

Spec ==
  Safe /\ WF_vars(Worker) /\ WF_vars(LastPolled) /\ \A i \in Elements : WF_vars(Task(i))

-----------------------------------------------------------------------------
(* The rendezvous waits for exactly the elements that did not report, the  *)
(* failures it holds are theirs, and the whole runs once.                  *)
GatherCounts ==
  LET reported == {i \in Elements : el[i] = "reported"}
  IN /\ gathered.pending = Size - Cardinality(reported)
     /\ (last.st = "none") <=> gathered.pending > 0
     /\ gathered.pending > 0 => ToSet(gathered.failures) = failed[1] \cap reported
=============================================================================
