------------------------------ MODULE BatchFan ------------------------------
(***************************************************************************)
(* The .error and .then one outcome shares between the elements of a       *)
(* batch, in a build without a heap (crates/runtime/src/publish_failure/   *)
(* fixed.rs): the mount holds one fan, the batch worker and the store of   *)
(* kept copies (crates/runtime-embassy/src/copies.rs) report to it, and    *)
(* the next outcome waits until the fan is free.                           *)
(*                                                                         *)
(* Three futures of one task interleave at their awaits: the worker, the   *)
(* publishing of due copies, and the reporter behind it, which gets the    *)
(* parts through a slot of one.  All are polled on every wake of the task, *)
(* so a wait is a guard.  An outcome without .error only competes for the  *)
(* records; delays pass in any order.                                      *)
(***************************************************************************)
EXTENDS Naturals, Sequences, FiniteSets

CONSTANTS
  Size,        \* elements of a batch
  Capacity,    \* records of the store
  MaxOutcomes  \* bound: batches the worker settles

VARIABLES
  wk,      \* the worker: st, the outcome o in its hands, its element i, the record r
  rec,     \* r -> the record: st, and the part its copy reports for
  pub,     \* the publishing: st, its record r, the report it gives
  slot,    \* the report in the hand-off
  rep,     \* the reporter: st
  fan,     \* the fan: busy, the .error and .then it holds, pending, sent, order
  report,  \* actor -> the .error and the .then its last report runs
  closed,  \* the store was closed
  ended, failed, heard, followed

vars == <<wk, rec, pub, slot, rep, fan, report, closed, ended, failed, heard, followed>>

Outcomes == 1 .. MaxOutcomes
Elements == 1 .. Size
Records == 1 .. Capacity
Actors == {"worker", "reporter"}

(* A part names its element only; o is kept to state the properties. *)
Part(o, i) == [o |-> o, i |-> i]
NoPart == Part(0, 0)
Told(p, ok) == [p |-> p, ok |-> ok]
Nothing == Told(NoPart, TRUE)

Idle(a) == report[a] = [error |-> 0, then |-> 0]

FreeFan == [busy |-> FALSE, error |-> 0, then |-> 0, pending |-> 0, sent |-> FALSE, order |-> << >>]
FreeRecord == [st |-> "free", part |-> NoPart]

Init ==
  /\ wk = [st |-> "next", o |-> 0, i |-> 0, r |-> 0, shared |-> FALSE, then |-> FALSE]
  /\ rec = [r \in Records |-> FreeRecord]
  /\ pub = [st |-> "idle", r |-> 0, told |-> Nothing]
  /\ slot = Nothing
  /\ rep = "taking"
  /\ fan = FreeFan
  /\ report = [a \in Actors |-> [error |-> 0, then |-> 0]]
  /\ closed = FALSE
  /\ ended = [o \in Outcomes |-> {}] /\ failed = [o \in Outcomes |-> {}]
  /\ heard = [o \in Outcomes |-> << >>] /\ followed = [o \in Outcomes |-> FALSE]

outcomeVars == <<ended, failed, heard, followed>>

-----------------------------------------------------------------------------
(* The fan. *)

(* A failure takes its place before the first one of a later element. *)
Insert(order, i) ==
  LET later == {j \in 1 .. Len(order) : order[j] > i}
      place == IF later = {} THEN Len(order) + 1 ELSE CHOOSE j \in later : \A k \in later : j <= k
  IN SubSeq(order, 1, place - 1) \o <<i>> \o SubSeq(order, place, Len(order))

(* begin: the fan takes the outcome's closure and .then. *)
BeginFan(o, then) ==
  /\ ~fan.busy
  /\ fan' = [fan EXCEPT !.busy = TRUE, !.error = o, !.then = IF then THEN o ELSE 0,
                        !.pending = Size, !.sent = FALSE]

(* The report of part p by actor a.  The last one runs the closure on the  *)
(* failures, polled first, and the .then beside it; without a failure the  *)
(* fan is free at once.                                                    *)
Report(a, told) ==
  LET order   == IF told.ok THEN fan.order ELSE Insert(fan.order, told.p.i)
      sent    == fan.sent \/ told.ok
      pending == IF fan.pending > 0 THEN fan.pending - 1 ELSE 0
      last    == pending = 0
      error   == IF last /\ order # << >> THEN fan.error ELSE 0
      then    == IF last /\ sent THEN fan.then ELSE 0
  IN /\ fan' = IF ~last
               THEN [fan EXCEPT !.order = order, !.sent = sent, !.pending = pending]
               ELSE [busy |-> error # 0, error |-> 0, then |-> 0, pending |-> 0, sent |-> sent,
                     order |-> IF error # 0 THEN order ELSE << >>]
     /\ report' = [report EXCEPT ![a] = [error |-> error, then |-> then]]
     /\ heard' = IF error # 0 THEN [heard EXCEPT ![error] = order] ELSE heard
     /\ followed' = IF then # 0 THEN [followed EXCEPT ![then] = TRUE] ELSE followed

(* The element ended: its publish went out, failed, or was never made. *)
Ends(p, ok) ==
  /\ ended' = IF p = NoPart THEN ended ELSE [ended EXCEPT ![p.o] = @ \cup {p.i}]
  /\ failed' = IF ok \/ p = NoPart THEN failed ELSE [failed EXCEPT ![p.o] = @ \cup {p.i}]

(* The fan freed only when the .then is done as well: react and follow     *)
(* awaited one after the other, the follow-up first.                       *)
ReactEndsAfterFollow(a) ==
  /\ report[a].error # 0 /\ report[a].then = 0
  /\ report' = [report EXCEPT ![a].error = 0]
  /\ fan' = [fan EXCEPT !.busy = FALSE, !.order = << >>]
  /\ UNCHANGED <<wk, rec, pub, slot, rep, closed, outcomeVars>>

(* The closure is done: the fan is free although the .then still runs. *)
ReactEnds(a) ==
  /\ report[a].error # 0
  /\ report' = [report EXCEPT ![a].error = 0]
  /\ fan' = [fan EXCEPT !.busy = FALSE, !.order = << >>]
  /\ UNCHANGED <<wk, rec, pub, slot, rep, closed, outcomeVars>>

FollowEnds(a) ==
  /\ report[a].then # 0
  /\ report' = [report EXCEPT ![a].then = 0]
  /\ UNCHANGED <<wk, rec, pub, slot, rep, fan, closed, outcomeVars>>

-----------------------------------------------------------------------------
(* The worker: it settles a batch by one outcome, element by element. *)

WorkerIn(st) == wk.st = st /\ Idle("worker")

(* The part of the element in hand. *)
Mine == IF wk.shared THEN Part(wk.o, wk.i) ELSE NoPart

NextElement ==
  wk' = IF wk.i = Size
        THEN [st |-> "next", o |-> wk.o, i |-> 0, r |-> 0, shared |-> FALSE, then |-> FALSE]
        ELSE [wk EXCEPT !.st = "element", !.i = @ + 1, !.r = 0]

(* The element ended in the worker's hands, which reports it. *)
EndsHere(ok) ==
  /\ Ends(Mine, ok)
  /\ IF wk.shared THEN Report("worker", Told(Mine, ok))
     ELSE UNCHANGED <<fan, report, heard, followed>>
  /\ NextElement

(* The handler returned one outcome for the batch. *)
Returns ==
  /\ WorkerIn("next") /\ wk.o < MaxOutcomes
  /\ \E shared, then \in BOOLEAN :
       /\ then => shared
       /\ wk' = [st |-> IF shared THEN "begin" ELSE "element", o |-> wk.o + 1, i |-> 1, r |-> 0,
                 shared |-> shared, then |-> then]
  /\ UNCHANGED <<rec, pub, slot, rep, fan, report, closed, outcomeVars>>

Begin ==
  /\ WorkerIn("begin")
  /\ BeginFan(wk.o, wk.then)
  /\ wk' = [wk EXCEPT !.st = "element"]
  /\ UNCHANGED <<rec, pub, slot, rep, report, closed, outcomeVars>>

(* No publish took the reaction: an ack, a requeue, a rejection, or any of *)
(* them refused by the broker.                                             *)
SettlesUnpublished ==
  /\ WorkerIn("element")
  /\ EndsHere(TRUE)
  /\ UNCHANGED <<rec, pub, slot, rep, closed>>

FreeRecords == {r \in Records : rec[r].st = "free"}

(* The copy is prepared, in a record if one is free, before the original   *)
(* is dropped.                                                             *)
Prepares ==
  /\ WorkerIn("element")
  /\ \E waits \in BOOLEAN :
       IF FreeRecords = {}
       THEN wk' = [wk EXCEPT !.st = IF waits THEN "full" ELSE "spill"] /\ UNCHANGED rec
       ELSE LET r == CHOOSE r \in FreeRecords : \A q \in FreeRecords : r <= q
            IN /\ wk' = [wk EXCEPT !.st = IF waits THEN "arm" ELSE "send", !.r = r]
               /\ rec' = [rec EXCEPT ![r].st = "taken"]
  /\ UNCHANGED <<pub, slot, rep, fan, report, closed, outcomeVars>>

(* The original is dropped and the copy armed with the element's part. *)
Arms ==
  /\ WorkerIn("arm")
  /\ rec' = [rec EXCEPT ![wk.r] = [st |-> "due", part |-> Mine]]
  /\ NextElement
  /\ UNCHANGED <<pub, slot, rep, fan, report, closed, outcomeVars>>

(* The original is dropped and the copy that does not wait goes out. *)
SendsNow ==
  /\ WorkerIn("send") \/ WorkerIn("spill")
  /\ wk' = [wk EXCEPT !.st = "sending"]
  /\ rec' = IF wk.r = 0 THEN rec ELSE [rec EXCEPT ![wk.r].st = "sending"]
  /\ UNCHANGED <<pub, slot, rep, fan, report, closed, outcomeVars>>

GiveBack(r) == rec' = IF r = 0 THEN rec ELSE [rec EXCEPT ![r] = FreeRecord]

Sent ==
  /\ WorkerIn("sending")
  /\ GiveBack(wk.r)
  /\ \E ok \in BOOLEAN : EndsHere(ok)
  /\ UNCHANGED <<pub, slot, rep, closed>>

(* The failure warned of and not reported. *)
FindsFullSilently ==
  /\ WorkerIn("full")
  /\ Ends(Mine, FALSE)
  /\ NextElement
  /\ UNCHANGED <<rec, pub, slot, rep, fan, report, closed, heard, followed>>

(* The original is dropped and every record taken: a failed publish. *)
FindsFull ==
  /\ WorkerIn("full")
  /\ EndsHere(FALSE)
  /\ UNCHANGED <<rec, pub, slot, rep, closed>>

(* The original could not be dropped: no copy leaves. *)
DropFails ==
  /\ WorkerIn("arm") \/ WorkerIn("send") \/ WorkerIn("spill") \/ WorkerIn("full")
  /\ GiveBack(wk.r)
  /\ EndsHere(TRUE)
  /\ UNCHANGED <<pub, slot, rep, closed>>

(* The stream ended or the service stops: the store is closed. *)
Stops ==
  /\ WorkerIn("next")
  /\ wk' = [wk EXCEPT !.st = "stopped"]
  /\ closed' = TRUE
  /\ UNCHANGED <<rec, pub, slot, rep, fan, report, outcomeVars>>

WorkerStep ==
  \/ Begin \/ SettlesUnpublished \/ Prepares \/ Arms \/ SendsNow \/ Sent \/ FindsFull
  \/ DropFails

-----------------------------------------------------------------------------
(* The store's driver. *)

PublishesDue ==
  /\ pub.st = "idle"
  /\ \E r \in Records :
       /\ rec[r].st = "due"
       /\ rec' = [rec EXCEPT ![r].st = "sending"]
       /\ pub' = [pub EXCEPT !.st = "sending", !.r = r]
  /\ UNCHANGED <<wk, slot, rep, fan, report, closed, outcomeVars>>

Resting == [st |-> "idle", r |-> 0, told |-> Nothing]

(* give: the report waits while an earlier one is in the slot. *)
HandsOver(told) ==
  IF slot = Nothing THEN slot' = told /\ pub' = Resting
  ELSE pub' = [st |-> "giving", r |-> 0, told |-> told] /\ UNCHANGED slot

(* The record is given back and the report of a part handed over. *)
Published ==
  /\ pub.st = "sending"
  /\ GiveBack(pub.r)
  /\ \E ok \in BOOLEAN :
       LET p == rec[pub.r].part
       IN /\ Ends(p, ok)
          /\ IF p = NoPart THEN pub' = Resting /\ UNCHANGED slot ELSE HandsOver(Told(p, ok))
  /\ UNCHANGED <<wk, rep, fan, report, closed, heard, followed>>

Gives ==
  /\ pub.st = "giving" /\ slot = Nothing
  /\ slot' = pub.told /\ pub' = Resting
  /\ UNCHANGED <<wk, rec, rep, fan, report, closed, outcomeVars>>

(* The store is closed and holds no copy. *)
PublishingEnds ==
  /\ pub.st = "idle" /\ closed
  /\ \A r \in Records : rec[r].st = "free"
  /\ pub' = [pub EXCEPT !.st = "ended"]
  /\ UNCHANGED <<wk, rec, slot, rep, fan, report, closed, outcomeVars>>

Takes ==
  /\ rep = "taking" /\ Idle("reporter") /\ slot # Nothing
  /\ slot' = Nothing
  /\ Report("reporter", slot)
  /\ UNCHANGED <<wk, rec, pub, rep, closed, ended, failed>>

ReporterEnds ==
  /\ rep = "taking" /\ Idle("reporter") /\ slot = Nothing /\ pub.st = "ended"
  /\ rep' = "ended"
  /\ UNCHANGED <<wk, rec, pub, slot, fan, report, closed, outcomeVars>>

Driver == PublishesDue \/ Published \/ Gives \/ PublishingEnds
Reporter == Takes \/ ReporterEnds

Next ==
  \/ Returns \/ Stops \/ WorkerStep \/ Driver \/ Reporter
  \/ \E a \in Actors : ReactEnds(a) \/ FollowEnds(a)

Safe == Init /\ [][Next]_vars

(* The broker answers, delays pass and the .error ends.  Nothing says that *)
(* a .then ends, that another batch comes or that the service stops.       *)
Spec ==
  /\ Safe
  /\ WF_vars(WorkerStep) /\ WF_vars(Driver) /\ WF_vars(Reporter)
  /\ \A a \in Actors : WF_vars(ReactEnds(a))

-----------------------------------------------------------------------------
(* The parts on their way to the fan. *)
Under == {rec[r].part : r \in Records} \cup {slot.p, pub.told.p}
OnTheWay == Under \ {NoPart}

Unsettled == IF wk.shared /\ wk.st # "begin" THEN Size + 1 - wk.i ELSE 0

(* A part carries no name of its outcome, so the fan must hold that        *)
(* outcome for as long as one is on its way; it waits for exactly these    *)
(* and for the elements not settled yet, and is free once nobody reports:  *)
(* every path of a settlement reports once.                                *)
PartsReachTheirOutcome ==
  /\ \A p \in OnTheWay : fan.error = p.o
  /\ wk.shared /\ wk.st # "begin" => fan.error = wk.o
  /\ fan.pending = Cardinality(OnTheWay) + Unsettled
  /\ fan.busy <=> fan.pending > 0 \/ \E a \in Actors : report[a].error # 0

(* The reporter runs a .then with a report of a later outcome behind it. *)
HeldUp == report["reporter"].then # 0 /\ slot # Nothing
=============================================================================
