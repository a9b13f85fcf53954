--------------------------- MODULE HarnessProofs ---------------------------
(***************************************************************************)
(* What a test may rely on when a publish of it has returned: for every    *)
(* number of workers, messages and cascades nothing of the reaction is     *)
(* left.  In process the argument is that in_flight counts what is on its  *)
(* way, so that zero is quiet.  Live it is that the records, read after    *)
(* the time and before the publishes, can only cover the publishes and the *)
(* redeliveries due at that time once every message was handled, or a      *)
(* redelivery came back that was not due.                                  *)
(***************************************************************************)
EXTENDS TestHarness, FiniteSetTheorems, TLAPS

(***************************************************************************)
(* The inductive invariant                                                 *)
(***************************************************************************)
Outcomes == {"ack", "requeue", "copy", "later", "panic"}

\* Tests as they are written: what handlers may do, and bounds that are numbers.
TestsTyped ==
  \A c \in Confs :
    /\ c.live \in BOOLEAN /\ c.outcomes \subseteq Outcomes
    /\ c.workers \in Nat /\ c.tests \in Nat /\ c.cascades \in Nat /\ c.max_steps \in Nat

\* Handlers of a live test that ack or delay: a live requeue or copy is not waited for.
LiveAcks == \A c \in Confs : c.live => c.outcomes \subseteq {"ack", "later"}

\* Where a worker has the message of its delivery, before and after its handler returned.
Unhandled == {"taken", "handle", "counting", "sent", "published"}
Owning == Unhandled \cup {"settle", "held", "copying"}

\* Where a worker is, by how much of in_flight is its delivery's: one, two or three at least.
Counts1 == Owning \cup {"end", "requeued", "dropping", "copycount", "copied", "holding", "delayed"}
Counts2 == {"handle", "sent", "published", "settle", "dropping", "held", "copying", "copied",
            "holding"}
Counts3 == {"held"}

\* Live: a call runs; and its delivery is not in the records yet.
LivePlaces == {"idle", "taken", "handle", "sent", "published", "settle", "delayed", "end"}
Calling == {"handle", "sent", "published", "settle", "delayed", "end"}
Unrecorded == {"taken", "handle", "sent", "published"}

\* Where the task of a live test can be, and of one in process.
LiveStages ==
  {"idle", "record", "enable", "now", "handled", "published", "running", "wait", "failed"}
Stages == {"idle", "count", "record", "fire", "begin", "enable", "load", "budget", "wait", "failed"}

\* The messages published so far: the test's, and after those the handlers'.
Issued == 1 .. made \cup conf.tests + 1 .. conf.tests + cascade
\* The workers at some of the places, how many they are, and the messages they have.
Standing(crew, places) == {w \in Workers : crew[w].at \in places}
Number(crew, places) == Cardinality(Standing(crew, places))
Messages(crew, places) == {crew[w].msg : w \in Standing(crew, places)}
One(b) == IF b THEN 1 ELSE 0

\* How much of in_flight is the deliveries' at work.
Carried(crew) == Number(crew, Counts1) + Number(crew, Counts2) + Number(crew, Counts3)
Weight(at) == One(at \in Counts1) + One(at \in Counts2) + One(at \in Counts3)

\* The workers, each with a message and what its handler did.
Crews == [Workers -> [at : {"idle"} \cup Counts1, msg : Nat, outcome : {"none"} \cup Outcomes]]

\* The types, and what a call that settles decided is something its handler may do.
Typed ==
  /\ conf \in Confs
  /\ in_flight \in Int
  /\ handled \in Nat /\ published \in Nat /\ expected \in Nat /\ due \in Nat
  /\ back \in Nat /\ cascade \in Nat /\ made \in 0 .. conf.tests
  /\ open \in BOOLEAN /\ cancelled \in BOOLEAN
  /\ worker \in Crews
  /\ \A w \in Workers : worker[w].at = "settle" => worker[w].outcome \in conf.outcomes
  /\ test \in (IF Live THEN LiveStages ELSE Stages)
  /\ saw \in [due : Nat, handled : Nat, owed : Nat]

\* A message is in one place, and a number is a message's from the moment it is issued.
OnePlace ==
  /\ queue \subseteq Issued /\ timers \subseteq Issued /\ firing \subseteq Issued
  /\ Messages(worker, Owning) \subseteq Issued
  /\ queue \cap timers = {} /\ queue \cap firing = {} /\ timers \cap firing = {}
  /\ \A w \in Standing(worker, Owning) : worker[w].msg \notin queue \cup timers \cup firing
  /\ \A v, w \in Standing(worker, Owning) : worker[v].msg = worker[w].msg => v = w

\* What no handler got is queued or with a worker that is about to call one, as long as the
\* service runs.
Followed ==
  /\ open \/ cancelled
  /\ cancelled \/ Issued \subseteq seen \cup queue \cup Messages(worker, Unhandled)

\* Timers fire while the test waits for them, in process.
Fires ==
  /\ fired \subseteq Issued /\ firing \cap fired = {}
  /\ Live => firing = {} /\ fired = {}
  /\ ~Live /\ test # "fire" => firing = {} /\ fired = {}

\* Nothing is left to do.
Still == queue = {} /\ firing = {} /\ fired = {} /\ \A w \in Workers : worker[w].at = "idle"

\* In process: what in_flight counts.
InFlight ==
  in_flight = Cardinality(queue) - Cardinality(fired) - One(test = "count")
                + Carried(worker)

\* Live: what the records, the publishes, the redeliveries and in_flight count.
Ledger ==
  /\ ~cancelled /\ open
  /\ \A w \in Workers : worker[w].at \in LivePlaces
  /\ handled + Cardinality(queue) + Number(worker, Unrecorded) = made + cascade + back
  /\ published + One(test = "record") + Number(worker, {"sent"}) = made + cascade
  /\ in_flight = Number(worker, Calling)

\* Live: nothing is left that could make a handler publish.
Over == queue = {} /\ \A w \in Workers : worker[w].at \notin {"taken", "handle"}

\* Live: where settle_live has read enough, every redelivery it counted has come back, and nothing
\* is left unless another one has.
Reads ==
  /\ test = "published" => saw.handled <= handled
  /\ test = "running" /\ saw.handled >= saw.owed =>
       saw.due <= back /\ (back <= saw.due => Over)

\* Where the test asserts nothing is left to do, live unless a redelivery came back that was not
\* counted.
Settled ==
  /\ ~Live => Still
  /\ Live => saw.due <= back /\ (back <= saw.due => Still)

\* The invariant.
HInv ==
  /\ Typed /\ OnePlace /\ Followed /\ Fires
  /\ test = "idle" => Settled
  /\ ~Live => InFlight
  /\ Live => Ledger /\ Reads

(***************************************************************************)
(* The workers                                                             *)
(***************************************************************************)
Places == {"idle"} \cup Counts1

\* Worker w goes from x to y, and no other worker does anything.
Moves(w, x, y) ==
  /\ worker[w].at = x /\ worker'[w].at = y
  /\ \A v \in Workers : v # w => worker'[v] = worker[v]

\* There are finitely many workers, so they can be counted.
LEMMA CrewFinite ==
  ASSUME TestsTyped, Typed
  PROVE  /\ IsFiniteSet(Workers)
         /\ \A crew, places : IsFiniteSet(Standing(crew, places)) /\ Number(crew, places) \in Nat
<1>1. conf.workers \in Nat
  BY DEF TestsTyped, Typed
<1>2. IsFiniteSet(Workers)
  BY <1>1, 1 \in Int, FS_Interval DEF Workers
<1>3. ASSUME NEW crew, NEW places
      PROVE  IsFiniteSet(Standing(crew, places)) /\ Number(crew, places) \in Nat
  <2>1. Standing(crew, places) \subseteq Workers
    BY DEF Standing
  <2>2. IsFiniteSet(Standing(crew, places))
    BY <1>2, <2>1, FS_Subset
  <2> QED BY <2>2, FS_CardinalityType DEF Number
<1> QED BY <1>2, <1>3

\* A move of one worker changes the number at some places by one at most.
LEMMA NumberMoves ==
  ASSUME TestsTyped, Typed, NEW w \in Workers, NEW x, NEW y, Moves(w, x, y), NEW places
  PROVE  /\ Number(worker, places) \in Nat /\ Number(worker', places) \in Nat
         /\ Number(worker', places) = Number(worker, places) + One(y \in places) - One(x \in places)
<1> DEFINE A == Standing(worker, places)
           B == Standing(worker', places)
<1>1. IsFiniteSet(A) /\ IsFiniteSet(B) /\ Number(worker, places) \in Nat
      /\ Number(worker', places) \in Nat
  BY CrewFinite
<1>2. /\ w \in A <=> x \in places
      /\ w \in B <=> y \in places
      /\ A \ {w} = B \ {w}
  BY DEF Moves, Standing
<1>3. Number(worker, places) = Cardinality(A) /\ Number(worker', places) = Cardinality(B)
  BY DEF Number
<1> HIDE DEF A, B
<1>4. PICK C : C = A \ {w}
  OBVIOUS
<1>5. IsFiniteSet(C) /\ w \notin C /\ Cardinality(C) \in Nat
  BY <1>1, <1>4, FS_RemoveElement, FS_CardinalityType
<1>6. Cardinality(C \cup {w}) = Cardinality(C) + 1
  BY <1>5, FS_AddElement
<1>7. A = (IF x \in places THEN C \cup {w} ELSE C) /\ B = (IF y \in places THEN C \cup {w} ELSE C)
  BY <1>2, <1>4
<1>8. Cardinality(A) = Cardinality(C) + One(x \in places)
      /\ Cardinality(B) = Cardinality(C) + One(y \in places)
  BY <1>5, <1>6, <1>7 DEF One
<1>9. One(x \in places) \in Int /\ One(y \in places) \in Int
  BY DEF One
<1> QED BY <1>1, <1>3, <1>5, <1>8, <1>9

\* A move changes what the deliveries carry by the difference of the places' weights.
LEMMA CarriedMoves ==
  ASSUME TestsTyped, Typed, NEW w \in Workers, NEW x, NEW y, Moves(w, x, y)
  PROVE  /\ Carried(worker) \in Nat /\ Carried(worker') \in Nat
         /\ Carried(worker') = Carried(worker) + Weight(y) - Weight(x)
<1>1. /\ Number(worker, Counts1) \in Nat /\ Number(worker', Counts1) \in Nat
      /\ Number(worker', Counts1)
           = Number(worker, Counts1) + One(y \in Counts1) - One(x \in Counts1)
  BY NumberMoves
<1>2. /\ Number(worker, Counts2) \in Nat /\ Number(worker', Counts2) \in Nat
      /\ Number(worker', Counts2)
           = Number(worker, Counts2) + One(y \in Counts2) - One(x \in Counts2)
  BY NumberMoves
<1>3. /\ Number(worker, Counts3) \in Nat /\ Number(worker', Counts3) \in Nat
      /\ Number(worker', Counts3)
           = Number(worker, Counts3) + One(y \in Counts3) - One(x \in Counts3)
  BY NumberMoves
<1>4. \A b \in BOOLEAN : One(b) \in Int
  BY DEF One
<1>5. /\ One(y \in Counts1) \in Int /\ One(y \in Counts2) \in Int /\ One(y \in Counts3) \in Int
      /\ One(x \in Counts1) \in Int /\ One(x \in Counts2) \in Int /\ One(x \in Counts3) \in Int
  BY DEF One
<1> QED BY <1>1, <1>2, <1>3, <1>5 DEF Carried, Weight

\* How much of in_flight a delivery carries at each place.
LEMMA Weights ==
  /\ Weight("idle") = 0
  /\ Weight("taken") = 1 /\ Weight("counting") = 1 /\ Weight("end") = 1 /\ Weight("requeued") = 1
  /\ Weight("copycount") = 1 /\ Weight("delayed") = 1
  /\ Weight("handle") = 2 /\ Weight("sent") = 2 /\ Weight("published") = 2
  /\ Weight("settle") = 2 /\ Weight("dropping") = 2 /\ Weight("copying") = 2
  /\ Weight("copied") = 2 /\ Weight("holding") = 2
  /\ Weight("held") = 3
BY DEF Weight, One, Counts1, Counts2, Counts3, Owning, Unhandled

\* Nothing is carried only where every worker is idle.
LEMMA NothingCarried ==
  ASSUME TestsTyped, Typed, Number(worker, Counts1) = 0
  PROVE  \A w \in Workers : worker[w].at = "idle"
<1>1. IsFiniteSet(Standing(worker, Counts1))
  BY CrewFinite
<1>2. Standing(worker, Counts1) = {}
  BY <1>1, FS_EmptySet DEF Number
<1>3. \A w \in Workers : worker[w].at \in {"idle"} \cup Counts1
  BY DEF Typed, Crews
<1> QED BY <1>2, <1>3 DEF Standing

\* Goto moves one worker, which keeps its message.
LEMMA GotoMoves ==
  ASSUME Typed, NEW w \in Workers, NEW y \in Places \ {"settle"}, Goto(w, y), conf' = conf
  PROVE  /\ Moves(w, worker[w].at, y) /\ worker'[w].msg = worker[w].msg
         /\ worker' \in Crews
         /\ \A v \in Workers : worker'[v].at = "settle" => worker'[v].outcome \in conf.outcomes
<1>1. worker \in Crews /\ \A v \in Workers : worker[v] \in [at : Places, msg : Nat,
                                                  outcome : {"none"} \cup Outcomes]
  BY DEF Typed, Crews, Places
<1>2. worker' = [worker EXCEPT ![w].at = y]
  BY DEF Goto
<1>3. PICK r : r = [worker[w] EXCEPT !.at = y]
  OBVIOUS
<1>4. /\ r.at = y /\ r.msg = worker[w].msg
      /\ r \in [at : Places, msg : Nat, outcome : {"none"} \cup Outcomes]
  BY <1>1, <1>3
<1>5. worker' = [worker EXCEPT ![w] = r]
  BY <1>2, <1>3
<1>6. worker'[w] = r /\ \A v \in Workers : v # w => worker'[v] = worker[v]
  BY <1>1, <1>5 DEF Crews
<1>7. worker' \in Crews
  BY <1>1, <1>4, <1>5 DEF Crews, Places
<1>8. \A v \in Workers : worker'[v].at = "settle" => worker'[v].outcome \in conf.outcomes
  BY <1>4, <1>6 DEF Typed
<1> QED BY <1>4, <1>6, <1>7, <1>8 DEF Moves

\* A worker that takes a message, begins a call or ends one gets a new record.
LEMMA RecordMoves ==
  ASSUME Typed, NEW w \in Workers,
         NEW r \in [at : Places, msg : Nat, outcome : {"none"} \cup Outcomes],
         r.at = "settle" => r.outcome \in conf.outcomes, worker' = [worker EXCEPT ![w] = r]
  PROVE  /\ Moves(w, worker[w].at, r.at) /\ worker'[w] = r
         /\ worker' \in Crews
         /\ \A v \in Workers : worker'[v].at = "settle" => worker'[v].outcome \in conf.outcomes
<1>1. worker \in Crews
  BY DEF Typed
<1>2. worker'[w] = r /\ \A v \in Workers : v # w => worker'[v] = worker[v]
  BY <1>1 DEF Crews
<1>3. worker' \in Crews
  BY <1>1 DEF Crews, Places
<1>4. \A v \in Workers : worker'[v].at = "settle" => worker'[v].outcome \in conf.outcomes
  BY <1>2 DEF Typed
<1> QED BY <1>2, <1>3, <1>4 DEF Moves

\* Worker w goes from x to y, keeping its record but for its place.
Goes(w, x, y) ==
  /\ Moves(w, x, y) /\ worker'[w].msg = worker[w].msg
  /\ worker' \in Crews
  /\ \A v \in Workers : worker'[v].at = "settle" => worker'[v].outcome \in conf.outcomes

\* Every step of a worker is a move of that worker between two places.
LEMMA WorkerMoves ==
  ASSUME TestsTyped, Typed, queue \subseteq Nat, NEW w \in Workers
  PROVE  /\ Take(w) => /\ Moves(w, "idle", "taken") /\ worker' \in Crews
                       /\ \A v \in Workers : worker'[v].at = "settle" =>
                                               worker'[v].outcome \in conf.outcomes
                       /\ worker'[w].msg \in queue /\ queue' = queue \ {worker'[w].msg}
         /\ Token(w) => Goes(w, "taken", "handle")
         /\ Cascade(w) => Goes(w, "handle", IF Live THEN "sent" ELSE "counting")
         /\ Counted(w) => Goes(w, "counting", "sent")
         /\ Sent(w) => Goes(w, "sent", "published")
         /\ \A outcome \in conf.outcomes : Return(w, outcome) =>
              Goes(w, worker[w].at, "settle")
         /\ Ack(w) => Goes(w, "settle", "end")
         /\ Requeue(w) => Goes(w, "settle", IF Live THEN "end" ELSE "requeued")
         /\ RequeueCounted(w) => Goes(w, "requeued", "dropping")
         /\ Dropped(w) => Goes(w, "dropping", "end")
         /\ Hold(w) => Goes(w, "settle", "held")
         /\ CopySettles(w) => Goes(w, "held", "copying")
         /\ CopySent(w) => Goes(w, "copying", IF Live THEN "copied" ELSE "copycount")
         /\ CopyCounted(w) => Goes(w, "copycount", "copied")
         /\ CopyRecorded(w) => Goes(w, "copied", "holding")
         /\ Release(w) => Goes(w, "holding", "end")
         /\ NackAfter(w) => Goes(w, "settle", "delayed")
         /\ Expect(w) => Goes(w, "delayed", "end")
         /\ End(w) => /\ Moves(w, "end", "idle") /\ worker' \in Crews
                      /\ \A v \in Workers : worker'[v].at = "settle" =>
                                              worker'[v].outcome \in conf.outcomes
<1>1. /\ "taken" \in Places /\ "handle" \in Places \ {"settle"} /\ "sent" \in Places \ {"settle"}
      /\ "counting" \in Places \ {"settle"} /\ "published" \in Places \ {"settle"}
      /\ "settle" \in Places /\ "end" \in Places \ {"settle"} /\ "requeued" \in Places \ {"settle"}
      /\ "dropping" \in Places \ {"settle"} /\ "held" \in Places \ {"settle"}
      /\ "copying" \in Places \ {"settle"} /\ "copied" \in Places \ {"settle"}
      /\ "copycount" \in Places \ {"settle"} /\ "holding" \in Places \ {"settle"}
      /\ "delayed" \in Places \ {"settle"} /\ "idle" \in Places
  BY DEF Places, Counts1, Owning, Unhandled
<1>2. ASSUME NEW x, NEW y \in Places \ {"settle"}, worker[w].at = x, Goto(w, y), conf' = conf
      PROVE  Goes(w, x, y)
  BY <1>2, GotoMoves DEF Goes
<1>3. Take(w) => /\ Moves(w, "idle", "taken") /\ worker' \in Crews
                 /\ \A v \in Workers : worker'[v].at = "settle" =>
                                         worker'[v].outcome \in conf.outcomes
                 /\ worker'[w].msg \in queue /\ queue' = queue \ {worker'[w].msg}
  <2> SUFFICES ASSUME Take(w)
               PROVE  /\ Moves(w, "idle", "taken") /\ worker' \in Crews
                      /\ \A v \in Workers : worker'[v].at = "settle" =>
                                              worker'[v].outcome \in conf.outcomes
                      /\ worker'[w].msg \in queue /\ queue' = queue \ {worker'[w].msg}
    OBVIOUS
  <2>1. PICK n \in queue :
          /\ queue' = queue \ {n}
          /\ worker' = [worker EXCEPT ![w] = [at |-> "taken", msg |-> n, outcome |-> "none"]]
    BY DEF Take
  <2>2. PICK r : r = [at |-> "taken", msg |-> n, outcome |-> "none"]
    OBVIOUS
  <2>3. /\ r \in [at : Places, msg : Nat, outcome : {"none"} \cup Outcomes]
        /\ r.at = "taken" /\ r.msg = n
    BY <1>1, <2>2
  <2>4. worker' = [worker EXCEPT ![w] = r] /\ worker[w].at = "idle"
    BY <2>1, <2>2 DEF Take
  <2>5. /\ Moves(w, worker[w].at, r.at) /\ worker'[w] = r /\ worker' \in Crews
        /\ \A v \in Workers : worker'[v].at = "settle" => worker'[v].outcome \in conf.outcomes
    BY <2>3, <2>4, RecordMoves
  <2> QED BY <2>1, <2>3, <2>4, <2>5
<1>4. End(w) => /\ Moves(w, "end", "idle") /\ worker' \in Crews
                /\ \A v \in Workers : worker'[v].at = "settle" =>
                                        worker'[v].outcome \in conf.outcomes
  <2> SUFFICES ASSUME End(w)
               PROVE  /\ Moves(w, "end", "idle") /\ worker' \in Crews
                      /\ \A v \in Workers : worker'[v].at = "settle" =>
                                              worker'[v].outcome \in conf.outcomes
    OBVIOUS
  <2>2. PICK r : r = [at |-> "idle", msg |-> 0, outcome |-> "none"]
    OBVIOUS
  <2>3. /\ r \in [at : Places, msg : Nat, outcome : {"none"} \cup Outcomes]
        /\ r.at = "idle"
    BY <1>1, <2>2
  <2>4. worker' = [worker EXCEPT ![w] = r] /\ worker[w].at = "end"
    BY <2>2 DEF End
  <2>5. r.at = "settle" => r.outcome \in conf.outcomes
    BY <2>3
  <2>6. /\ Moves(w, worker[w].at, r.at) /\ worker' \in Crews
        /\ \A v \in Workers : worker'[v].at = "settle" => worker'[v].outcome \in conf.outcomes
    BY <2>3, <2>4, <2>5, RecordMoves
  <2> QED BY <2>3, <2>4, <2>6
<1>5. ASSUME NEW outcome \in conf.outcomes, Return(w, outcome)
      PROVE  Goes(w, worker[w].at, "settle")
  <2>1. worker' = [worker EXCEPT ![w].at = "settle", ![w].outcome = outcome]
    BY <1>5 DEF Return
  <2>2. worker \in Crews /\ worker[w] \in [at : Places, msg : Nat, outcome : {"none"} \cup Outcomes]
    BY DEF Typed, Crews, Places
  <2>3. PICK r : r = [[worker[w] EXCEPT !.at = "settle"] EXCEPT !.outcome = outcome]
    OBVIOUS
  <2>4. worker' = [worker EXCEPT ![w] = r]
    BY <2>1, <2>2, <2>3 DEF Crews
  <2>5. outcome \in Outcomes
    BY DEF TestsTyped, Typed
  <2>6. /\ r \in [at : Places, msg : Nat, outcome : {"none"} \cup Outcomes]
        /\ r.at = "settle" /\ r.msg = worker[w].msg /\ r.outcome = outcome
    BY <1>1, <2>2, <2>3, <2>5
  <2>7. /\ Moves(w, worker[w].at, r.at) /\ worker'[w] = r /\ worker' \in Crews
        /\ \A v \in Workers : worker'[v].at = "settle" => worker'[v].outcome \in conf.outcomes
    BY <2>4, <2>6, RecordMoves
  <2> QED BY <2>6, <2>7 DEF Goes
<1>6. Live \in BOOLEAN
  BY DEF TestsTyped, Typed, Live
<1>7. /\ Token(w) => Goes(w, "taken", "handle")
      /\ Counted(w) => Goes(w, "counting", "sent")
      /\ Sent(w) => Goes(w, "sent", "published")
  BY <1>1, <1>2 DEF Token, Counted, Sent
<1>8. Cascade(w) => Goes(w, "handle", IF Live THEN "sent" ELSE "counting")
  BY <1>1, <1>2 DEF Cascade
<1>9. Ack(w) => Goes(w, "settle", "end")
  BY <1>1, <1>2 DEF Ack, Settling
<1>10. Requeue(w) => Goes(w, "settle", IF Live THEN "end" ELSE "requeued")
  BY <1>1, <1>2 DEF Requeue, Settling
<1>11. /\ RequeueCounted(w) => Goes(w, "requeued", "dropping")
       /\ Dropped(w) => Goes(w, "dropping", "end")
  BY <1>1, <1>2 DEF RequeueCounted, Dropped
<1>12. /\ Hold(w) => Goes(w, "settle", "held")
       /\ CopySettles(w) => Goes(w, "held", "copying")
  BY <1>1, <1>2 DEF Hold, CopySettles, Settling
<1>13. /\ CopySent(w) => Goes(w, "copying", IF Live THEN "copied" ELSE "copycount")
  BY <1>1, <1>2 DEF CopySent
<1>14. /\ CopyCounted(w) => Goes(w, "copycount", "copied")
       /\ CopyRecorded(w) => Goes(w, "copied", "holding")
       /\ Release(w) => Goes(w, "holding", "end")
  BY <1>1, <1>2 DEF CopyCounted, CopyRecorded, Release
<1>15. /\ NackAfter(w) => Goes(w, "settle", "delayed")
       /\ Expect(w) => Goes(w, "delayed", "end")
  BY <1>1, <1>2 DEF NackAfter, Expect, Settling
<1> QED
  BY <1>3, <1>4, <1>5, <1>7, <1>8, <1>9, <1>10, <1>11, <1>12, <1>13, <1>14, <1>15

\* No step changes the test that is considered.
LEMMA ConfStays ==
  ASSUME [Next]_vars
  PROVE  /\ conf' = conf /\ Workers' = Workers /\ Live' = Live /\ Crews' = Crews
<1>1. conf' = conf
  BY DEF Next, vars, WorkerStep, LoopEnds, TimerStep, SettleStep, Take, Token, Cascade, Counted,
     Sent, Return, Ack, Requeue, RequeueCounted, Dropped, Hold, CopySettles, CopySent, CopyCounted,
     CopyRecorded, Release, NackAfter, Expect, End, CloseQueue, DrainQueue, Fire, FireCounted,
     Redeliver, InjectCounted, RecordPublished, FiredDue, BeginStep, Enable, Load, Budget, ReadNow,
     ReadHandled, ReadPublished, ReadRunning, Notified, Inject, Advance, Sleep, FallDue, Deadline,
     Asserts, testVars
<1>2. Workers' = Workers /\ Live' = Live
  BY <1>1 DEF Workers, Live
<1> QED BY <1>1, <1>2 DEF Crews

\* The numbers issued are naturals, and finitely many.
LEMMA IssuedFacts ==
  ASSUME TestsTyped, Typed
  PROVE  Issued \subseteq Nat /\ IsFiniteSet(Issued)
<1>1. conf.tests \in Nat /\ made \in Nat /\ cascade \in Nat
  BY DEF TestsTyped, Typed
<1>2. Issued \subseteq Nat
  BY <1>1 DEF Issued
<1>3. IsFiniteSet(1 .. made) /\ IsFiniteSet(conf.tests + 1 .. conf.tests + cascade)
  <2>1. 1 \in Int /\ made \in Int /\ conf.tests + 1 \in Int /\ conf.tests + cascade \in Int
    BY <1>1
  <2> QED BY <2>1, FS_Interval
<1> QED BY <1>2, <1>3, FS_Union DEF Issued

\* Every step keeps the types.
LEMMA StepTyped ==
  ASSUME TestsTyped, Typed, queue \subseteq Nat, [Next]_vars
  PROVE  Typed'
<1>1. conf' = conf /\ Workers' = Workers /\ Live' = Live /\ Crews' = Crews
  BY ConfStays
<1>2. /\ conf \in Confs /\ in_flight \in Int
      /\ handled \in Nat /\ published \in Nat /\ expected \in Nat /\ due \in Nat
      /\ back \in Nat /\ cascade \in Nat /\ made \in 0 .. conf.tests
      /\ open \in BOOLEAN /\ cancelled \in BOOLEAN
      /\ worker \in Crews
      /\ \A w \in Workers : worker[w].at = "settle" => worker[w].outcome \in conf.outcomes
      /\ test \in (IF Live THEN LiveStages ELSE Stages)
      /\ saw \in [due : Nat, handled : Nat, owed : Nat]
  BY DEF Typed
<1>t. conf.tests \in Nat /\ Live \in BOOLEAN
  BY DEF TestsTyped, Typed, Live
<1>3. ASSUME /\ worker' \in Crews
             /\ \A v \in Workers : worker'[v].at = "settle" => worker'[v].outcome \in conf.outcomes,
             /\ in_flight' \in Int /\ handled' \in Nat /\ published' \in Nat /\ expected' \in Nat
             /\ due' \in Nat /\ back' \in Nat /\ cascade' \in Nat /\ made' \in 0 .. conf.tests
             /\ open' \in BOOLEAN /\ cancelled' \in BOOLEAN
             /\ test' \in (IF Live THEN LiveStages ELSE Stages)
             /\ saw' \in [due : Nat, handled : Nat, owed : Nat]
      PROVE  Typed'
  BY <1>1, <1>2, <1>3 DEF Typed
<1>4. ASSUME NEW w \in Workers, WorkerStep(w) PROVE Typed'
  <2>1. /\ worker' \in Crews
        /\ \A v \in Workers : worker'[v].at = "settle" => worker'[v].outcome \in conf.outcomes
    BY <1>4, WorkerMoves DEF WorkerStep, Goes
  <2>2. in_flight' \in Int
    BY <1>2, <1>4 DEF WorkerStep, Take, Token, Cascade, Counted,
       Sent, Return, Ack, Requeue, RequeueCounted, Dropped, Hold, CopySettles, CopySent,
       CopyCounted, CopyRecorded, Release, NackAfter, Expect, End, Enqueued, Consumed, DropMessage,
       countVars
  <2>3. /\ handled' \in Nat /\ published' \in Nat /\ expected' \in Nat /\ due' \in Nat
        /\ back' \in Nat
    BY <1>2, <1>4 DEF WorkerStep, Take, Token, Cascade, Counted,
       Sent, Return, Ack, Requeue, RequeueCounted, Dropped, Hold, CopySettles, CopySent,
       CopyCounted, CopyRecorded, Release, NackAfter, Expect, End, Publish, liveVars
  <2>4. cascade' \in Nat
    BY <1>2, <1>4 DEF WorkerStep, Take, Token, Cascade, Counted,
       Sent, Return, Ack, Requeue, RequeueCounted, Dropped, Hold, CopySettles, CopySent,
       CopyCounted, CopyRecorded, Release, NackAfter, Expect, End, msgVars
  <2>5. cancelled' \in BOOLEAN
    <3>1. CASE \E outcome \in conf.outcomes : Return(w, outcome)
      BY <3>1 DEF Return
    <3>2. CASE ~\E outcome \in conf.outcomes : Return(w, outcome)
      BY <1>2, <1>4, <3>2 DEF WorkerStep, Take, Token, Cascade, Counted,
         Sent, Ack, Requeue, RequeueCounted, Dropped, Hold, CopySettles, CopySent,
         CopyCounted, CopyRecorded, Release, NackAfter, Expect, End
    <3> QED BY <3>1, <3>2
  <2>6. UNCHANGED <<open, test, made, saw>>
    BY <1>4 DEF WorkerStep, Take, Token, Cascade, Counted,
       Sent, Return, Ack, Requeue, RequeueCounted, Dropped, Hold, CopySettles, CopySent,
       CopyCounted, CopyRecorded, Release, NackAfter, Expect, End, testVars
  <2> QED BY <1>2, <1>3, <2>1, <2>2, <2>3, <2>4, <2>5, <2>6
<1>5. CASE LoopEnds \/ TimerStep
  <2>1. in_flight' \in Int
    BY <1>2, <1>5 DEF LoopEnds, TimerStep, CloseQueue, DrainQueue, Fire, FireCounted, Redeliver,
       Enqueued, Consumed, countVars
  <2>2. UNCHANGED <<handled, published, expected, due, cascade, cancelled, worker, made, saw, test>>
    BY <1>5 DEF LoopEnds, TimerStep, CloseQueue, DrainQueue, Fire, FireCounted, Redeliver,
       liveVars, msgVars, testVars
  <2>3. back' \in Nat
    BY <1>2, <1>5 DEF LoopEnds, TimerStep, CloseQueue, DrainQueue, Fire, FireCounted, Redeliver,
       liveVars
  <2>4. open' \in BOOLEAN
    BY <1>2, <1>5 DEF LoopEnds, TimerStep, CloseQueue, DrainQueue, Fire, FireCounted, Redeliver
  <2> QED BY <1>2, <1>3, <2>1, <2>2, <2>3, <2>4
<1>6. CASE SettleStep \/ Inject \/ Advance \/ Sleep \/ FallDue \/ Deadline \/ Asserts
          \/ UNCHANGED vars
  <2>1. /\ in_flight' \in Int /\ published' \in Nat /\ expected' \in Nat /\ due' \in Nat
        /\ UNCHANGED <<handled, back, cascade, open, cancelled, worker>>
    BY <1>2, <1>6 DEF SettleStep, InjectCounted, RecordPublished, FiredDue, BeginStep, Enable, Load,
       Budget, ReadNow, ReadHandled, ReadPublished, ReadRunning, Notified, Inject, Advance, Sleep,
       FallDue, Deadline, Asserts, vars, countVars, liveVars, msgVars, Enqueued, Publish, testVars
  <2>2. made' \in 0 .. conf.tests
    BY <1>2, <1>t, <1>6 DEF SettleStep, InjectCounted, RecordPublished, FiredDue, BeginStep, Enable,
       Load, Budget, ReadNow, ReadHandled, ReadPublished, ReadRunning, Notified, Inject, Advance,
       Sleep, FallDue, Deadline, Asserts, vars, testVars
  <2>3. saw' \in [due : Nat, handled : Nat, owed : Nat]
    <3>1. CASE ReadNow
      BY <1>2, <3>1 DEF ReadNow
    <3>2. CASE ReadHandled
      BY <1>2, <3>2 DEF ReadHandled
    <3>3. CASE ReadPublished
      <4>1. published + saw.due \in Nat /\ saw' = [saw EXCEPT !.owed = published + saw.due]
        BY <1>2, <3>3 DEF ReadPublished
      <4> QED BY <1>2, <4>1
    <3>4. CASE ~(ReadNow \/ ReadHandled \/ ReadPublished)
      BY <1>2, <1>6, <3>4 DEF SettleStep, InjectCounted, RecordPublished, FiredDue, BeginStep,
         Enable, Load, Budget, ReadRunning, Notified, Inject, Advance, Sleep, FallDue, Deadline,
         Asserts, vars, testVars
    <3> QED BY <3>1, <3>2, <3>3, <3>4
  <2>4. test' \in (IF Live THEN LiveStages ELSE Stages)
    <3>1. CASE Live
      BY <1>2, <3>1, <1>6 DEF SettleStep, InjectCounted, RecordPublished, FiredDue, BeginStep,
         Enable, Load, Budget, ReadNow, ReadHandled, ReadPublished, ReadRunning, Notified, Inject,
         Advance, Sleep, FallDue, Deadline, Asserts, vars, TestGoto, LiveStages, testVars
    <3>2. CASE ~Live
      BY <1>2, <3>2, <1>6 DEF SettleStep, InjectCounted, RecordPublished, FiredDue, BeginStep,
         Enable, Load, Budget, ReadNow, ReadHandled, ReadPublished, ReadRunning, Notified, Inject,
         Advance, Sleep, FallDue, Deadline, Asserts, vars, TestGoto, Stages, testVars
    <3> QED BY <3>1, <3>2
  <2> QED BY <1>2, <1>3, <2>1, <2>2, <2>3, <2>4
<1> QED BY <1>4, <1>5, <1>6 DEF Next

\* The steps of a worker that leave the queue, the timers and the numbers as they are.
InPlace(w) ==
  \/ Token(w) \/ Counted(w) \/ Sent(w) \/ \E outcome \in conf.outcomes : Return(w, outcome)
  \/ Ack(w) \/ RequeueCounted(w) \/ Dropped(w) \/ Hold(w) \/ CopySettles(w) \/ CopyCounted(w)
  \/ CopyRecorded(w) \/ Release(w) \/ Expect(w) \/ End(w)

\* Such a step changes one worker, which keeps the message it has or lets go of it.
LEMMA InPlaceFacts ==
  ASSUME TestsTyped, Typed, queue \subseteq Nat, NEW w \in Workers, InPlace(w)
  PROVE  /\ UNCHANGED <<queue, timers, firing, fired, cascade, made>>
         /\ \A v \in Workers : v # w => worker'[v] = worker[v]
         /\ worker'[w].at \in Owning => worker[w].at \in Owning /\ worker'[w].msg = worker[w].msg
         /\ worker'[w].at \in Unhandled => worker[w].at \in Unhandled
<1>1. UNCHANGED <<queue, timers, firing, fired, cascade, made>>
  BY DEF InPlace, Token, Counted, Sent, Return, Ack, RequeueCounted, Dropped, Hold, CopySettles,
     CopyCounted, CopyRecorded, Release, Expect, End, msgVars, testVars
<1>2. \E x, y : Moves(w, x, y)
  BY WorkerMoves DEF InPlace, Goes
<1>3. /\ worker'[w].at \in Owning => worker[w].at \in Owning /\ worker'[w].msg = worker[w].msg
      /\ worker'[w].at \in Unhandled => worker[w].at \in Unhandled
  <2>1. CASE \E outcome \in conf.outcomes : Return(w, outcome)
    BY <2>1, WorkerMoves DEF Return, Goes, Moves, Owning, Unhandled
  <2>2. CASE ~\E outcome \in conf.outcomes : Return(w, outcome)
    BY <2>2, WorkerMoves DEF InPlace, Goes, Moves, Owning, Unhandled
  <2> QED BY <2>1, <2>2
<1> QED BY <1>1, <1>2, <1>3 DEF Moves

\* Every step keeps each message in one place.
LEMMA StepOnePlace ==
  ASSUME TestsTyped, Typed, OnePlace, [Next]_vars
  PROVE  OnePlace'
<1>1. conf' = conf /\ Workers' = Workers
  BY ConfStays
<1>2. /\ queue \subseteq Issued /\ timers \subseteq Issued /\ firing \subseteq Issued
      /\ queue \cap timers = {} /\ queue \cap firing = {} /\ timers \cap firing = {}
      /\ \A w \in Workers : worker[w].at \in Owning =>
           worker[w].msg \in Issued /\ worker[w].msg \notin queue \cup timers \cup firing
      /\ \A v, w \in Workers : /\ worker[v].at \in Owning /\ worker[w].at \in Owning
                               /\ worker[v].msg = worker[w].msg
                               => v = w
  BY DEF OnePlace, Messages, Standing
<1>3. ASSUME /\ queue' \subseteq Issued' /\ timers' \subseteq Issued' /\ firing' \subseteq Issued'
             /\ queue' \cap timers' = {} /\ queue' \cap firing' = {} /\ timers' \cap firing' = {}
             /\ \A w \in Workers : worker'[w].at \in Owning =>
                  /\ worker'[w].msg \in Issued' /\ worker'[w].msg \notin queue' \cup timers'
                  /\ worker'[w].msg \notin firing'
             /\ \A v, w \in Workers : /\ worker'[v].at \in Owning /\ worker'[w].at \in Owning
                                      /\ worker'[v].msg = worker'[w].msg
                                      => v = w
      PROVE  OnePlace'
  BY <1>1, <1>3 DEF OnePlace, Messages, Standing
<1>4. Issued \subseteq Nat /\ queue \subseteq Nat
  BY <1>2, IssuedFacts
<1>5. UNCHANGED <<cascade, made>> => Issued' = Issued
  BY <1>1 DEF Issued
<1>t. conf.tests \in Nat /\ made \in 0 .. conf.tests /\ cascade \in Nat
  BY DEF TestsTyped, Typed
<1>6. ASSUME NEW w \in Workers, WorkerStep(w) PROVE OnePlace'
  <2>1. CASE InPlace(w)
    <3>1. /\ UNCHANGED <<queue, timers, firing, cascade, made>>
          /\ \A v \in Workers : v # w => worker'[v] = worker[v]
          /\ worker'[w].at \in Owning => worker[w].at \in Owning /\ worker'[w].msg = worker[w].msg
      BY <1>4, <2>1, InPlaceFacts
    <3>2. \A v \in Workers : worker'[v].at \in Owning =>
                               worker[v].at \in Owning /\ worker'[v].msg = worker[v].msg
      BY <3>1
    <3> QED BY <1>2, <1>3, <1>5, <3>1, <3>2
  <2>2. CASE Take(w)
    <3>1. /\ worker'[w].msg \in queue /\ queue' = queue \ {worker'[w].msg}
          /\ \A v \in Workers : v # w => worker'[v] = worker[v]
      BY <1>4, <2>2, WorkerMoves DEF Moves
    <3>2. UNCHANGED <<timers, firing, cascade, made>>
      BY <2>2 DEF Take, testVars
    <3> QED BY <1>2, <1>3, <1>5, <3>1, <3>2
  <2>3. CASE Cascade(w)
    <3>1. /\ \A v \in Workers : v # w => worker'[v] = worker[v]
          /\ worker[w].at \in Owning /\ worker'[w].msg = worker[w].msg
      BY <1>4, <2>3, WorkerMoves DEF Goes, Moves, Owning, Unhandled
    <3>2. PICK n : n = conf.tests + cascade + 1
      OBVIOUS
    <3>3. /\ queue' = queue \cup {n} /\ UNCHANGED <<timers, firing, made>>
          /\ cascade' = cascade + 1
      BY <2>3, <3>2 DEF Cascade, testVars
    <3>4. n \notin Issued /\ Issued' = Issued \cup {n}
      BY <1>1, <1>t, <3>2, <3>3 DEF Issued
    <3>5. \A v \in Workers : worker'[v].at \in Owning =>
                               worker[v].at \in Owning /\ worker'[v].msg = worker[v].msg
      BY <3>1
    <3>6. \A v \in Workers : worker[v].at \in Owning => worker[v].msg # n
      BY <1>2, <3>4
    <3>7. n \notin timers /\ n \notin firing
      BY <1>2, <3>4
    <3> HIDE DEF Issued
    <3>8. /\ queue' \subseteq Issued' /\ timers' \subseteq Issued' /\ firing' \subseteq Issued'
          /\ queue' \cap timers' = {} /\ queue' \cap firing' = {} /\ timers' \cap firing' = {}
      BY <1>2, <3>3, <3>4, <3>7
    <3>9. \A v \in Workers : worker'[v].at \in Owning =>
            /\ worker'[v].msg \in Issued' /\ worker'[v].msg \notin queue' \cup timers'
            /\ worker'[v].msg \notin firing'
      BY <1>2, <3>3, <3>4, <3>5, <3>6
    <3> QED BY <1>2, <1>3, <3>5, <3>8, <3>9
  <2>4. CASE Requeue(w) \/ CopySent(w)
    <3>1. /\ \A v \in Workers : v # w => worker'[v] = worker[v]
          /\ worker[w].at \in Owning /\ worker'[w].at \notin Owning
      BY <1>4, <2>4, WorkerMoves DEF Goes, Moves, Owning, Unhandled
    <3>2. queue' = queue \cup {worker[w].msg} /\ UNCHANGED <<timers, firing, cascade, made>>
      BY <2>4 DEF Requeue, CopySent, testVars
    <3> QED BY <1>2, <1>3, <1>5, <3>1, <3>2
  <2>5. CASE NackAfter(w)
    <3>1. /\ \A v \in Workers : v # w => worker'[v] = worker[v]
          /\ worker[w].at \in Owning /\ worker'[w].at \notin Owning
      BY <1>4, <2>5, WorkerMoves DEF Goes, Moves, Owning, Unhandled
    <3>2. timers' = timers \cup {worker[w].msg} /\ UNCHANGED <<queue, firing, cascade, made>>
      BY <2>5 DEF NackAfter, testVars
    <3> QED BY <1>2, <1>3, <1>5, <3>1, <3>2
  <2> QED BY <1>6, <2>1, <2>2, <2>3, <2>4, <2>5 DEF WorkerStep, InPlace
<1>7. CASE LoopEnds \/ TimerStep
  <2>1. UNCHANGED <<worker, cascade, made>>
    BY <1>7 DEF LoopEnds, TimerStep, CloseQueue, DrainQueue, Fire, FireCounted, Redeliver, msgVars,
       testVars
  <2>2. CASE Fire
    <3>1. PICK n \in firing : /\ firing' = firing \ {n}
                              /\ queue' = queue \/ queue' = queue \cup {n}
      BY <2>2 DEF Fire
    <3>2. timers' = timers
      BY <2>2 DEF Fire
    <3> QED BY <1>2, <1>3, <1>5, <2>1, <3>1, <3>2
  <2>3. CASE Redeliver
    <3>1. PICK n \in timers : timers' = timers \ {n} /\ queue' = queue \cup {n}
      BY <2>3 DEF Redeliver
    <3>2. firing' = firing
      BY <2>3 DEF Redeliver
    <3> QED BY <1>2, <1>3, <1>5, <2>1, <3>1, <3>2
  <2>4. ASSUME LoopEnds \/ FireCounted PROVE OnePlace'
    <3>1. UNCHANGED <<timers, firing>> /\ queue' \subseteq queue
      BY <2>4 DEF LoopEnds, CloseQueue, DrainQueue, FireCounted, msgVars
    <3> QED BY <1>2, <1>3, <1>5, <2>1, <3>1
  <2> QED BY <1>7, <2>2, <2>3, <2>4 DEF TimerStep
<1>8. CASE Inject
  <2>1. PICK n : n = made + 1
    OBVIOUS
  <2>2. /\ queue' = queue \cup {n} /\ made' = made + 1 /\ made < conf.tests
        /\ UNCHANGED <<worker, timers, firing, cascade>>
    BY <1>8, <2>1 DEF Inject
  <2>3. n \notin Issued /\ Issued' = Issued \cup {n}
    BY <1>1, <1>t, <2>1, <2>2 DEF Issued
  <2>4. \A v \in Workers : worker[v].at \in Owning => worker[v].msg # n
    BY <1>2, <2>3
  <2>5. n \notin timers /\ n \notin firing
    BY <1>2, <2>3
  <2> QED BY <1>2, <1>3, <2>2, <2>3, <2>4, <2>5
<1>9. CASE Advance
  <2>1. /\ firing' = firing \cup timers /\ timers' = {}
        /\ UNCHANGED <<worker, queue, cascade, made>>
    BY <1>9 DEF Advance
  <2> QED BY <1>2, <1>3, <1>5, <2>1
<1>10. CASE SettleStep \/ Sleep \/ FallDue \/ Deadline \/ Asserts \/ UNCHANGED vars
  <2>1. UNCHANGED <<worker, queue, timers, firing, cascade, made>>
    BY <1>10 DEF SettleStep, InjectCounted, RecordPublished, FiredDue, BeginStep, Enable, Load,
       Budget, ReadNow, ReadHandled, ReadPublished, ReadRunning, Notified, Sleep, FallDue, Deadline,
       Asserts, vars, msgVars, testVars
  <2> QED BY <1>2, <1>3, <1>5, <2>1
<1> QED BY <1>6, <1>7, <1>8, <1>9, <1>10 DEF Next

\* No step loses a message no handler got.
LEMMA StepFollowed ==
  ASSUME TestsTyped, Typed, OnePlace, Followed, [Next]_vars
  PROVE  Followed'
<1>1. conf' = conf /\ Workers' = Workers
  BY ConfStays
<1>2. queue \subseteq Nat
  BY IssuedFacts DEF OnePlace
<1>3. /\ open \/ cancelled
      /\ cancelled \/ \A n \in Issued : \/ n \in seen \cup queue
                                        \/ \E w \in Workers : /\ worker[w].at \in Unhandled
                                                              /\ worker[w].msg = n
  BY DEF Followed, Messages, Standing
<1>4. ASSUME open' \/ cancelled',
             ~cancelled' => \A n \in Issued' : \/ n \in seen' \cup queue'
                                               \/ \E w \in Workers : /\ worker'[w].at \in Unhandled
                                                                     /\ worker'[w].msg = n
      PROVE  Followed'
  BY <1>1, <1>4 DEF Followed, Messages, Standing
<1>5. UNCHANGED <<cascade, made>> => Issued' = Issued
  BY <1>1 DEF Issued
<1>t. conf.tests \in Nat /\ made \in 0 .. conf.tests /\ cascade \in Nat
  BY DEF TestsTyped, Typed
<1>6. ASSUME NEW w \in Workers, WorkerStep(w) PROVE Followed'
  <2>0. UNCHANGED <<open, made>> /\ (cancelled => cancelled')
    <3>1. CASE \E outcome \in conf.outcomes : Return(w, outcome)
      <4>1. PICK outcome \in conf.outcomes : Return(w, outcome)
        BY <3>1
      <4>2. UNCHANGED <<open, made>>
        BY <4>1 DEF Return, testVars
      <4>3. cancelled => cancelled'
        BY <4>1, Zenon DEF Return
      <4> QED BY <4>2, <4>3
    <3>2. CASE ~\E outcome \in conf.outcomes : Return(w, outcome)
      <4>1. UNCHANGED <<open, made, cancelled>>
        BY <1>6, <3>2 DEF WorkerStep, Take, Token, Cascade, Counted,
           Sent, Ack, Requeue, RequeueCounted, Dropped, Hold, CopySettles, CopySent,
           CopyCounted, CopyRecorded, Release, NackAfter, Expect, End, testVars
      <4> QED BY <4>1
    <3> QED BY <3>1, <3>2
  <2>1. CASE \E outcome \in conf.outcomes : Return(w, outcome)
    <3>1. /\ \A v \in Workers : v # w => worker'[v] = worker[v]
          /\ UNCHANGED <<queue, cascade>> /\ seen' = seen \cup {worker[w].msg}
      BY <1>2, <2>1, WorkerMoves DEF Goes, Moves, Return, msgVars
    <3> QED BY <1>3, <1>4, <1>5, <2>0, <3>1
  <2>2. CASE Token(w) \/ Counted(w) \/ Sent(w)
    <3>1. /\ \A v \in Workers : v # w => worker'[v] = worker[v]
          /\ worker'[w].at \in Unhandled /\ worker'[w].msg = worker[w].msg
      BY <1>2, <2>2, WorkerMoves DEF Goes, Moves, Unhandled
    <3>2. UNCHANGED <<queue, cascade, seen>>
      BY <2>2 DEF Token, Counted, Sent, msgVars
    <3> QED BY <1>3, <1>4, <1>5, <2>0, <3>1, <3>2
  <2>3. CASE Take(w)
    <3>1. /\ \A v \in Workers : v # w => worker'[v] = worker[v]
          /\ worker[w].at \notin Unhandled /\ worker'[w].at \in Unhandled
          /\ queue' = queue \ {worker'[w].msg}
      BY <1>2, <2>3, WorkerMoves DEF Moves, Unhandled
    <3>2. UNCHANGED <<cascade, seen>>
      BY <2>3 DEF Take
    <3> QED BY <1>3, <1>4, <1>5, <2>0, <3>1, <3>2
  <2>4. CASE Cascade(w)
    <3>1. /\ \A v \in Workers : v # w => worker'[v] = worker[v]
          /\ worker'[w].at \in Unhandled /\ worker'[w].msg = worker[w].msg
      BY <1>2, <2>4, WorkerMoves DEF Goes, Moves, Unhandled
    <3>2. PICK n : n = conf.tests + cascade + 1
      OBVIOUS
    <3>3. /\ queue' = queue \cup {n} /\ cascade' = cascade + 1 /\ seen' = seen
      BY <2>4, <3>2 DEF Cascade
    <3>4. Issued' = Issued \cup {n}
      BY <1>1, <1>t, <2>0, <3>2, <3>3 DEF Issued
    <3>5. \A v \in Workers : worker[v].at \in Unhandled =>
                               worker'[v].at \in Unhandled /\ worker'[v].msg = worker[v].msg
      BY <3>1
    <3> QED BY <1>3, <1>4, <2>0, <3>3, <3>4, <3>5
  <2>5. ASSUME \/ Ack(w) \/ Requeue(w) \/ RequeueCounted(w) \/ Dropped(w)
               \/ Hold(w) \/ CopySettles(w) \/ CopySent(w) \/ CopyCounted(w) \/ CopyRecorded(w)
               \/ Release(w) \/ NackAfter(w) \/ Expect(w) \/ End(w)
        PROVE  Followed'
    <3>1. /\ \A v \in Workers : v # w => worker'[v] = worker[v]
          /\ worker[w].at \notin Unhandled
      BY <1>2, <2>5, WorkerMoves DEF Goes, Moves, Unhandled
    <3>2. queue \subseteq queue' /\ UNCHANGED <<cascade, seen>>
      BY <2>5 DEF Ack, Requeue, RequeueCounted, Dropped, Hold, CopySettles, CopySent,
         CopyCounted, CopyRecorded, Release, NackAfter, Expect, End, msgVars
    <3> QED BY <1>3, <1>4, <1>5, <2>0, <3>1, <3>2
  <2> QED BY <1>6, <2>1, <2>2, <2>3, <2>4, <2>5 DEF WorkerStep
<1>7. CASE LoopEnds \/ TimerStep
  <2>1. /\ UNCHANGED <<worker, cascade, made, seen, cancelled>> /\ (open' \/ cancelled)
        /\ cancelled \/ queue \subseteq queue'
    BY <1>3, <1>7 DEF LoopEnds, TimerStep, CloseQueue, DrainQueue, Fire, FireCounted, Redeliver,
       msgVars, testVars
  <2> QED BY <1>3, <1>4, <1>5, <2>1
<1>8. CASE Inject
  <2>1. PICK n : n = made + 1
    OBVIOUS
  <2>2. /\ queue' = queue \cup {n} /\ made' = made + 1
        /\ UNCHANGED <<worker, cascade, seen, open, cancelled>>
    BY <1>8, <2>1 DEF Inject
  <2>3. Issued' = Issued \cup {n}
    BY <1>1, <1>t, <2>1, <2>2 DEF Issued
  <2> QED BY <1>3, <1>4, <2>2, <2>3
<1>9. CASE Advance \/ SettleStep \/ Sleep \/ FallDue \/ Deadline \/ Asserts \/ UNCHANGED vars
  <2>1. UNCHANGED <<worker, queue, cascade, made, seen, open, cancelled>>
    BY <1>9 DEF Advance, SettleStep, InjectCounted, RecordPublished, FiredDue, BeginStep, Enable,
       Load, Budget, ReadNow, ReadHandled, ReadPublished, ReadRunning, Notified, Sleep, FallDue,
       Deadline, Asserts, vars, msgVars, testVars
  <2> QED BY <1>3, <1>4, <1>5, <2>1
<1> QED BY <1>6, <1>7, <1>8, <1>9 DEF Next

\* The test's task keeps its place while others run.
LEMMA TestWaits ==
  ASSUME (\E w \in Workers : WorkerStep(w)) \/ LoopEnds \/ TimerStep
  PROVE  UNCHANGED <<test, made, saw>>
BY DEF WorkerStep, Take, Token, Cascade, Counted,
   Sent, Return, Ack, Requeue, RequeueCounted, Dropped, Hold, CopySettles, CopySent,
   CopyCounted, CopyRecorded, Release, NackAfter, Expect, End, testVars, liveVars, LoopEnds,
   TimerStep, CloseQueue, DrainQueue, Fire, FireCounted, Redeliver

\* Every step keeps what is known of the timers that fire.
LEMMA StepFires ==
  ASSUME TestsTyped, Typed, OnePlace, Fires, test = "idle" => Settled, [Next]_vars
  PROVE  Fires'
<1>1. conf' = conf /\ Live' = Live
  BY ConfStays
<1>2. Issued \subseteq Issued'
  <2>1. conf.tests \in Nat /\ made \in Nat /\ cascade \in Nat
    BY DEF TestsTyped, Typed
  <2>2. (made' = made \/ made' = made + 1) /\ (cascade' = cascade \/ cascade' = cascade + 1)
    BY DEF Next, vars, WorkerStep, LoopEnds, TimerStep, SettleStep, Take, Token, Cascade, Counted,
       Sent, Return, Ack, Requeue, RequeueCounted, Dropped, Hold, CopySettles, CopySent,
       CopyCounted, CopyRecorded, Release, NackAfter, Expect, End, CloseQueue, DrainQueue, Fire,
       FireCounted, Redeliver, InjectCounted, RecordPublished, FiredDue, BeginStep, Enable, Load,
       Budget, ReadNow, ReadHandled, ReadPublished, ReadRunning, Notified, Inject, Advance, Sleep,
       FallDue, Deadline, Asserts, msgVars, testVars
  <2> QED BY <1>1, <2>1, <2>2 DEF Issued
<1>3. firing \subseteq Issued
  BY DEF OnePlace
<1>4. ASSUME \E w \in Workers : WorkerStep(w) PROVE Fires'
  <2>1. UNCHANGED <<firing, fired, test>>
    BY <1>4 DEF WorkerStep, Take, Token, Cascade, Counted,
       Sent, Return, Ack, Requeue, RequeueCounted, Dropped, Hold, CopySettles, CopySent,
       CopyCounted, CopyRecorded, Release, NackAfter, Expect, End, testVars, msgVars
  <2> QED BY <1>1, <1>2, <2>1 DEF Fires
<1>5. CASE Fire
  <2>1. PICK n \in firing : /\ firing' = firing \ {n}
                            /\ fired' = IF open THEN fired \cup {n} ELSE fired
    BY <1>5 DEF Fire
  <2>2. test' = test
    BY <1>5 DEF Fire, testVars
  <2> QED BY <1>1, <1>2, <1>3, <2>1, <2>2 DEF Fires
<1>6. CASE FireCounted \/ Redeliver
  <2>1. firing' = firing /\ fired' \subseteq fired /\ test' = test
    BY <1>6 DEF FireCounted, Redeliver, testVars
  <2> QED BY <1>1, <1>2, <2>1 DEF Fires
<1>7. CASE LoopEnds
  <2>1. UNCHANGED <<firing, fired, test>>
    BY <1>7 DEF LoopEnds, CloseQueue, DrainQueue, testVars, msgVars
  <2> QED BY <1>1, <1>2, <2>1 DEF Fires
<1>8. CASE Advance
  <2>1. /\ firing' = firing \cup timers /\ fired' = fired /\ test' = "fire" /\ test = "idle"
        /\ ~Live
    BY <1>8 DEF Advance, TestGoto
  <2>2. fired = {}
    BY <2>1 DEF Settled, Still
  <2> QED BY <1>1, <2>1, <2>2 DEF Fires
<1>9. CASE FiredDue
  <2>1. UNCHANGED <<firing, fired>> /\ firing \cup fired = {}
    BY <1>9 DEF FiredDue, msgVars
  <2> QED BY <1>1, <1>2, <2>1 DEF Fires
<1>10. ASSUME ~FiredDue,
              Inject \/ SettleStep \/ Sleep \/ FallDue \/ Deadline \/ Asserts \/ UNCHANGED vars
       PROVE  Fires'
  <2>1. UNCHANGED <<firing, fired>> /\ (test' = test \/ test # "fire")
    BY <1>10 DEF Inject, SettleStep, InjectCounted, RecordPublished, BeginStep, Enable, Load,
       Budget, ReadNow, ReadHandled, ReadPublished, ReadRunning, Notified, Sleep, FallDue, Deadline,
       Asserts, vars, msgVars, TestGoto, testVars
  <2> QED BY <1>1, <1>2, <2>1 DEF Fires
<1> QED BY <1>4, <1>5, <1>6, <1>7, <1>8, <1>9, <1>10 DEF Next, TimerStep, SettleStep

\* Adding a new element or taking one away changes a size by one.
LEMMA SizeOf ==
  ASSUME NEW S, IsFiniteSet(S)
  PROVE  /\ Cardinality(S) \in Nat
         /\ \A n : n \notin S => Cardinality(S \cup {n}) = Cardinality(S) + 1
         /\ \A n \in S : Cardinality(S \ {n}) = Cardinality(S) - 1
         /\ Cardinality(S) = 0 <=> S = {}
<1>1. Cardinality(S) \in Nat
  BY FS_CardinalityType
<1>2. \A n : n \notin S => Cardinality(S \cup {n}) = Cardinality(S) + 1
  BY FS_AddElement
<1>3. \A n \in S : Cardinality(S \ {n}) = Cardinality(S) - 1
  BY FS_RemoveElement
<1>4. Cardinality(S) = 0 <=> S = {}
  BY FS_EmptySet
<1> QED BY <1>1, <1>2, <1>3, <1>4

\* What is queued, delayed or about to fire can be counted.
LEMMA PlacesFinite ==
  ASSUME TestsTyped, Typed, OnePlace, Fires
  PROVE  /\ IsFiniteSet(queue) /\ IsFiniteSet(timers) /\ IsFiniteSet(firing) /\ IsFiniteSet(fired)
         /\ queue \subseteq Nat
<1>1. IsFiniteSet(Issued) /\ Issued \subseteq Nat
  BY IssuedFacts
<1>2. queue \subseteq Issued /\ timers \subseteq Issued /\ firing \subseteq Issued
      /\ fired \subseteq Issued
  BY DEF OnePlace, Fires
<1> QED BY <1>1, <1>2, FS_Subset

\* In process, every step keeps in_flight the count of what is on its way.
LEMMA StepInFlight ==
  ASSUME TestsTyped, Typed, OnePlace, Fires, ~Live, InFlight, test = "idle" => Settled, [Next]_vars
  PROVE  InFlight'
<1>1. conf' = conf /\ Workers' = Workers
  BY ConfStays
<1>2. Carried(worker)' = Carried(worker')
  BY <1>1 DEF Carried, Number, Standing
<1>3. /\ IsFiniteSet(queue) /\ IsFiniteSet(timers) /\ IsFiniteSet(firing) /\ IsFiniteSet(fired)
      /\ queue \subseteq Nat
  BY PlacesFinite
<1>4. /\ Cardinality(queue) \in Nat
      /\ \A n : n \notin queue => Cardinality(queue \cup {n}) = Cardinality(queue) + 1
      /\ \A n \in queue : Cardinality(queue \ {n}) = Cardinality(queue) - 1
  BY <1>3, SizeOf
<1>5. /\ Cardinality(fired) \in Nat
      /\ \A n : n \notin fired => Cardinality(fired \cup {n}) = Cardinality(fired) + 1
      /\ \A n \in fired : Cardinality(fired \ {n}) = Cardinality(fired) - 1
  BY <1>3, SizeOf
<1>6. /\ in_flight = Cardinality(queue) - Cardinality(fired) - One(test = "count")
                       + Carried(worker)
      /\ One(test = "count") \in Int /\ Carried(worker) \in Nat
  <2>1. Carried(worker) \in Nat
    BY CrewFinite DEF Carried
  <2> QED BY <2>1 DEF InFlight, One
<1>7. ASSUME in_flight' = Cardinality(queue') - Cardinality(fired') - One(test' = "count")
                            + Carried(worker')
      PROVE  InFlight'
  BY <1>2, <1>7 DEF InFlight, One
<1>8. ASSUME NEW w \in Workers, WorkerStep(w) PROVE InFlight'
  <2>0. UNCHANGED <<test, fired>>
    BY <1>8 DEF WorkerStep, Take, Token, Cascade, Counted,
       Sent, Return, Ack, Requeue, RequeueCounted, Dropped, Hold, CopySettles, CopySent,
       CopyCounted, CopyRecorded, Release, NackAfter, Expect, End, testVars, msgVars
  <2>1. \A x, y : Moves(w, x, y) =>
          Carried(worker') \in Nat /\ Carried(worker') = Carried(worker) + Weight(y) - Weight(x)
    BY CarriedMoves
  <2>c. \A x, y : Goes(w, x, y) =>
          Carried(worker') \in Nat /\ Carried(worker') = Carried(worker) + Weight(y) - Weight(x)
    BY <2>1 DEF Goes
  <2>2. ASSUME in_flight' - in_flight
                 = (Cardinality(queue') - Cardinality(queue))
                     + (Carried(worker') - Carried(worker)),
               in_flight' \in Int, Cardinality(queue') \in Int, Carried(worker') \in Int
        PROVE  InFlight'
    <3>1. in_flight' = Cardinality(queue') - Cardinality(fired') - One(test' = "count")
                            + Carried(worker')
      BY <1>4, <1>5, <1>6, <2>0, <2>2
    <3> QED BY <1>7, <3>1
  <2>i. in_flight \in Int
    BY DEF Typed
  <2>3. CASE Take(w)
    <3>1. /\ Moves(w, "idle", "taken")
          /\ worker'[w].msg \in queue /\ queue' = queue \ {worker'[w].msg}
      BY <1>3, <2>3, WorkerMoves
    <3>2. Cardinality(queue') = Cardinality(queue) - 1
      BY <1>4, <3>1
    <3>3. in_flight' = in_flight
      BY <2>3 DEF Take, countVars
    <3>4. Carried(worker') \in Nat /\ Carried(worker') = Carried(worker) + 1
      BY <1>6, <2>1, <3>1, Weights
    <3> QED BY <1>4, <1>6, <2>2, <2>i, <3>2, <3>3, <3>4
  <2>4. CASE Cascade(w)
    <3>1. Goes(w, "handle", "counting")
      BY <1>3, <2>4, WorkerMoves
    <3>2. conf.tests + cascade + 1 \notin queue
      <4>1. conf.tests \in Nat /\ made \in 0 .. conf.tests /\ cascade \in Nat
        BY DEF TestsTyped, Typed
      <4> QED BY <4>1 DEF OnePlace, Issued
    <3>3. in_flight' = in_flight /\ queue' = queue \cup {conf.tests + cascade + 1}
      BY <2>4 DEF Cascade, countVars
    <3>4. Carried(worker') \in Nat /\ Carried(worker') = Carried(worker) - 1
      BY <1>6, <2>c, <3>1, Weights
    <3>5. Cardinality(queue') = Cardinality(queue) + 1
      BY <1>4, <3>2, <3>3
    <3> QED BY <1>4, <1>6, <2>2, <2>i, <3>3, <3>4, <3>5
  <2>5. CASE Requeue(w) \/ CopySent(w)
    <3>1. Goes(w, "settle", "requeued") \/ Goes(w, "copying", "copycount")
      BY <1>3, <2>5, WorkerMoves
    <3>2. worker[w].msg \notin queue
      BY <3>1 DEF Goes, Moves, OnePlace, Standing, Owning
    <3>3. in_flight' = in_flight /\ queue' = queue \cup {worker[w].msg}
      BY <2>5 DEF Requeue, CopySent, countVars
    <3>4. Carried(worker') \in Nat /\ Carried(worker') = Carried(worker) - 1
      BY <1>6, <2>c, <3>1, Weights
    <3>5. Cardinality(queue') = Cardinality(queue) + 1
      BY <1>4, <3>2, <3>3
    <3> QED BY <1>4, <1>6, <2>2, <2>i, <3>3, <3>4, <3>5
  <2>6. ASSUME queue' = queue, in_flight' \in Int, Carried(worker') \in Nat,
               in_flight' - in_flight = Carried(worker') - Carried(worker)
        PROVE  InFlight'
    BY <1>4, <1>6, <2>2, <2>6
  <2>7. CASE Token(w) \/ Counted(w) \/ RequeueCounted(w) \/ Hold(w) \/ CopyCounted(w)
    <3>1. \/ Goes(w, "taken", "handle") \/ Goes(w, "counting", "sent")
          \/ Goes(w, "requeued", "dropping") \/ Goes(w, "settle", "held")
          \/ Goes(w, "copycount", "copied")
      BY <1>3, <2>7, WorkerMoves
    <3>2. in_flight' = in_flight + 1 /\ queue' = queue
      BY <2>7 DEF Token, Counted, RequeueCounted, Hold, CopyCounted, Enqueued, msgVars
    <3>3. Carried(worker') \in Nat /\ Carried(worker') = Carried(worker) + 1
      BY <1>6, <2>c, <3>1, Weights
    <3> QED BY <1>6, <2>6, <2>i, <3>2, <3>3
  <2>8. CASE Ack(w) \/ Dropped(w) \/ CopySettles(w) \/ Release(w) \/ NackAfter(w) \/ End(w)
    <3>1. \/ Moves(w, "settle", "end") \/ Moves(w, "dropping", "end")
          \/ Moves(w, "held", "copying") \/ Moves(w, "holding", "end")
          \/ Moves(w, "settle", "delayed") \/ Moves(w, "end", "idle")
      BY <1>3, <2>8, WorkerMoves DEF Goes
    <3>2. in_flight' = in_flight - 1 /\ queue' = queue
      BY <2>8 DEF Ack, Dropped, CopySettles, Release, NackAfter, End, Consumed, DropMessage, msgVars
    <3>3. Carried(worker') \in Nat /\ Carried(worker') = Carried(worker) - 1
      BY <1>6, <2>1, <3>1, Weights
    <3> QED BY <1>6, <2>6, <2>i, <3>2, <3>3
  <2>9. CASE Sent(w) \/ CopyRecorded(w) \/ Expect(w)
    <3>1. \/ Goes(w, "sent", "published") \/ Goes(w, "copied", "holding")
          \/ Goes(w, "delayed", "end")
      BY <1>3, <2>9, WorkerMoves
    <3>2. in_flight' = in_flight /\ queue' = queue
      BY <2>9 DEF Sent, CopyRecorded, Expect, msgVars
    <3>3. Carried(worker') \in Nat /\ Carried(worker') = Carried(worker)
      BY <1>6, <2>c, <3>1, Weights
    <3> QED BY <1>6, <2>6, <2>i, <3>2, <3>3
  <2>10. CASE \E outcome \in conf.outcomes : Return(w, outcome)
    <3>1. Goes(w, worker[w].at, "settle") /\ worker[w].at \in {"handle", "published"}
      BY <1>3, <2>10, WorkerMoves DEF Return
    <3>2. in_flight' = in_flight /\ queue' = queue
      BY <2>10 DEF Return, msgVars, countVars
    <3>3. Carried(worker') \in Nat /\ Carried(worker') = Carried(worker)
      BY <1>6, <2>c, <3>1, Weights
    <3> QED BY <1>6, <2>6, <2>i, <3>2, <3>3
  <2> QED BY <1>8, <2>3, <2>4, <2>5, <2>7, <2>8, <2>9, <2>10 DEF WorkerStep
<1>9. CASE LoopEnds \/ TimerStep
  <2>0. UNCHANGED <<test, worker>>
    BY <1>9 DEF LoopEnds, TimerStep, CloseQueue, DrainQueue, Fire, FireCounted, Redeliver, testVars
  <2>1. CASE CloseQueue
    BY <1>6, <1>7, <2>0, <2>1 DEF CloseQueue, countVars, msgVars
  <2>2. CASE DrainQueue
    <3>1. /\ \E n \in queue : queue' = queue \ {n}
          /\ in_flight' = in_flight - 1 /\ fired' = fired
      BY <2>2 DEF DrainQueue, Consumed
    <3>2. Cardinality(queue') = Cardinality(queue) - 1
      BY <1>4, <3>1
    <3> QED BY <1>4, <1>5, <1>6, <1>7, <2>0, <3>1, <3>2
  <2>3. CASE Fire
    <3>1. PICK n \in firing : /\ queue' = IF open THEN queue \cup {n} ELSE queue
                              /\ fired' = IF open THEN fired \cup {n} ELSE fired
      BY <2>3 DEF Fire
    <3>2. n \notin queue /\ n \notin fired /\ in_flight' = in_flight
      BY <2>3 DEF Fire, OnePlace, Fires, countVars
    <3>3. CASE open
      <4>1. /\ Cardinality(queue') = Cardinality(queue) + 1
            /\ Cardinality(fired') = Cardinality(fired) + 1
        BY <1>4, <1>5, <3>1, <3>2, <3>3
      <4> QED BY <1>4, <1>5, <1>6, <1>7, <2>0, <3>2, <4>1
    <3>4. CASE ~open
      BY <1>6, <1>7, <2>0, <3>1, <3>2, <3>4
    <3> QED BY <3>3, <3>4
  <2>4. CASE FireCounted
    <3>1. /\ \E n \in fired : fired' = fired \ {n}
          /\ in_flight' = in_flight + 1 /\ queue' = queue
      BY <2>4 DEF FireCounted, Enqueued
    <3>2. Cardinality(fired') = Cardinality(fired) - 1
      BY <1>5, <3>1
    <3> QED BY <1>4, <1>5, <1>6, <1>7, <2>0, <3>1, <3>2
  <2>5. ~Redeliver
    BY DEF Redeliver
  <2> QED BY <1>9, <2>1, <2>2, <2>3, <2>4, <2>5 DEF LoopEnds, TimerStep
<1>10. CASE Inject
  <2>1. /\ test = "idle" /\ test' = "count" /\ UNCHANGED <<in_flight, fired, worker>>
        /\ queue' = queue \cup {made + 1} /\ made < conf.tests
    BY <1>10 DEF Inject, TestGoto, countVars
  <2>2. made + 1 \notin queue
    <3>1. queue = {}
      BY <2>1 DEF Settled, Still
    <3> QED BY <3>1
  <2>3. Cardinality(queue') = Cardinality(queue) + 1
    BY <1>4, <2>1, <2>2
  <2>4. One(test = "count") = 0 /\ One(test' = "count") = 1
    BY <2>1 DEF One
  <2> QED BY <1>4, <1>5, <1>6, <1>7, <2>1, <2>3, <2>4
<1>11. CASE InjectCounted
  <2>1. /\ test = "count" /\ test' = "record" /\ UNCHANGED <<queue, fired, worker>>
        /\ in_flight' = in_flight + 1
    BY <1>11 DEF InjectCounted, TestGoto, Enqueued, msgVars
  <2>2. One(test = "count") = 1 /\ One(test' = "count") = 0
    BY <2>1 DEF One
  <2> QED BY <1>4, <1>5, <1>6, <1>7, <2>1, <2>2
<1>12. ASSUME ~InjectCounted,
              \/ Advance \/ SettleStep \/ Sleep \/ FallDue \/ Deadline \/ Asserts
              \/ UNCHANGED vars
       PROVE  InFlight'
  <2>1. /\ UNCHANGED <<queue, fired, worker, in_flight>>
        /\ test' = test \/ (test # "count" /\ test' # "count")
    BY <1>12 DEF Advance, SettleStep, RecordPublished, FiredDue, BeginStep, Enable, Load, Budget,
       ReadNow, ReadHandled, ReadPublished, ReadRunning, Notified, Sleep, FallDue, Deadline,
       Asserts, vars, msgVars, TestGoto, countVars, testVars
  <2>2. One(test' = "count") = One(test = "count")
    BY <2>1 DEF One
  <2> QED BY <1>6, <1>7, <2>1, <2>2
<1> QED BY <1>8, <1>9, <1>10, <1>11, <1>12 DEF Next, SettleStep

\* The numbers a live ledger is made of, after worker w went from x to y.
LEMMA LedgerMoves ==
  ASSUME TestsTyped, Typed, NEW w \in Workers, NEW x, NEW y, Moves(w, x, y)
  PROVE  /\ Number(worker', Unrecorded)
              = Number(worker, Unrecorded) + One(y \in Unrecorded) - One(x \in Unrecorded)
         /\ Number(worker', {"sent"})
              = Number(worker, {"sent"}) + One(y \in {"sent"}) - One(x \in {"sent"})
         /\ Number(worker', Calling)
              = Number(worker, Calling) + One(y \in Calling) - One(x \in Calling)
BY NumberMoves

\* The numbers of a live test are naturals.
LEMMA Numbers ==
  ASSUME TestsTyped, Typed
  PROVE  /\ Number(worker, Unrecorded) \in Nat /\ Number(worker, {"sent"}) \in Nat
         /\ Number(worker, Calling) \in Nat
BY CrewFinite

\* Live, every step keeps the counters in line with what is on its way.
LEMMA StepLedger ==
  ASSUME TestsTyped, LiveAcks, Typed, OnePlace, Fires, Live, Ledger, [Next]_vars
  PROVE  Ledger'
<1>1. conf' = conf /\ Workers' = Workers
  BY ConfStays
<1>2. \A places : Number(worker, places)' = Number(worker', places)
  BY <1>1 DEF Number, Standing
<1>3. conf.outcomes \subseteq {"ack", "later"}
  BY DEF LiveAcks, Typed, Live
<1>4. IsFiniteSet(queue) /\ queue \subseteq Nat
  BY PlacesFinite
<1>5. /\ Cardinality(queue) \in Nat
      /\ \A n : n \notin queue => Cardinality(queue \cup {n}) = Cardinality(queue) + 1
      /\ \A n \in queue : Cardinality(queue \ {n}) = Cardinality(queue) - 1
  BY <1>4, SizeOf
<1>8. /\ Number(worker, Unrecorded) \in Nat /\ Number(worker, {"sent"}) \in Nat
      /\ Number(worker, Calling) \in Nat
  BY Numbers
<1>9. /\ handled \in Nat /\ published \in Nat /\ back \in Nat
      /\ in_flight \in Int /\ made \in Nat /\ cascade \in Nat /\ conf.tests \in Nat
      /\ One(test = "record") \in Int
  BY DEF Typed, TestsTyped, One
<1>10. /\ ~cancelled /\ open
       /\ \A w \in Workers : worker[w].at \in LivePlaces
       /\ handled + Cardinality(queue) + Number(worker, Unrecorded) = made + cascade + back
       /\ published + One(test = "record") + Number(worker, {"sent"}) = made + cascade
       /\ in_flight = Number(worker, Calling)
  BY DEF Ledger
<1>11. ASSUME ~cancelled', open', \A w \in Workers : worker'[w].at \in LivePlaces,
              handled' + Cardinality(queue') + Number(worker', Unrecorded)
                = made' + cascade' + back',
              published' + One(test' = "record") + Number(worker', {"sent"}) = made' + cascade',
              in_flight' = Number(worker', Calling)
       PROVE  Ledger'
  BY <1>1, <1>2, <1>11 DEF Ledger, One
<1>12. ASSUME NEW w \in Workers, WorkerStep(w) PROVE Ledger'
  <2>1. /\ worker[w].at \in LivePlaces
        /\ worker[w].at = "settle" => worker[w].outcome \in {"ack", "later"}
    BY <1>3, <1>10 DEF Typed
  <2>2. \/ Take(w) \/ Token(w) \/ Cascade(w) \/ Sent(w)
        \/ \E outcome \in conf.outcomes : Return(w, outcome)
        \/ Ack(w) \/ NackAfter(w) \/ Expect(w) \/ End(w)
    BY <1>12, <2>1 DEF WorkerStep, LivePlaces, Counted, Requeue, RequeueCounted, Dropped, Hold,
       CopySettles, CopySent, CopyCounted, CopyRecorded, Release, Settling
  <2>3. ~cancelled' /\ open' /\ UNCHANGED <<test, made, back>>
    <3>1. CASE \E outcome \in conf.outcomes : Return(w, outcome)
      <4>1. PICK outcome \in conf.outcomes : Return(w, outcome)
        BY <3>1
      <4>2. UNCHANGED <<open, test, made, back>>
        BY <4>1 DEF Return, testVars, liveVars, msgVars
      <4>3. outcome # "panic"
        BY <1>3
      <4>4. cancelled' <=> (cancelled \/ outcome = "panic")
        BY <4>1, Zenon DEF Return
      <4> QED BY <1>10, <4>2, <4>3, <4>4
    <3>2. CASE ~\E outcome \in conf.outcomes : Return(w, outcome)
      <4>1. UNCHANGED <<open, test, made, back, cancelled>>
        BY <2>2, <3>2 DEF Take, Token, Cascade, Sent, Ack, NackAfter, Expect, End, testVars,
           liveVars, msgVars
      <4> QED BY <1>10, <4>1
    <3> QED BY <3>1, <3>2
  <2>4. ASSUME NEW x \in LivePlaces, NEW y \in LivePlaces, Moves(w, x, y)
        PROVE  \A v \in Workers : worker'[v].at \in LivePlaces
    BY <1>10, <2>4 DEF Moves
  <2>5. CASE Take(w)
    <3>1. /\ Moves(w, "idle", "taken")
          /\ worker'[w].msg \in queue /\ queue' = queue \ {worker'[w].msg}
      BY <1>4, <2>5, WorkerMoves
    <3>2. Cardinality(queue') = Cardinality(queue) - 1
      BY <1>5, <3>1
    <3>3. UNCHANGED <<handled, published, in_flight, cascade>>
      BY <2>5 DEF Take, liveVars, countVars
    <3>4. /\ Number(worker', Unrecorded) = Number(worker, Unrecorded) + 1
          /\ Number(worker', {"sent"}) = Number(worker, {"sent"})
          /\ Number(worker', Calling) = Number(worker, Calling)
      BY <1>8, <3>1, LedgerMoves DEF One, Unrecorded, Calling
    <3>5. \A v \in Workers : worker'[v].at \in LivePlaces
      BY <2>4, <3>1 DEF LivePlaces
    <3> QED BY <1>5, <1>8, <1>9, <1>10, <1>11, <2>3, <3>2, <3>3, <3>4, <3>5
  <2>6. CASE Token(w)
    <3>1. Moves(w, "taken", "handle")
      BY <1>4, <2>6, WorkerMoves DEF Goes
    <3>3. /\ UNCHANGED <<handled, published, cascade, queue>>
          /\ in_flight' = in_flight + 1
      BY <2>6 DEF Token, liveVars, msgVars, Enqueued
    <3>4. /\ Number(worker', Unrecorded) = Number(worker, Unrecorded)
          /\ Number(worker', {"sent"}) = Number(worker, {"sent"})
          /\ Number(worker', Calling) = Number(worker, Calling) + 1
      BY <1>8, <3>1, LedgerMoves DEF One, Unrecorded, Calling
    <3>5. \A v \in Workers : worker'[v].at \in LivePlaces
      BY <2>4, <3>1 DEF LivePlaces
    <3> QED BY <1>8, <1>9, <1>10, <1>11, <2>3, <3>3, <3>4, <3>5
  <2>7. CASE Cascade(w)
    <3>1. Moves(w, "handle", "sent")
      BY <1>4, <2>7, WorkerMoves DEF Goes
    <3>2. PICK n : n = conf.tests + cascade + 1
      OBVIOUS
    <3>3. /\ UNCHANGED <<handled, published, in_flight>>
          /\ cascade' = cascade + 1 /\ queue' = queue \cup {n}
      BY <2>7, <3>2 DEF Cascade, liveVars, countVars
    <3>n. n \notin queue
      <4>1. conf.tests \in Nat /\ made \in 0 .. conf.tests /\ cascade \in Nat
        BY DEF TestsTyped, Typed
      <4> QED BY <4>1, <3>2 DEF OnePlace, Issued
    <3>q. Cardinality(queue') = Cardinality(queue) + 1
      BY <1>5, <3>3, <3>n
    <3>4. /\ Number(worker', Unrecorded) = Number(worker, Unrecorded)
          /\ Number(worker', {"sent"}) = Number(worker, {"sent"}) + 1
          /\ Number(worker', Calling) = Number(worker, Calling)
      BY <1>8, <3>1, LedgerMoves DEF One, Unrecorded, Calling
    <3>5. \A v \in Workers : worker'[v].at \in LivePlaces
      BY <2>4, <3>1 DEF LivePlaces
    <3>6. handled' + Cardinality(queue') + Number(worker', Unrecorded) = made' + cascade' + back'
      <4>1. /\ handled' = handled /\ made' = made /\ cascade' = cascade + 1 /\ back' = back
            /\ Cardinality(queue') = Cardinality(queue) + 1
            /\ Number(worker', Unrecorded) = Number(worker, Unrecorded)
        BY <2>3, <3>3, <3>q, <3>4
      <4> QED BY ONLY <1>5, <1>8, <1>9, <1>10, <4>1
    <3>7. published' + One(test' = "record") + Number(worker', {"sent"}) = made' + cascade'
      <4>1. One(test' = "record") = One(test = "record")
        BY <2>3
      <4>2. /\ published' = published /\ made' = made /\ cascade' = cascade + 1
            /\ Number(worker', {"sent"}) = Number(worker, {"sent"}) + 1
        BY <2>3, <3>3, <3>4
      <4> HIDE DEF One
      <4> QED BY ONLY <1>8, <1>9, <1>10, <4>1, <4>2
    <3> QED BY <1>10, <1>11, <2>3, <3>3, <3>4, <3>5, <3>6, <3>7
  <2>8. CASE Sent(w)
    <3>1. Moves(w, "sent", "published")
      BY <1>4, <2>8, WorkerMoves DEF Goes
    <3>3. /\ UNCHANGED <<handled, cascade, in_flight, queue>>
          /\ published' = published + 1
      BY <2>8 DEF Sent, msgVars, Publish
    <3>4. /\ Number(worker', Unrecorded) = Number(worker, Unrecorded)
          /\ Number(worker', {"sent"}) = Number(worker, {"sent"}) - 1
          /\ Number(worker', Calling) = Number(worker, Calling)
      BY <1>8, <3>1, LedgerMoves DEF One, Unrecorded, Calling
    <3>5. \A v \in Workers : worker'[v].at \in LivePlaces
      BY <2>4, <3>1 DEF LivePlaces
    <3> QED BY <1>8, <1>9, <1>10, <1>11, <2>3, <3>3, <3>4, <3>5
  <2>9. CASE \E outcome \in conf.outcomes : Return(w, outcome)
    <3>1. Moves(w, worker[w].at, "settle") /\ worker[w].at \in {"handle", "published"}
      BY <1>4, <2>9, WorkerMoves DEF Goes, Return
    <3>3. /\ UNCHANGED <<published, cascade, in_flight, queue>>
          /\ handled' = handled + 1
      BY <2>9 DEF Return, msgVars, countVars
    <3>4. /\ Number(worker', Unrecorded) = Number(worker, Unrecorded) - 1
          /\ Number(worker', {"sent"}) = Number(worker, {"sent"})
          /\ Number(worker', Calling) = Number(worker, Calling)
      BY <1>8, <3>1, LedgerMoves DEF One, Unrecorded, Calling
    <3>5. \A v \in Workers : worker'[v].at \in LivePlaces
      BY <2>1, <2>4, <3>1 DEF LivePlaces
    <3> QED BY <1>8, <1>9, <1>10, <1>11, <2>3, <3>3, <3>4, <3>5, <1>5
  <2>10. CASE Ack(w)
    <3>1. Moves(w, "settle", "end")
      BY <1>4, <2>10, WorkerMoves DEF Goes
    <3>3. UNCHANGED <<handled, published, cascade, in_flight, queue>>
      BY <2>10 DEF Ack, DropMessage, msgVars, liveVars, countVars
    <3>4. /\ Number(worker', Unrecorded) = Number(worker, Unrecorded)
          /\ Number(worker', {"sent"}) = Number(worker, {"sent"})
          /\ Number(worker', Calling) = Number(worker, Calling)
      BY <1>8, <3>1, LedgerMoves DEF One, Unrecorded, Calling
    <3>5. \A v \in Workers : worker'[v].at \in LivePlaces
      BY <2>4, <3>1 DEF LivePlaces
    <3> QED BY <1>8, <1>9, <1>10, <1>11, <2>3, <3>3, <3>4, <3>5
  <2>11. CASE NackAfter(w)
    <3>1. Moves(w, "settle", "delayed")
      BY <1>4, <2>11, WorkerMoves DEF Goes
    <3>3. UNCHANGED <<handled, published, cascade, in_flight, queue>>
      BY <2>11 DEF NackAfter, DropMessage, liveVars, countVars
    <3>4. /\ Number(worker', Unrecorded) = Number(worker, Unrecorded)
          /\ Number(worker', {"sent"}) = Number(worker, {"sent"})
          /\ Number(worker', Calling) = Number(worker, Calling)
      BY <1>8, <3>1, LedgerMoves DEF One, Unrecorded, Calling
    <3>5. \A v \in Workers : worker'[v].at \in LivePlaces
      BY <2>4, <3>1 DEF LivePlaces
    <3> QED BY <1>8, <1>9, <1>10, <1>11, <2>3, <3>3, <3>4, <3>5
  <2>12. CASE Expect(w)
    <3>1. Moves(w, "delayed", "end")
      BY <1>4, <2>12, WorkerMoves DEF Goes
    <3>3. UNCHANGED <<handled, published, cascade, in_flight, queue>>
      BY <2>12 DEF Expect, msgVars
    <3>4. /\ Number(worker', Unrecorded) = Number(worker, Unrecorded)
          /\ Number(worker', {"sent"}) = Number(worker, {"sent"})
          /\ Number(worker', Calling) = Number(worker, Calling)
      BY <1>8, <3>1, LedgerMoves DEF One, Unrecorded, Calling
    <3>5. \A v \in Workers : worker'[v].at \in LivePlaces
      BY <2>4, <3>1 DEF LivePlaces
    <3> QED BY <1>8, <1>9, <1>10, <1>11, <2>3, <3>3, <3>4, <3>5
  <2>13. CASE End(w)
    <3>1. Moves(w, "end", "idle")
      BY <1>4, <2>13, WorkerMoves
    <3>3. /\ UNCHANGED <<handled, published, cascade, queue>>
          /\ in_flight' = in_flight - 1
      BY <2>13 DEF End, msgVars, liveVars, Consumed
    <3>4. /\ Number(worker', Unrecorded) = Number(worker, Unrecorded)
          /\ Number(worker', {"sent"}) = Number(worker, {"sent"})
          /\ Number(worker', Calling) = Number(worker, Calling) - 1
      BY <1>8, <3>1, LedgerMoves DEF One, Unrecorded, Calling
    <3>5. \A v \in Workers : worker'[v].at \in LivePlaces
      BY <2>4, <3>1 DEF LivePlaces
    <3> QED BY <1>8, <1>9, <1>10, <1>11, <2>3, <3>3, <3>4, <3>5
  <2> QED BY <2>2, <2>5, <2>6, <2>7, <2>8, <2>9, <2>10, <2>11, <2>12, <2>13
<1>13. CASE LoopEnds \/ Fire \/ FireCounted \/ FallDue
  <2>1. FallDue
    BY <1>10, <1>13 DEF LoopEnds, CloseQueue, DrainQueue, Fire, FireCounted, Fires
  <2>2. UNCHANGED <<handled, published, back, in_flight, cascade, worker, made, queue, test, open,
                    cancelled>>
    BY <2>1 DEF FallDue, countVars, msgVars, testVars
  <2> QED BY <1>10, <1>11, <2>2
<1>14. CASE Redeliver
  <2>1. PICK n \in timers : queue' = queue \cup {n}
    BY <1>14 DEF Redeliver
  <2>2. /\ UNCHANGED <<handled, published, in_flight, cascade, worker, made, test, open, cancelled>>
        /\ back' = back + 1
    BY <1>14 DEF Redeliver, countVars, testVars
  <2>3. n \notin queue
    BY DEF OnePlace
  <2>4. Cardinality(queue') = Cardinality(queue) + 1
    BY <1>5, <2>1, <2>3
  <2>5. handled' + Cardinality(queue') + Number(worker', Unrecorded) = made' + cascade' + back'
    BY <1>5, <1>8, <1>9, <1>10, <2>2, <2>4
  <2> QED BY <1>10, <1>11, <2>2, <2>5
<1>15. CASE Inject
  <2>1. /\ test = "idle" /\ test' = "record" /\ made < conf.tests /\ made' = made + 1
        /\ queue' = queue \cup {made + 1}
        /\ UNCHANGED <<handled, published, back, in_flight, cascade, worker>>
        /\ UNCHANGED <<open, cancelled>>
    BY <1>15 DEF Inject, TestGoto, liveVars, countVars
  <2>2. made + 1 \notin queue
    BY <1>9, <2>1 DEF OnePlace, Issued
  <2>3. Cardinality(queue') = Cardinality(queue) + 1
    BY <1>5, <2>1, <2>2
  <2>4. One(test = "record") = 0 /\ One(test' = "record") = 1
    BY <2>1 DEF One
  <2>5. handled' + Cardinality(queue') + Number(worker', Unrecorded) = made' + cascade' + back'
    BY <1>5, <1>8, <1>9, <1>10, <2>1, <2>3
  <2>6. published' + One(test' = "record") + Number(worker', {"sent"}) = made' + cascade'
    BY <1>8, <1>9, <1>10, <2>1, <2>4
  <2> QED BY <1>10, <1>11, <2>1, <2>5, <2>6
<1>16. CASE RecordPublished
  <2>1. /\ test = "record" /\ test' = "enable" /\ published' = published + 1
        /\ UNCHANGED <<handled, back, in_flight, cascade, worker>>
        /\ UNCHANGED <<made, queue, open, cancelled>>
    BY <1>16 DEF RecordPublished, TestGoto, Publish, msgVars
  <2>4. One(test = "record") = 1 /\ One(test' = "record") = 0
    BY <2>1 DEF One
  <2>6. published' + One(test' = "record") + Number(worker', {"sent"}) = made' + cascade'
    BY <1>8, <1>9, <1>10, <2>1, <2>4
  <2> QED BY <1>10, <1>11, <2>1, <2>6
<1>17. ASSUME ~RecordPublished,
              SettleStep \/ Advance \/ Sleep \/ Deadline \/ Asserts \/ UNCHANGED vars
       PROVE  Ledger'
  <2>0. test \in LiveStages
    BY DEF Typed
  <2>1. ~InjectCounted
    BY <2>0 DEF InjectCounted, TestGoto, LiveStages
  <2>2. /\ UNCHANGED <<handled, published, back, in_flight, cascade, worker>>
        /\ UNCHANGED <<made, queue, open, cancelled>>
        /\ test' = test \/ (test # "record" /\ test' # "record")
    BY <1>17, <2>1 DEF SettleStep, Advance, FiredDue, BeginStep, Enable, Load, Budget, ReadNow,
       ReadHandled, ReadPublished, ReadRunning, Notified, Sleep, FallDue, Deadline, Asserts, vars,
       msgVars, TestGoto, countVars, liveVars, testVars
  <2>3. One(test = "record") = One(test' = "record")
    BY <2>2 DEF One
  <2> QED BY <1>10, <1>11, <2>2, <2>3
<1> QED BY <1>12, <1>13, <1>14, <1>15, <1>16, <1>17 DEF Next, TimerStep, SettleStep

\* Records that caught up with the publishes and the redeliveries leave nothing unrecorded.
LEMMA NothingLeft ==
  \A h, q, a, b, c, m, p, d, k \in Nat :
    /\ h + q + c = m + k /\ p + b = m /\ a + b <= c /\ h >= p + d
    => d <= k /\ (k <= d => q = 0 /\ a = 0)
OBVIOUS

\* Once what was handled covers what was published and d redeliveries, d have come back, and unless
\* more have, nothing is left to publish.
LEMMA CaughtUp ==
  ASSUME TestsTyped, Typed, OnePlace, Fires, Live, Ledger, test # "record",
         NEW d \in Nat, handled >= published + d
  PROVE  d <= back /\ (back <= d => Over)
<1>1. Number(worker, Unrecorded) \in Nat /\ Number(worker, {"sent"}) \in Nat
  BY Numbers
<1>2. IsFiniteSet(queue)
  BY PlacesFinite
<1>3. Cardinality(queue) \in Nat /\ (Cardinality(queue) = 0 <=> queue = {})
  BY <1>2, SizeOf
<1> DEFINE A == Standing(worker, {"taken", "handle"})
           B == Standing(worker, {"sent"})
           C == Standing(worker, Unrecorded)
<1>4. IsFiniteSet(A) /\ IsFiniteSet(B) /\ IsFiniteSet(C)
  BY CrewFinite
<1>5. A \cap B = {} /\ A \cup B \subseteq C
  BY DEF Standing, Unrecorded
<1>6. Number(worker, {"sent"}) = Cardinality(B) /\ Number(worker, Unrecorded) = Cardinality(C)
  BY DEF Number
<1>7. A = {} => \A w \in Workers : worker[w].at \notin {"taken", "handle"}
  BY DEF Standing
<1> HIDE DEF A, B, C
<1>8. /\ Cardinality(A) \in Nat /\ Cardinality(B) \in Nat /\ Cardinality(C) \in Nat
      /\ Cardinality(A) = 0 <=> A = {}
  BY <1>4, SizeOf
<1>9. Cardinality(A) + Cardinality(B) <= Cardinality(C)
  <2>1. IsFiniteSet(A \cup B)
    BY <1>4, FS_Union
  <2>2. Cardinality(A \cup B) = Cardinality(A) + Cardinality(B) - Cardinality(A \cap B)
    BY <1>4, FS_Union
  <2>3. Cardinality(A \cap B) = 0
    BY <1>5, FS_EmptySet
  <2>4. Cardinality(A \cup B) <= Cardinality(C)
    BY <1>4, <1>5, FS_Subset
  <2> QED BY <1>8, <2>2, <2>3, <2>4
<1>10. /\ handled + Cardinality(queue) + Cardinality(C) = made + cascade + back
       /\ published + Cardinality(B) = made + cascade
  BY <1>1, <1>6 DEF Ledger, One, Typed
<1>11. /\ handled \in Nat /\ published \in Nat /\ back \in Nat /\ made \in Nat /\ cascade \in Nat
  BY DEF Typed, TestsTyped
<1>12. d <= back /\ (back <= d => Cardinality(queue) = 0 /\ Cardinality(A) = 0)
  <2>1. PICK q, a, b, c, m \in Nat :
          /\ q = Cardinality(queue) /\ a = Cardinality(A)
          /\ b = Cardinality(B) /\ c = Cardinality(C) /\ m = made + cascade
    BY <1>3, <1>8, <1>11
  <2>2. /\ handled + q + c = m + back /\ published + b = m /\ a + b <= c
        /\ handled >= published + d
    BY <1>9, <1>10, <2>1
  <2>3. d <= back /\ (back <= d => q = 0 /\ a = 0)
    BY ONLY <1>11, <2>2, NothingLeft, q \in Nat, a \in Nat, b \in Nat, c \in Nat,
            m \in Nat, d \in Nat
  <2> QED BY <2>1, <2>3
<1> QED BY <1>3, <1>7, <1>8, <1>12 DEF Over

\* Live, what was read stays true while settle_live reads on.
LEMMA StepReads ==
  ASSUME TestsTyped, LiveAcks, Typed, OnePlace, Fires, Live, Ledger, Reads, [Next]_vars
  PROVE  Reads'
<1>1. conf' = conf /\ Workers' = Workers
  BY ConfStays
<1>2. queue \subseteq Nat
  BY PlacesFinite
<1>3. /\ handled \in Nat /\ back \in Nat /\ saw \in [due : Nat, handled : Nat, owed : Nat]
      /\ test \in LiveStages /\ saw.handled \in Nat /\ saw.owed \in Nat /\ saw.due \in Nat
  BY DEF Typed
<1>4. ASSUME NEW w \in Workers, WorkerStep(w)
      PROVE  handled' >= handled /\ back' = back /\ (Over => Over')
  <2>1. handled' >= handled /\ back' = back
    BY <1>3, <1>4 DEF WorkerStep, Take, Token, Cascade, Counted,
       Sent, Return, Ack, Requeue, RequeueCounted, Dropped, Hold, CopySettles, CopySent,
       CopyCounted, CopyRecorded, Release, NackAfter, Expect, End, liveVars
  <2>2. ASSUME Over PROVE Over'
    <3>1. /\ worker[w].at \in LivePlaces
          /\ worker[w].at = "settle" => worker[w].outcome \in {"ack", "later"}
      BY DEF Ledger, Typed, LiveAcks, Live
    <3>2. worker[w].at \notin {"taken", "handle"} /\ queue = {}
      BY <2>2 DEF Over
    <3>3. \/ Sent(w) \/ \E outcome \in conf.outcomes : Return(w, outcome)
          \/ Ack(w) \/ NackAfter(w) \/ Expect(w) \/ End(w)
      BY <1>4, <3>1, <3>2 DEF WorkerStep, LivePlaces, Counted, Requeue, RequeueCounted, Dropped,
         Hold, CopySettles, CopySent, CopyCounted, CopyRecorded, Release, Settling, Take, Token,
         Cascade
    <3>4. /\ worker'[w].at \notin {"taken", "handle"}
          /\ \A v \in Workers : v # w => worker'[v] = worker[v]
      BY <1>2, <3>3, WorkerMoves DEF Goes, Moves
    <3>5. queue' = queue
      BY <3>3 DEF Sent, Return, Ack, NackAfter, Expect, End, msgVars
    <3> QED BY <1>1, <2>2, <3>4, <3>5 DEF Over
  <2> QED BY <2>1, <2>2
<1>5. ASSUME LoopEnds \/ Fire \/ FireCounted \/ FallDue
      PROVE  handled' >= handled /\ back' = back /\ (Over => Over')
  <2>1. FallDue
    BY <1>5 DEF LoopEnds, CloseQueue, DrainQueue, Fire, FireCounted, Fires, Ledger
  <2>2. UNCHANGED <<handled, back, queue, worker>>
    BY <2>1 DEF FallDue, msgVars, testVars
  <2>3. Over' = Over
    BY <1>1, <2>2 DEF Over
  <2> QED BY <1>3, <2>2, <2>3
<1>6. ASSUME (\E w \in Workers : WorkerStep(w)) \/ LoopEnds \/ Fire \/ FireCounted \/ FallDue
      PROVE  Reads'
  <2>1. UNCHANGED <<test, saw>>
    <3>1. CASE FallDue
      BY <3>1 DEF FallDue, testVars
    <3> QED BY <1>6, <3>1, TestWaits DEF TimerStep
  <2>2. handled' >= handled /\ back' = back /\ (Over => Over')
    BY <1>4, <1>5, <1>6
  <2>3. handled' \in Nat
    BY <1>2, StepTyped DEF Typed
  <2> QED BY <1>3, <2>1, <2>2, <2>3 DEF Reads
<1>7. CASE Redeliver
  <2>1. UNCHANGED <<test, saw, handled>> /\ back' = back + 1
    BY <1>7 DEF Redeliver, testVars
  <2>2. saw.due <= back => saw.due <= back + 1 /\ ~(back + 1 <= saw.due)
    BY <1>3
  <2> QED BY <2>1, <2>2 DEF Reads
<1>8. CASE ReadHandled
  <2>1. test' = "published" /\ saw'.handled = handled /\ handled' = handled
    BY <1>3, <1>8 DEF ReadHandled, TestGoto, liveVars
  <2> QED BY <1>3, <2>1 DEF Reads
<1>9. CASE ReadPublished
  <2>1. /\ test = "published" /\ test' = "running" /\ saw'.handled = saw.handled
        /\ saw'.owed = published + saw.due /\ saw'.due = saw.due
        /\ UNCHANGED <<handled, published, back, queue, worker>>
    BY <1>3, <1>9 DEF ReadPublished, TestGoto, liveVars, msgVars
  <2>2. saw.handled <= handled /\ published \in Nat
    BY <2>1 DEF Reads, Typed
  <2>3. ASSUME saw.handled >= published + saw.due
        PROVE  saw.due <= back /\ (back <= saw.due => Over)
    <3>1. handled >= published + saw.due
      BY <1>3, <2>2, <2>3
    <3> QED BY <1>3, <2>1, <3>1, CaughtUp
  <2>4. Over' = Over
    BY <1>1, <2>1 DEF Over
  <2> QED BY <2>1, <2>3, <2>4 DEF Reads
<1>10. CASE Asserts \/ UNCHANGED vars
  <2>1. UNCHANGED <<test, saw, handled, back, queue, worker>>
    BY <1>10 DEF Asserts, vars
  <2>2. Over' = Over
    BY <1>1, <2>1 DEF Over
  <2> QED BY <2>1, <2>2 DEF Reads
<1>11. CASE \/ InjectCounted \/ RecordPublished \/ FiredDue \/ BeginStep \/ Enable \/ Load \/ Budget
            \/ ReadNow \/ ReadRunning \/ Notified \/ Inject \/ Advance \/ Sleep \/ Deadline
  <2>1. test' \notin {"published", "running"}
    BY <1>11 DEF InjectCounted, RecordPublished, FiredDue, BeginStep, Enable,
       Load, Budget, ReadNow, ReadRunning, Notified, Inject, Advance, Sleep, Deadline, TestGoto
  <2> QED BY <2>1 DEF Reads
<1> QED BY <1>6, <1>7, <1>8, <1>9, <1>10, <1>11 DEF Next, SettleStep, TimerStep

\* The step that lets the test assert finds nothing left, or a redelivery back that was not counted,
\* and no later one brings anything but such a redelivery.
LEMMA StepStill ==
  ASSUME TestsTyped, Typed, OnePlace, Fires, ~Live => InFlight, Live => Ledger /\ Reads,
         test = "idle" => Settled, [Next]_vars
  PROVE  test' = "idle" => Settled'
<1>1. conf' = conf /\ Workers' = Workers /\ Live' = Live
  BY ConfStays
<1>2. queue \subseteq Nat
  BY PlacesFinite
<1>3. SUFFICES ASSUME test' = "idle" PROVE Settled'
  OBVIOUS
<1>4. ASSUME UNCHANGED <<queue, firing, fired, worker>> PROVE Still' = Still
  BY <1>1, <1>4 DEF Still
<1>n. back \in Nat /\ saw.due \in Nat
  BY DEF Typed
<1>w. ASSUME (\E w \in Workers : WorkerStep(w)), Still PROVE FALSE
  <2>2. queue = {} /\ \A w \in Workers : worker[w].at = "idle"
    BY <1>w DEF Still
  <2> QED
    BY ZenonT(30), <1>w, <2>2 DEF WorkerStep, Take, Token, Cascade, Counted,
       Sent, Return, Ack, Requeue, RequeueCounted, Dropped, Hold, CopySettles, CopySent,
       CopyCounted, CopyRecorded, Release, NackAfter, Expect, End, Settling
<1>5. ASSUME \/ \E w \in Workers : WorkerStep(w)
             \/ LoopEnds \/ Fire \/ FireCounted \/ FallDue
      PROVE  Settled'
  <2>1. UNCHANGED <<test, saw>>
    <3>1. CASE FallDue
      BY <3>1 DEF FallDue, testVars
    <3> QED BY <1>5, <3>1, TestWaits DEF TimerStep
  <2>2. test = "idle" /\ Settled
    BY <1>3, <2>1
  <2>3. back' = back
    BY <1>5 DEF WorkerStep, Take, Token, Cascade, Counted, Sent, Return, Ack, Requeue,
       RequeueCounted, Dropped, Hold, CopySettles, CopySent, CopyCounted, CopyRecorded, Release,
       NackAfter, Expect, End, liveVars, LoopEnds, CloseQueue, DrainQueue, Fire, FireCounted,
       FallDue, testVars
  <2>4. ASSUME Still PROVE Still'
    <3>1. LoopEnds \/ Fire \/ FireCounted \/ FallDue
      BY <1>5, <1>w, <2>4
    <3>2. CloseQueue \/ FallDue
      BY <2>4, <3>1 DEF Still, LoopEnds, DrainQueue, Fire, FireCounted
    <3>3. UNCHANGED <<queue, firing, fired, worker>>
      BY <3>2 DEF CloseQueue, FallDue, msgVars, testVars
    <3> QED BY <1>4, <2>4, <3>3
  <2> QED BY <1>1, <2>1, <2>2, <2>3, <2>4 DEF Settled
<1>10. CASE Redeliver
  <2>1. UNCHANGED <<test, saw>> /\ back' = back + 1 /\ Live
    BY <1>10 DEF Redeliver, testVars
  <2>2. saw.due <= back
    BY <1>3, <2>1 DEF Settled
  <2>3. saw'.due <= back' /\ ~(back' <= saw'.due)
    BY <1>n, <2>1, <2>2
  <2> QED BY <1>1, <2>1, <2>3 DEF Settled
<1>6. CASE Load
  <2>1. test = "load" /\ in_flight = 0 /\ UNCHANGED <<queue, firing, fired, worker>>
    BY <1>3, <1>6 DEF Load, TestGoto, msgVars
  <2>2. ~Live
    BY <2>1 DEF Typed, LiveStages
  <2>3. firing = {} /\ fired = {}
    BY <2>1, <2>2 DEF Fires
  <2>4. Cardinality(fired) = 0 /\ One(test = "count") = 0
    BY <2>1, <2>3, FS_EmptySet DEF One
  <2>5. 0 = Cardinality(queue) + Carried(worker)
    <3>1. Cardinality(queue) \in Nat
      BY PlacesFinite, SizeOf
    <3>2. Carried(worker) \in Nat
      BY CrewFinite DEF Carried
    <3> QED BY <2>1, <2>2, <2>4, <3>1, <3>2 DEF InFlight
  <2>6. /\ Number(worker, Counts1) \in Nat /\ Number(worker, Counts2) \in Nat
        /\ Number(worker, Counts3) \in Nat /\ Cardinality(queue) \in Nat
    BY CrewFinite, PlacesFinite, SizeOf
  <2>7. Number(worker, Counts1) = 0 /\ Cardinality(queue) = 0
    BY SMTT(30), <2>5, <2>6 DEF Carried
  <2>8. queue = {}
    BY <2>7, PlacesFinite, SizeOf
  <2>9. \A w \in Workers : worker[w].at = "idle"
    BY <2>7, NothingCarried
  <2>10. Still'
    BY <1>4, <2>1, <2>3, <2>8, <2>9 DEF Still
  <2> QED BY <1>1, <2>2, <2>10 DEF Settled
<1>7. CASE ReadRunning
  <2>1. /\ test = "running" /\ in_flight = 0 /\ saw.handled >= saw.owed
        /\ UNCHANGED <<queue, firing, fired, worker, back, saw>>
    BY <1>3, <1>7 DEF ReadRunning, TestGoto, msgVars, liveVars
  <2>2. Live
    BY <2>1 DEF Typed, Stages
  <2>3. saw.due <= back /\ (back <= saw.due => Over)
    BY <2>1, <2>2 DEF Reads
  <2>4. Number(worker, Calling) = 0 /\ \A w \in Workers : worker[w].at \in LivePlaces
    BY <2>1, <2>2 DEF Ledger
  <2>5. Standing(worker, Calling) = {}
    BY <2>4, CrewFinite, FS_EmptySet DEF Number
  <2>6. ASSUME Over PROVE \A w \in Workers : worker[w].at = "idle"
    BY <2>6, <2>4, <2>5 DEF Standing, Over, LivePlaces, Calling
  <2>7. firing = {} /\ fired = {}
    BY <2>2 DEF Fires
  <2>8. Over => Still
    BY <2>6, <2>7 DEF Still, Over
  <2>9. Still' = Still
    BY <1>4, <2>1
  <2> QED BY <1>1, <2>1, <2>2, <2>3, <2>8, <2>9 DEF Settled
<1>8. CASE Asserts \/ UNCHANGED vars
  <2>1. test = "idle" /\ UNCHANGED <<queue, firing, fired, worker, back, saw>>
    BY <1>3, <1>8 DEF Asserts, vars
  <2>2. Still' = Still
    BY <1>4, <2>1
  <2> QED BY <1>1, <2>1, <2>2 DEF Settled
<1>9. CASE \/ InjectCounted \/ RecordPublished \/ FiredDue \/ BeginStep \/ Enable \/ Budget
           \/ ReadNow \/ ReadHandled \/ ReadPublished \/ Notified \/ Inject \/ Advance \/ Sleep
           \/ Deadline
  BY <1>3, <1>9 DEF InjectCounted, RecordPublished, FiredDue, BeginStep, Enable,
     Budget, ReadNow, ReadHandled, ReadPublished, Notified, Inject, Advance, Sleep, Deadline,
     TestGoto
<1> QED BY <1>5, <1>6, <1>7, <1>8, <1>9, <1>10 DEF Next, SettleStep, TimerStep

\* The invariant holds at the start.
LEMMA InitInv ==
  ASSUME TestsTyped, Init
  PROVE  HInv
<1>1. /\ conf \in Confs /\ conf.workers \in Nat /\ conf.tests \in Nat /\ Live \in BOOLEAN
  BY DEF Init, TestsTyped, Live
<1>2. \A w \in Workers : worker[w].at = "idle"
  BY DEF Init
<1>3. worker \in Crews
  BY DEF Init, Crews
<1>4. saw \in [due : Nat, handled : Nat, owed : Nat]
  BY DEF Init
<1>5. Typed
  <2>1. test \in (IF Live THEN LiveStages ELSE Stages)
    BY DEF Init, LiveStages, Stages
  <2>2. made \in 0 .. conf.tests
    BY <1>1 DEF Init
  <2>3. /\ in_flight \in Int /\ handled \in Nat /\ published \in Nat /\ expected \in Nat
        /\ due \in Nat /\ back \in Nat /\ cascade \in Nat
    BY DEF Init
  <2>4. open \in BOOLEAN /\ cancelled \in BOOLEAN
    BY Zenon DEF Init
  <2>5. \A w \in Workers : worker[w].at = "settle" => worker[w].outcome \in conf.outcomes
    BY <1>2
  <2> QED BY <1>1, <1>3, <1>4, <2>1, <2>2, <2>3, <2>4, <2>5, Zenon DEF Typed
<1>6. Issued = {}
  BY <1>1 DEF Init, Issued
<1>7. \A places : "idle" \notin places => Standing(worker, places) = {}
  BY <1>2 DEF Standing
<1>8. /\ "idle" \notin Owning /\ "idle" \notin Unhandled /\ "idle" \notin Counts1
      /\ "idle" \notin Counts2 /\ "idle" \notin Counts3 /\ "idle" \notin Unrecorded
      /\ "idle" \notin Calling /\ "idle" \notin {"sent"} /\ "idle" \notin {"delayed"}
  BY DEF Owning, Unhandled, Counts1, Counts2, Counts3, Unrecorded, Calling
<1>9. Cardinality({}) = 0
  BY FS_EmptySet
<1>10. /\ Number(worker, Counts1) = 0 /\ Number(worker, Counts2) = 0
       /\ Number(worker, Counts3) = 0 /\ Number(worker, Unrecorded) = 0
       /\ Number(worker, {"sent"}) = 0 /\ Number(worker, {"delayed"}) = 0
       /\ Number(worker, Calling) = 0
  BY <1>7, <1>8, <1>9 DEF Number
<1>11. OnePlace
  <2>1. Standing(worker, Owning) = {}
    BY <1>7, <1>8
  <2> QED BY <2>1 DEF Init, OnePlace, Messages
<1>12. Followed
  BY <1>6 DEF Init, Followed
<1>13. Fires
  BY DEF Init, Fires
<1>14. Settled
  <2>1. Still
    BY <1>2 DEF Init, Still
  <2>2. saw.due = 0 /\ back = 0
    BY DEF Init
  <2> QED BY <2>1, <2>2 DEF Settled
<1>15. InFlight
  BY <1>9, <1>10 DEF Init, InFlight, Carried, One
<1>16. Ledger
  BY <1>2, <1>9, <1>10 DEF Init, Ledger, One, LivePlaces
<1>17. Reads
  BY DEF Init, Reads
<1> QED BY <1>5, <1>11, <1>12, <1>13, <1>14, <1>15, <1>16, <1>17 DEF HInv

\* Every step keeps the invariant.
LEMMA StepInv ==
  ASSUME TestsTyped, LiveAcks, HInv, [Next]_vars
  PROVE  HInv'
<1>1. /\ Typed /\ OnePlace /\ Followed /\ Fires /\ (test = "idle" => Settled)
      /\ (~Live => InFlight) /\ (Live => Ledger /\ Reads)
  BY DEF HInv
<1>2. queue \subseteq Nat
  BY <1>1, PlacesFinite
<1>3. Live' = Live
  BY ConfStays
<1>4. Typed'
  BY <1>1, <1>2, StepTyped
<1>5. OnePlace' /\ Followed' /\ Fires'
  BY <1>1, StepOnePlace, StepFollowed, StepFires
<1>6. test' = "idle" => Settled'
  BY <1>1, StepStill
<1>7. ~Live => InFlight'
  BY <1>1, StepInFlight
<1>8. Live => Ledger' /\ Reads'
  BY <1>1, StepLedger, StepReads
<1> QED BY <1>3, <1>4, <1>5, <1>6, <1>7, <1>8 DEF HInv

\* What the invariant says where the test asserts.
LEMMA StillInv ==
  ASSUME TestsTyped, HInv
  PROVE  SettledIsStill
<1>1. SUFFICES ASSUME test = "idle", Live => back <= saw.due
               PROVE  /\ queue = {} /\ firing = {} /\ fired = {}
                      /\ \A w \in Workers : worker[w].at = "idle"
                      /\ cancelled
                           \/ 1 .. made \cup {conf.tests + i : i \in 1 .. cascade} \subseteq seen
  BY DEF SettledIsStill
<1>2. queue = {} /\ firing = {} /\ fired = {} /\ \A w \in Workers : worker[w].at = "idle"
  BY <1>1 DEF HInv, Settled, Still
<1>3. Messages(worker, Unhandled) = {}
  BY <1>2 DEF Messages, Standing, Unhandled
<1>4. cancelled \/ Issued \subseteq seen
  BY <1>2, <1>3 DEF HInv, Followed
<1>5. 1 .. made \cup {conf.tests + i : i \in 1 .. cascade} \subseteq Issued
  <2>1. conf.tests \in Nat /\ cascade \in Nat
    BY DEF HInv, Typed, TestsTyped
  <2>2. \A i \in 1 .. cascade : conf.tests + i \in conf.tests + 1 .. conf.tests + cascade
    BY <2>1
  <2> QED BY <2>2 DEF Issued
<1> QED BY <1>2, <1>4, <1>5

\* Coordinator::drive and settle_live.  When a publish of the test, or an advance of its clock, has
\* returned, no delivery is queued or on its way back, no call runs and every message was handled:
\* for any number of workers, messages and cascades, whatever handlers do in process, and for
\* handlers that ack or delay live, where the broker and the clock go on while the test settles and
\* asserts, until a redelivery comes back that was not due when the settle took the time.
THEOREM ReturnsWhenStill ==
  ASSUME TestsTyped, LiveAcks
  PROVE  Safe => []SettledIsStill
<1>1. Init => HInv
  BY InitInv
<1>2. HInv /\ [Next]_vars => HInv'
  BY StepInv
<1>3. HInv => SettledIsStill
  BY StillInv
<1> QED BY <1>1, <1>2, <1>3, PTL DEF Safe
============================================================================
