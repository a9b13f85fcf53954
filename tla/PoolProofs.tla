----------------------------- MODULE PoolProofs -----------------------------
(***************************************************************************)
(* What the two Tokio pools keep for any number of workers and messages:   *)
(* the queue of free workers holds each worker once, and only one that is  *)
(* free, so that a report always finds room; the slot of a batch worker is *)
(* in one place, and a worker that panicked is found by the batch loop.    *)
(* Both pools implement Dispatch.                                          *)
(***************************************************************************)
EXTENDS MCPools, FiniteSetTheorems, TLAPS

(***************************************************************************)
(* The inductive invariant of the worker pool                              *)
(***************************************************************************)
WorkerPlaces == {"recv", "dispatch", "report", "farewell", "dropping", "ended"}
LoopPlaces == {"top", "free", "poll", "send", "close", "join", "done"}

Distinct(s) == \A i, j \in 1 .. Len(s) : i # j => s[i] # s[j]

WorkerTypes ==
  /\ keyed \in BOOLEAN
  /\ inbox \in [Crew -> Seq(Nat)] /\ \A w \in Crew : Len(inbox[w]) <= 1
  /\ free \in Seq(Crew)
  /\ at \in [Crew -> WorkerPlaces]
  /\ hand \in [Crew -> Nat]
  /\ loop \in LoopPlaces
  /\ held \in Crew \cup {None}
  /\ worker \in Crew
  /\ carry \in Nat
  /\ rotation \in Crew
  /\ keyOf \in Seq(Keys \cup {NoKey})

\* The loop has the index of worker w: in the queue, held, or as the one it sends to.
Offered(w) == w \in Range(free) \/ held = w \/ (loop = "send" /\ worker = w)

\* The index of a pool's worker is in one place: with the loop, or with the worker, that has a
\* delivery queued or at hand or is about to report.
WorkerOnce ==
  ~keyed =>
    /\ Distinct(free)
    /\ \A w \in Crew :
         /\ Offered(w) => at[w] \in {"recv", "dropping", "ended"} /\ inbox[w] = << >>
         /\ ~(held = w /\ w \in Range(free))
         /\ loop = "send" /\ worker = w => w \notin Range(free)
         /\ at[w] \in {"dispatch", "report", "farewell"} => inbox[w] = << >>
    /\ loop = "send" => held = None
    /\ loop = "poll" => held # None
    /\ loop = "free" => held = None

WorkerInv == WorkerTypes /\ WorkerOnce

(***************************************************************************)
(* The inductive invariant of the batch pool                               *)
(***************************************************************************)
BatchPlaces == {"flag", "pop", "wait", "run", "report", "tell", "mark", "lastReport", "lastTell",
                "ended"}
BatchLoopPlaces ==
  {"top", "look", "wait", "poll", "hand", "notify", "close", "closeTell", "done"}
Closing == {"close", "closeTell", "done"}

\* A report: a worker, and whether it gives its slot back.
Entries == Crew \X BOOLEAN

BatchTypes ==
  /\ queue \in Seq(Entries)
  /\ slots \in SUBSET Crew
  /\ box \in [Crew -> Nat]
  /\ shut \in SUBSET Crew /\ left \in SUBSET Crew
  /\ saw \in [Crew -> BOOLEAN]
  /\ at \in [Crew -> BatchPlaces]
  /\ hand \in [Crew -> Nat]
  /\ loop \in BatchLoopPlaces
  /\ held \in Crew \cup {None}
  /\ carry \in Nat
  /\ closing \in Nat
  /\ keyOf \in Seq({NoKey})

\* A free list q has worker w in it, with its slot, and each worker once.
Has(q, w) == \E i \in 1 .. Len(q) : q[i][1] = w
Returns(q, w) == \E i \in 1 .. Len(q) : q[i] = <<w, TRUE>>
Once(q) == \A i, j \in 1 .. Len(q) : i # j => q[i][1] # q[j][1]

Queued(w) == Has(queue, w)
Returned(w) == Returns(queue, w)
Filling(w) == held = w /\ loop # "notify"

\* Where the loop and the workers are, and what they have.
BatchControl ==
  /\ loop = "hand" => carry # 0
  /\ loop \in {"poll", "hand", "notify"} => held # None
  /\ loop \in {"look", "wait"} => held = None
  /\ shut # {} => loop \in Closing
  /\ aborted => loop = "done"
  /\ \A w \in Crew :
       /\ hand[w] # 0 <=> at[w] = "run"
       /\ saw[w] => w \in shut
       /\ at[w] \in {"lastReport", "lastTell"} => w \in left
       /\ at[w] = "ended" => w \in left \/ loop \in Closing
       /\ w \in left => at[w] \in {"lastReport", "lastTell", "ended"}

\* The slot of a worker is in one place, and the loop has the slot of none that is gone.
SlotOf(w) ==
  /\ w \in slots => ~Filling(w) /\ box[w] = 0 /\ hand[w] = 0 /\ at[w] # "report" /\ ~Returned(w)
  /\ Filling(w) => box[w] = 0 /\ hand[w] = 0 /\ at[w] # "report" /\ ~Returned(w)
  /\ box[w] # 0 => hand[w] = 0 /\ at[w] # "report" /\ ~Returned(w)
  /\ hand[w] # 0 \/ at[w] = "report" => ~Returned(w)
  /\ ~aborted /\ (w \in left \/ at[w] = "mark") =>
       w \notin slots /\ ~Filling(w) /\ box[w] = 0 /\ ~Returned(w)

SlotOnce == \A w \in Crew : SlotOf(w)

\* It is somewhere, as long as the loop reads and the worker lives.
SlotSomewhere ==
  loop \notin Closing => \A w \in Crew :
    \/ w \in slots \/ Filling(w) \/ box[w] # 0 \/ hand[w] # 0 \/ at[w] = "report" \/ Returned(w)
    \/ w \in left \/ at[w] = "mark"

\* The free list holds a worker once, and none that runs, is about to report or is offered a batch.
QueueOnce ==
  ~aborted =>
    /\ Once(queue)
    /\ \A w \in Crew : Queued(w) =>
         /\ ~Filling(w) /\ box[w] = 0
         /\ at[w] \notin {"run", "report", "mark", "lastReport"}
    /\ \A w \in Crew : w \in slots => Queued(w)
    /\ \A w \in Crew : at[w] \in {"lastTell", "ended"} => loop \in Closing \/ Queued(w)

BatchInv ==
  BatchTypes /\ BatchControl /\ SlotOnce /\ SlotSomewhere /\ QueueOnce /\ Len(queue) <= N

PoolsInv == (kind = "deliveries" => WorkerInv) /\ (kind = "batches" => BatchInv)

(***************************************************************************)
(* Sequences without repetitions                                           *)
(***************************************************************************)
LEMMA AppendOne ==
  ASSUME NEW S, NEW s \in Seq(S), NEW x \in S
  PROVE  /\ Append(s, x) \in Seq(S) /\ Range(Append(s, x)) = Range(s) \cup {x}
         /\ Distinct(s) /\ x \notin Range(s) => Distinct(Append(s, x))
<1> DEFINE q == Append(s, x)  n == Len(s)
<1>1. /\ q \in Seq(S) /\ Len(q) = n + 1 /\ n \in Nat
      /\ \A i \in 1 .. n : q[i] = s[i]
      /\ q[n + 1] = x
  OBVIOUS
<1>2. DOMAIN s = 1 .. n /\ DOMAIN q = 1 .. n + 1
  BY <1>1
<1> HIDE DEF q, n
<1>3. \A i \in 1 .. n : i \in 1 .. n + 1
  BY <1>1
<1>4. \A i \in 1 .. n + 1 : i \in 1 .. n \/ i = n + 1
  BY <1>1
<1>5. n + 1 \in 1 .. n + 1
  BY <1>1
<1>6. Range(q) = Range(s) \cup {x}
  BY <1>1, <1>2, <1>3, <1>4, <1>5 DEF Range
<1>7. ASSUME Distinct(s), x \notin Range(s) PROVE Distinct(q)
  <2>1. \A i, j \in 1 .. n : i # j => s[i] # s[j]
    BY <1>7 DEF Distinct, n
  <2>2. \A i \in 1 .. n : s[i] # x
    BY <1>2, <1>7 DEF Range
  <2>3. \A i, j \in 1 .. n + 1 : i # j => q[i] # q[j]
    BY <1>1, <1>4, <2>1, <2>2
  <2> QED BY <1>1, <2>3 DEF Distinct
<1> QED BY <1>1, <1>6, <1>7 DEF q

LEMMA TailOne ==
  ASSUME NEW S, NEW s \in Seq(S), s # << >>
  PROVE  /\ Head(s) \in S /\ Head(s) \in Range(s)
         /\ Tail(s) \in Seq(S) /\ Range(Tail(s)) \subseteq Range(s)
         /\ Distinct(s) => Distinct(Tail(s)) /\ Head(s) \notin Range(Tail(s))
         /\ \A x \in Range(s) : x = Head(s) \/ x \in Range(Tail(s))
<1> DEFINE q == Tail(s)  n == Len(s)
<1>1. /\ q \in Seq(S) /\ Len(q) = n - 1 /\ n \in Nat /\ n > 0 /\ Head(s) = s[1]
      /\ \A i \in 1 .. n - 1 : q[i] = s[i + 1]
  OBVIOUS
<1>2. DOMAIN s = 1 .. n /\ DOMAIN q = 1 .. n - 1
  BY <1>1
<1>3. Head(s) \in S
  OBVIOUS
<1> HIDE DEF q, n
<1>4. 1 \in 1 .. n /\ \A i \in 1 .. n - 1 : i + 1 \in 1 .. n /\ i + 1 # 1
  BY <1>1
<1>5. Head(s) \in Range(s)
  BY <1>1, <1>2, <1>4 DEF Range
<1>6. Range(q) \subseteq Range(s)
  BY <1>1, <1>2, <1>4 DEF Range
<1>7. ASSUME Distinct(s) PROVE Distinct(q) /\ Head(s) \notin Range(q)
  <2>1. \A i, j \in 1 .. n : i # j => s[i] # s[j]
    BY <1>7 DEF Distinct, n
  <2>2. \A i, j \in 1 .. n - 1 : i # j => i + 1 # j + 1
    BY <1>1
  <2>3. \A i, j \in 1 .. n - 1 : i # j => q[i] # q[j]
    BY <1>1, <1>4, <2>1, <2>2
  <2>4. \A i \in 1 .. n - 1 : q[i] # s[1]
    BY <1>1, <1>4, <2>1
  <2> QED BY <1>1, <1>2, <2>3, <2>4 DEF Distinct, Range
<1>8. ASSUME NEW x \in Range(s), x # Head(s) PROVE x \in Range(q)
  <2>1. PICK i \in 1 .. n : x = s[i]
    BY <1>2 DEF Range
  <2>2. i # 1
    BY <1>1, <1>8, <2>1
  <2>3. i - 1 \in 1 .. n - 1 /\ (i - 1) + 1 = i
    BY <1>1, <2>2
  <2>4. q[i - 1] = x
    BY <1>1, <2>1, <2>3
  <2> QED BY <1>2, <2>3, <2>4 DEF Range
<1> QED BY <1>1, <1>3, <1>5, <1>6, <1>7, <1>8 DEF q

\* A sequence of workers without repetitions that leaves one out has room for it.
LEMMA RoomForOne ==
  ASSUME NEW s \in Seq(Crew), Distinct(s), NEW w \in Crew, w \notin Range(s)
  PROVE  Len(s) < N
<1>1. N \in Nat /\ N > 0
  BY PoolAssumption
<1>2. IsFiniteSet(Crew) /\ Cardinality(Crew) = N
  <2>1. 0 \in Int /\ N - 1 \in Int /\ ~(0 > N - 1) /\ (N - 1) - 0 + 1 = N
    BY <1>1
  <2> QED BY <2>1, FS_Interval DEF Crew
<1>3. IsFiniteSet(Crew \ {w}) /\ Cardinality(Crew \ {w}) = N - 1
  BY <1>2, FS_RemoveElement
<1>4. DOMAIN s = 1 .. Len(s) /\ Len(s) \in Nat
  OBVIOUS
<1>5. s \in Injection(1 .. Len(s), Crew \ {w})
  <2>1. \A i \in 1 .. Len(s) : s[i] \in Crew \ {w}
    BY <1>4 DEF Range
  <2>2. s \in [1 .. Len(s) -> Crew \ {w}]
    BY <1>4, <2>1
  <2>3. \A i, j \in 1 .. Len(s) : s[i] = s[j] => i = j
    BY DEF Distinct
  <2> QED BY <2>2, <2>3 DEF Injection, IsInjective
<1>6. Cardinality(1 .. Len(s)) <= N - 1
  BY <1>3, <1>5, FS_Injection
<1>7. Cardinality(1 .. Len(s)) = Len(s)
  <2>1. Cardinality(1 .. Len(s)) = IF 1 > Len(s) THEN 0 ELSE Len(s) - 1 + 1
    BY <1>4, FS_Interval
  <2> QED BY <1>4, <2>1
<1> QED BY <1>1, <1>4, <1>6, <1>7

\* The free list of the batch pool: a report, and the loop's look at it.
LEMMA ListGrows ==
  ASSUME NEW q \in Seq(Entries), NEW v \in Crew, NEW b \in BOOLEAN
  PROVE  LET p == Append(q, <<v, b>>)
         IN  /\ p \in Seq(Entries) /\ Len(p) = Len(q) + 1
             /\ \A w \in Crew : Has(p, w) <=> Has(q, w) \/ w = v
             /\ \A w \in Crew : Returns(p, w) <=> Returns(q, w) \/ (w = v /\ b)
             /\ Once(q) /\ ~Has(q, v) => Once(p)
<1> DEFINE x == <<v, b>>  p == Append(q, x)  n == Len(q)
<1>1. x \in Entries /\ x[1] = v /\ \A w : x = <<w, TRUE>> <=> w = v /\ b
  BY DEF Entries
<1> HIDE DEF x
<1>2. /\ p \in Seq(Entries) /\ Len(p) = n + 1 /\ n \in Nat
      /\ \A i \in 1 .. n : p[i] = q[i]
      /\ p[n + 1] = x
  BY <1>1
<1> HIDE DEF p, n
<1>3. /\ \A i \in 1 .. n : i \in 1 .. n + 1
      /\ \A i \in 1 .. n + 1 : i \in 1 .. n \/ i = n + 1
      /\ n + 1 \in 1 .. n + 1
  BY <1>2
<1>4. ASSUME NEW w \in Crew PROVE Has(p, w) <=> Has(q, w) \/ w = v
  BY <1>1, <1>2, <1>3 DEF Has, n
<1>5. ASSUME NEW w \in Crew PROVE Returns(p, w) <=> Returns(q, w) \/ (w = v /\ b)
  BY <1>1, <1>2, <1>3 DEF Returns, n
<1>6. ASSUME Once(q), ~Has(q, v) PROVE Once(p)
  <2>1. /\ \A i, j \in 1 .. n : i # j => q[i][1] # q[j][1]
        /\ \A i \in 1 .. n : q[i][1] # v
    BY <1>6 DEF Once, Has, n
  <2> QED BY <1>1, <1>2, <1>3, <2>1 DEF Once
<1> QED BY <1>2, <1>4, <1>5, <1>6 DEF p, n, x

LEMMA ListShrinks ==
  ASSUME NEW q \in Seq(Entries), q # << >>
  PROVE  LET p == Tail(q)
             h == Head(q)
         IN  /\ h \in Entries /\ Has(q, h[1]) /\ (h[2] => Returns(q, h[1]))
             /\ p \in Seq(Entries) /\ Len(p) = Len(q) - 1
             /\ \A w \in Crew : Has(p, w) => Has(q, w)
             /\ \A w \in Crew : Has(q, w) => w = h[1] \/ Has(p, w)
             /\ \A w \in Crew : Returns(p, w) => Returns(q, w)
             /\ \A w \in Crew : Returns(q, w) => (w = h[1] /\ h[2]) \/ Returns(p, w)
             /\ Once(q) => Once(p) /\ ~Has(p, h[1])
<1> DEFINE p == Tail(q)  h == Head(q)  n == Len(q)
<1>1. /\ p \in Seq(Entries) /\ Len(p) = n - 1 /\ n \in Nat /\ n > 0 /\ h = q[1] /\ h \in Entries
      /\ \A i \in 1 .. n - 1 : p[i] = q[i + 1]
  OBVIOUS
<1> HIDE DEF p, n, h
<1>2. 1 \in 1 .. n /\ \A i \in 1 .. n - 1 : i + 1 \in 1 .. n /\ i + 1 # 1
  BY <1>1
<1>3. ASSUME NEW i \in 1 .. n PROVE i = 1 \/ (i - 1 \in 1 .. n - 1 /\ q[i] = p[i - 1])
  <2>1. CASE i # 1
    <3>1. i - 1 \in 1 .. n - 1 /\ (i - 1) + 1 = i
      BY <1>1, <2>1
    <3>2. p[i - 1] = q[(i - 1) + 1]
      BY <1>1, <3>1
    <3> QED BY <3>1, <3>2
  <2> QED BY <2>1
<1>4. Has(q, h[1]) /\ (h[2] => Returns(q, h[1]))
  <2>0. PICK c \in Crew, b \in BOOLEAN : h = <<c, b>>
    BY <1>1 DEF Entries
  <2>1. h[2] => h = <<h[1], TRUE>>
    <3>1. h[1] = c /\ h[2] = b
      BY <2>0
    <3> QED BY <2>0, <3>1
  <2> QED BY <1>1, <1>2, <2>1 DEF Has, Returns, n
<1>5. ASSUME NEW w \in Crew
      PROVE  (Has(p, w) => Has(q, w)) /\ (Returns(p, w) => Returns(q, w))
  BY <1>1, <1>2 DEF Has, Returns, n
<1>6. ASSUME NEW w \in Crew, Has(q, w) PROVE w = h[1] \/ Has(p, w)
  <2>1. PICK i \in 1 .. n : q[i][1] = w
    BY <1>6 DEF Has, n
  <2> QED BY <1>1, <1>3, <2>1 DEF Has
<1>7. ASSUME NEW w \in Crew, Returns(q, w) PROVE (w = h[1] /\ h[2]) \/ Returns(p, w)
  <2>1. PICK i \in 1 .. n : q[i] = <<w, TRUE>>
    BY <1>7 DEF Returns, n
  <2>2. CASE i = 1
    <3>1. h = <<w, TRUE>>
      BY <1>1, <2>1, <2>2
    <3> QED BY <3>1
  <2>3. CASE i # 1
    BY <1>1, <1>3, <2>1, <2>3 DEF Returns
  <2> QED BY <2>2, <2>3
<1>8. ASSUME Once(q) PROVE Once(p) /\ ~Has(p, h[1])
  <2>1. \A i, j \in 1 .. n : i # j => q[i][1] # q[j][1]
    BY <1>8 DEF Once, n
  <2>2. \A i, j \in 1 .. n - 1 : i # j => i + 1 # j + 1
    BY <1>1
  <2>3. ASSUME NEW i \in 1 .. n - 1, NEW j \in 1 .. n - 1, i # j PROVE p[i][1] # p[j][1]
    <3>1. p[i] = q[i + 1] /\ p[j] = q[j + 1] /\ i + 1 \in 1 .. n /\ j + 1 \in 1 .. n
      BY <1>1, <1>2
    <3> QED BY <2>1, <2>2, <2>3, <3>1
  <2>4. \A i \in 1 .. n - 1 : p[i][1] # q[1][1]
    BY <1>1, <1>2, <2>1
  <2> QED BY <1>1, <2>3, <2>4 DEF Once, Has
<1> QED BY <1>1, <1>4, <1>5, <1>6, <1>7, <1>8 DEF p, h, n

LEMMA ListHasRoom ==
  ASSUME NEW q \in Seq(Entries), Once(q), NEW w \in Crew, ~Has(q, w)
  PROVE  Len(q) < N
<1> DEFINE s == [i \in 1 .. Len(q) |-> q[i][1]]
<1>1. Len(q) \in Nat /\ \A i \in 1 .. Len(q) : q[i] \in Entries
  OBVIOUS
<1>2. \A i \in 1 .. Len(q) : q[i][1] \in Crew
  BY <1>1 DEF Entries
<1>3. /\ s \in Seq(Crew) /\ Len(s) = Len(q) /\ DOMAIN s = 1 .. Len(q)
      /\ \A i \in 1 .. Len(q) : s[i] = q[i][1]
  BY <1>1, <1>2
<1> HIDE DEF s
<1>4. Distinct(s)
  BY <1>3 DEF Distinct, Once
<1>5. w \notin Range(s)
  BY <1>3 DEF Range, Has
<1> QED BY <1>3, <1>4, <1>5, RoomForOne

(***************************************************************************)
(* Every step of the worker pool keeps its invariant                       *)
(***************************************************************************)

LEMMA StepWorkerTypes ==
  ASSUME WorkerTypes, [Next]_vars
  PROVE  WorkerTypes'
  <1> USE DEF WorkerTypes, WorkerPlaces, LoopPlaces, poolVars, workerVars, loopVars, stopVars,
     history
  <1>a. N \in Nat \ {0} /\ None \notin Crew /\ NoKey \notin Keys /\ KeyIndex \in [Keys -> Crew]
        /\ Crew = 0 .. N - 1
    BY PoolAssumption DEF Crew
  <1>b. ASSUME NEW r \in Crew PROVE (r + 1) % N \in Crew
    <2>1. r + 1 \in Int /\ N \in Int /\ N > 0
      BY <1>a
    <2>2. (r + 1) % N \in 0 .. N - 1
      BY SMTT(30), <2>1
    <2> QED BY <1>a, <2>2
  <1>c. << >> \in Seq(Crew) /\ << >> \in Seq(Nat) /\ Len(<< >>) = 0
    OBVIOUS
  <1>1. ASSUME NEW w \in Crew, Recv(w)
        PROVE  WorkerTypes'
    <2>1. Head(inbox[w]) \in Nat /\ Tail(inbox[w]) \in Seq(Nat) /\ Len(Tail(inbox[w])) <= 1
      BY <1>1 DEF Recv
    <2> QED BY <2>1, <1>1 DEF Recv, Goto
  <1>2. ASSUME NEW w \in Crew, RecvEnds(w)
        PROVE  WorkerTypes'
    BY <1>2 DEF RecvEnds, Goto
  <1>3. ASSUME NEW w \in Crew, DispatchReturns(w)
        PROVE  WorkerTypes'
    BY <1>3 DEF DispatchReturns, Goto
  <1>4. ASSUME NEW w \in Crew, Report(w)
        PROVE  WorkerTypes'
    <2>1. Append(free, w) \in Seq(Crew)
      OBVIOUS
    <2>2. free' \in Seq(Crew) /\ at' \in [Crew -> WorkerPlaces]
      BY <2>1, <1>4 DEF Report, Goto
    <2> QED BY <2>2, <1>4 DEF Report
  <1>5. ASSUME NEW w \in Crew, Panic(w)
        PROVE  WorkerTypes'
    BY <1>5 DEF Panic, Goto
  <1>6. ASSUME NEW w \in Crew, FarewellDrop(w)
        PROVE  WorkerTypes'
    <2>1. Append(free, w) \in Seq(Crew)
      OBVIOUS
    <2> QED BY <2>1, <1>6 DEF FarewellDrop, Goto
  <1>7. ASSUME NEW w \in Crew, DropInbox(w)
        PROVE  WorkerTypes'
    BY <1>c, <1>7 DEF DropInbox, Goto
  <1>8. ASSUME NEW w \in Crew, WorkerAborted(w)
        PROVE  WorkerTypes'
    BY <1>8 DEF WorkerAborted, Goto
  <1>9. CASE TakeFree
    <2>1. Head(free) \in Crew /\ Tail(free) \in Seq(Crew)
      BY <1>9, TailOne DEF TakeFree
    <2> QED BY <2>1, <1>9 DEF TakeFree
  <1>10. ASSUME NEW k \in Keys \cup {NoKey}, Pull(k)
         PROVE  WorkerTypes'
    <2>1. worker' \in Crew /\ rotation' \in Crew /\ held' = None /\ loop' = "send"
      BY <1>a, <1>b, <1>10 DEF Pull, WorkerFor
    <2>2. keyOf' \in Seq(Keys \cup {NoKey}) /\ carry' \in Nat
      BY <1>10 DEF Pull
    <2> QED BY <2>1, <2>2, <1>10 DEF Pull
  <1>11. CASE Send
    <2>1. <<carry>> \in Seq(Nat) /\ Len(<<carry>>) = 1
      OBVIOUS
    <2>2. inbox' \in [Crew -> Seq(Nat)] /\ \A v \in Crew : Len(inbox'[v]) <= 1
      <3> DEFINE one == <<carry>>
      <3>1. inbox' = inbox \/ inbox' = [inbox EXCEPT ![worker] = one]
        BY <1>11 DEF Send
      <3>2. one \in Seq(Nat) /\ Len(one) <= 1
        BY <2>1
      <3> HIDE DEF one
      <3> QED BY <3>1, <3>2
    <2> QED BY <2>2, <1>11 DEF Send
  <1>12. CASE Abort
    BY <1>c, <1>12 DEF Abort
  <1>13. CASE \/ Top \/ FreeStops \/ PullFails \/ PullStops("shutdown") \/ PullStops("ended")
              \/ Close \/ Join \/ Cancel \/ Done \/ UNCHANGED vars
    BY <1>13 DEF Top, FreeStops, PullFails, PullStops, Close, Join, Cancel, Done, vars
  <1> QED
    BY <1>1, <1>2, <1>3, <1>4, <1>5, <1>6, <1>7, <1>8, <1>9, <1>10, <1>11, <1>12, <1>13 DEF
       Next, WorkerStep, LoopStep, StreamStep

LEMMA StepWorkerOnce ==
  ASSUME WorkerTypes, WorkerOnce, [Next]_vars
  PROVE  WorkerOnce'
  <1> USE DEF WorkerTypes, WorkerOnce, Offered, WorkerPlaces, LoopPlaces, poolVars, workerVars,
     loopVars, stopVars, history
  <1>t. WorkerTypes' /\ None \notin Crew
    BY StepWorkerTypes, PoolAssumption
  <1>u. keyed' = keyed
    BY DEF Next, WorkerStep, LoopStep, StreamStep, vars, Recv, RecvEnds, DispatchReturns, Report,
       Panic, FarewellDrop, DropInbox, WorkerAborted, Top, TakeFree, FreeStops, Pull, PullFails,
       PullStops, Send, Close, Join, Abort, Cancel, Done
  <1> SUFFICES ASSUME ~keyed PROVE WorkerOnce'
    BY <1>u DEF WorkerOnce
  <1>1. ASSUME NEW w \in Crew, Recv(w)
        PROVE  WorkerOnce'
    <2>1. inbox'[w] = << >>
      BY <1>1 DEF Recv
    <2> QED BY <1>t, <2>1, <1>1 DEF Recv, Goto
  <1>2. ASSUME NEW w \in Crew, RecvEnds(w)
        PROVE  WorkerOnce'
    BY <1>t, <1>2 DEF RecvEnds, Goto
  <1>3. ASSUME NEW w \in Crew, DispatchReturns(w)
        PROVE  WorkerOnce'
    BY <1>t, <1>3 DEF DispatchReturns, Goto
  <1>4. ASSUME NEW w \in Crew, Report(w)
        PROVE  WorkerOnce'
    <2>1. CASE ~freeClosed
      <3>1. w \notin Range(free)
        BY <1>t, <1>4 DEF Report
      <3>2. Range(free') = Range(free) \cup {w} /\ Distinct(free')
        <4>1. free' = Append(free, w)
          BY <2>1, <1>4 DEF Report
        <4> QED BY <3>1, <4>1, AppendOne
      <3> QED BY <1>t, <2>1, <3>1, <3>2, <1>4 DEF Report, Goto
    <2>2. CASE freeClosed
      BY <1>t, <2>2, <1>4 DEF Report, Goto
    <2> QED BY <2>1, <2>2
  <1>5. ASSUME NEW w \in Crew, Panic(w)
        PROVE  WorkerOnce'
    BY <1>t, <1>5 DEF Panic, Goto
  <1>6. ASSUME NEW w \in Crew, FarewellDrop(w)
        PROVE  WorkerOnce'
    <2>1. CASE free' = free
      BY <1>t, <2>1, <1>6 DEF FarewellDrop, Goto
    <2>2. CASE free' = Append(free, w)
      <3>1. w \notin Range(free)
        BY <1>t, <1>6 DEF FarewellDrop
      <3>2. Range(free') = Range(free) \cup {w} /\ Distinct(free')
        BY <2>2, <3>1, AppendOne
      <3> QED BY <1>t, <3>1, <3>2, <1>6 DEF FarewellDrop, Goto
    <2> QED BY <2>1, <2>2, <1>6 DEF FarewellDrop
  <1>7. ASSUME NEW w \in Crew, DropInbox(w)
        PROVE  WorkerOnce'
    BY <1>t, <1>7 DEF DropInbox, Goto
  <1>8. ASSUME NEW w \in Crew, WorkerAborted(w)
        PROVE  WorkerOnce'
    BY <1>t, <1>8 DEF WorkerAborted, Goto
  <1>9. CASE TakeFree
    <2>1. /\ held' \in Range(free) /\ held' \in Crew /\ held' \notin Range(free')
          /\ Range(free') \subseteq Range(free) /\ Distinct(free')
      BY <1>9, TailOne DEF TakeFree
    <2> QED BY <1>t, <2>1, <1>9 DEF TakeFree
  <1>10. ASSUME NEW k \in Keys \cup {NoKey}, Pull(k)
         PROVE  WorkerOnce'
    BY <1>t, <1>10 DEF Pull, WorkerFor
  <1>11. CASE PullStops("shutdown")
    BY <1>t, <1>11 DEF PullStops
  <1>12. CASE PullStops("ended")
    BY <1>t, <1>12 DEF PullStops
  <1>13. CASE Send
    BY <1>t, <1>13 DEF Send
  <1>14. CASE Abort
    <2>1. Range(free') = {} /\ Distinct(free')
      <3>1. free' = << >> /\ DOMAIN << >> = {} /\ Len(<< >>) = 0
        BY <1>14 DEF Abort
      <3> QED BY <3>1 DEF Range, Distinct
    <2> QED BY <1>t, <2>1, <1>14 DEF Abort
  <1>15. CASE \/ Top \/ FreeStops \/ PullFails \/ Close \/ Join \/ Cancel \/ Done
              \/ UNCHANGED vars
    BY <1>t, <1>15 DEF Top, FreeStops, PullFails, Close, Join, Cancel, Done, vars
  <1> QED
    BY <1>1, <1>2, <1>3, <1>4, <1>5, <1>6, <1>7, <1>8, <1>9, <1>10, <1>11, <1>12, <1>13, <1>14,
       <1>15 DEF Next, WorkerStep, LoopStep, StreamStep

(***************************************************************************)
(* Every step of the batch pool keeps its invariant                        *)
(***************************************************************************)

LEMMA StepBatchTypes ==
  ASSUME BatchTypes, [Batch!Next]_(Batch!vars)
  PROVE  BatchTypes'
  <1> USE DEF BatchTypes, BatchPlaces, BatchLoopPlaces, Batch!freeVars, Batch!boxVars,
     Batch!workerVars, Batch!loopVars, Batch!stopVars, Batch!history
  <1>c. Batch!Crew = Crew /\ None \notin Crew
    BY PoolAssumption DEF Batch!Crew, Crew
  <1>n. N \in Nat
    BY PoolAssumption
  <1>1. ASSUME NEW w \in Crew, Batch!ReadClosed(w)
        PROVE  BatchTypes'
    BY <1>c, <1>1 DEF Batch!ReadClosed, Batch!Goto
  <1>2. ASSUME NEW w \in Crew, Batch!PopBox(w)
        PROVE  BatchTypes'
    <2>1. CASE box[w] # 0
      <3>1. /\ hand' = [hand EXCEPT ![w] = box[w]] /\ box' = [box EXCEPT ![w] = 0]
            /\ at' = [at EXCEPT ![w] = "run"]
        BY <2>1, <1>2 DEF Batch!PopBox, Batch!Goto
      <3>2. hand' \in [Crew -> Nat] /\ box' \in [Crew -> Nat] /\ at' \in [Crew -> BatchPlaces]
        BY <3>1
      <3> QED BY <3>2, <1>2 DEF Batch!PopBox
    <2>2. CASE box[w] = 0
      BY <2>2, <1>2 DEF Batch!PopBox, Batch!Goto
    <2> QED BY <2>1, <2>2
  <1>3. ASSUME NEW w \in Crew, Batch!Notified(w)
        PROVE  BatchTypes'
    BY <1>c, <1>3 DEF Batch!Notified, Batch!Goto
  <1>4. ASSUME NEW w \in Crew, Batch!RunReturns(w)
        PROVE  BatchTypes'
    BY <1>c, <1>4 DEF Batch!RunReturns, Batch!Goto
  <1>5. ASSUME NEW w \in Crew, Batch!Report(w)
        PROVE  BatchTypes'
    <2>1. <<w, at[w] = "report">> \in Entries
      BY DEF Entries
    <2>2. Append(queue, <<w, at[w] = "report">>) \in Seq(Entries)
      BY <2>1
    <2>3. queue' \in Seq(Entries)
      BY <2>2, <1>5 DEF Batch!Report
    <2>4. at' \in [Crew -> BatchPlaces]
      BY <1>5 DEF Batch!Report, Batch!Goto
    <2> QED BY <2>3, <2>4, <1>5 DEF Batch!Report
  <1>6. ASSUME NEW w \in Crew, Batch!Tell(w)
        PROVE  BatchTypes'
    BY <1>c, <1>6 DEF Batch!Tell, Batch!Goto
  <1>7. ASSUME NEW w \in Crew, Batch!Mark(w)
        PROVE  BatchTypes'
    BY <1>c, <1>7 DEF Batch!Mark, Batch!Goto
  <1>8. ASSUME NEW w \in Crew, Batch!WorkerAborted(w)
        PROVE  BatchTypes'
    BY <1>c, <1>8 DEF Batch!WorkerAborted, Batch!Goto
  <1>9. ASSUME NEW w \in Crew, Batch!Panic(w)
        PROVE  BatchTypes'
    BY <1>c, <1>9 DEF Batch!Panic, Batch!Goto
  <1>10. CASE Batch!Top
    BY <1>c, <1>10 DEF Batch!Top
  <1>11. CASE Batch!Acquire
    <2>1. Head(queue) \in Entries /\ Tail(queue) \in Seq(Entries)
      BY <1>11 DEF Batch!Acquire
    <2>2. Head(queue)[1] \in Crew
      BY <2>1 DEF Entries
    <2> QED BY <2>1, <2>2, <1>11 DEF Batch!Acquire
  <1>12. CASE Batch!NobodyFree
    BY <1>c, <1>12 DEF Batch!NobodyFree
  <1>13. CASE Batch!WaitEnds
    BY <1>c, <1>13 DEF Batch!WaitEnds
  <1>14. CASE Batch!Hand
    BY <1>c, <1>14 DEF Batch!Hand
  <1>15. CASE Batch!HandTells
    BY <1>c, <1>15 DEF Batch!HandTells
  <1>16. CASE Batch!CloseFlag
    <2>1. closing \in Crew
      BY <1>n, <1>16 DEF Batch!CloseFlag, Crew
    <2> QED BY <2>1, <1>16 DEF Batch!CloseFlag
  <1>17. CASE Batch!CloseTells
    BY <1>c, <1>17 DEF Batch!CloseTells
  <1>18. CASE Batch!Join
    BY <1>c, <1>18 DEF Batch!Join
  <1>19. CASE Batch!FillStops("shutdown")
    BY <1>c, <1>19 DEF Batch!FillStops
  <1>20. CASE Batch!Fill
    BY <1>c, <1>20 DEF Batch!Fill
  <1>21. CASE Batch!FillFails
    BY <1>c, <1>21 DEF Batch!FillFails
  <1>22. CASE Batch!FillStops("ended")
    BY <1>c, <1>22 DEF Batch!FillStops
  <1>23. CASE Batch!Cancel
    BY <1>c, <1>23 DEF Batch!Cancel
  <1>24. CASE Batch!Abort
    BY <1>c, <1>24 DEF Batch!Abort
  <1>25. CASE Batch!Done
    BY <1>c, <1>25 DEF Batch!Done, Batch!vars
  <1>26. CASE \/ UNCHANGED Batch!vars
    BY <1>c, <1>26 DEF Batch!vars
  <1> QED
    BY <1>c, <1>1, <1>2, <1>3, <1>4, <1>5, <1>6, <1>7, <1>8, <1>9, <1>10, <1>11, <1>12, <1>13,
       <1>14,
       <1>15, <1>16, <1>17, <1>18, <1>19, <1>20, <1>21, <1>22, <1>23, <1>24, <1>25, <1>26 DEF
       Batch!Next, Batch!WorkerStep, Batch!LoopStep, Batch!StreamStep

LEMMA StepBatchControl ==
  ASSUME BatchTypes, BatchControl, [Batch!Next]_(Batch!vars)
  PROVE  BatchControl'
  <1> USE DEF BatchTypes, BatchControl, BatchPlaces, BatchLoopPlaces, Closing, Batch!freeVars,
     Batch!boxVars, Batch!workerVars, Batch!loopVars, Batch!stopVars, Batch!history
  <1>c. Batch!Crew = Crew /\ None \notin Crew
    BY PoolAssumption DEF Batch!Crew, Crew
  <1>t. BatchTypes'
    BY StepBatchTypes
  <1>1. ASSUME NEW w \in Crew, Batch!ReadClosed(w)
        PROVE  BatchControl'
    BY <1>c, <1>t, <1>1 DEF Batch!ReadClosed, Batch!Goto
  <1>2. ASSUME NEW w \in Crew, Batch!PopBox(w)
        PROVE  BatchControl'
    BY <1>c, <1>t, <1>2 DEF Batch!PopBox, Batch!Goto
  <1>3. ASSUME NEW w \in Crew, Batch!Notified(w)
        PROVE  BatchControl'
    BY <1>c, <1>t, <1>3 DEF Batch!Notified, Batch!Goto
  <1>4. ASSUME NEW w \in Crew, Batch!RunReturns(w)
        PROVE  BatchControl'
    BY <1>c, <1>t, <1>4 DEF Batch!RunReturns, Batch!Goto
  <1>5. ASSUME NEW w \in Crew, Batch!Report(w)
        PROVE  BatchControl'
    BY <1>c, <1>t, <1>5 DEF Batch!Report, Batch!Goto
  <1>6. ASSUME NEW w \in Crew, Batch!Tell(w)
        PROVE  BatchControl'
    BY <1>c, <1>t, <1>6 DEF Batch!Tell, Batch!Goto
  <1>7. ASSUME NEW w \in Crew, Batch!Mark(w)
        PROVE  BatchControl'
    BY <1>c, <1>t, <1>7 DEF Batch!Mark, Batch!Goto
  <1>8. ASSUME NEW w \in Crew, Batch!WorkerAborted(w)
        PROVE  BatchControl'
    BY <1>c, <1>t, <1>8 DEF Batch!WorkerAborted, Batch!Goto
  <1>9. ASSUME NEW w \in Crew, Batch!Panic(w)
        PROVE  BatchControl'
    BY <1>c, <1>t, <1>9 DEF Batch!Panic, Batch!Goto
  <1>10. CASE Batch!Top
    BY <1>c, <1>t, <1>10 DEF Batch!Top
  <1>11. CASE Batch!Acquire
    <2>1. Head(queue) \in Entries
      BY <1>11 DEF Batch!Acquire
    <2>2. Head(queue)[1] \in Crew
      BY <2>1 DEF Entries
    <2> QED BY <1>c, <1>t, <2>2, <1>11 DEF Batch!Acquire
  <1>12. CASE Batch!NobodyFree
    BY <1>c, <1>t, <1>12 DEF Batch!NobodyFree
  <1>13. CASE Batch!WaitEnds
    BY <1>c, <1>t, <1>13 DEF Batch!WaitEnds
  <1>14. CASE Batch!Hand
    BY <1>c, <1>t, <1>14 DEF Batch!Hand
  <1>15. CASE Batch!HandTells
    BY <1>c, <1>t, <1>15 DEF Batch!HandTells
  <1>16. CASE Batch!CloseFlag
    BY <1>c, <1>t, <1>16 DEF Batch!CloseFlag
  <1>17. CASE Batch!CloseTells
    BY <1>c, <1>t, <1>17 DEF Batch!CloseTells
  <1>18. CASE Batch!Join
    BY <1>c, <1>t, <1>18 DEF Batch!Join
  <1>19. CASE Batch!FillStops("shutdown")
    BY <1>c, <1>t, <1>19 DEF Batch!FillStops
  <1>20. CASE Batch!Fill
    BY <1>c, <1>t, <1>20 DEF Batch!Fill
  <1>21. CASE Batch!FillFails
    BY <1>c, <1>t, <1>21 DEF Batch!FillFails
  <1>22. CASE Batch!FillStops("ended")
    BY <1>c, <1>t, <1>22 DEF Batch!FillStops
  <1>23. CASE Batch!Cancel
    BY <1>c, <1>t, <1>23 DEF Batch!Cancel
  <1>24. CASE Batch!Abort
    BY <1>c, <1>t, <1>24 DEF Batch!Abort
  <1>25. CASE Batch!Done
    BY <1>c, <1>t, <1>25 DEF Batch!Done, Batch!vars
  <1>26. CASE \/ UNCHANGED Batch!vars
    BY <1>c, <1>t, <1>26 DEF Batch!vars
  <1> QED
    BY <1>c, <1>1, <1>2, <1>3, <1>4, <1>5, <1>6, <1>7, <1>8, <1>9, <1>10, <1>11, <1>12, <1>13,
       <1>14,
       <1>15, <1>16, <1>17, <1>18, <1>19, <1>20, <1>21, <1>22, <1>23, <1>24, <1>25, <1>26 DEF
       Batch!Next, Batch!WorkerStep, Batch!LoopStep, Batch!StreamStep

LEMMA ReturnedIsQueued == \A w : Returned(w) => Queued(w)
<1> SUFFICES ASSUME NEW w, Returned(w) PROVE Queued(w)
  OBVIOUS
<1>1. PICK i \in 1 .. Len(queue) : queue[i] = <<w, TRUE>>
  BY DEF Returned, Returns
<1>2. queue[i][1] = w
  BY <1>1
<1> QED BY <1>2 DEF Queued, Has

LEMMA ReturnedIsQueuedThen == \A w : Returned(w)' => Queued(w)'
<1> SUFFICES ASSUME NEW w, Returned(w)' PROVE Queued(w)'
  OBVIOUS
<1>1. PICK i \in 1 .. Len(queue') : queue'[i] = <<w, TRUE>>
  BY DEF Returned, Returns
<1>2. queue'[i][1] = w
  BY <1>1
<1> QED BY <1>2 DEF Queued, Has

LEMMA SameQueue ==
  ASSUME queue' = queue
  PROVE  \A w : (Queued(w)' <=> Queued(w)) /\ (Returned(w)' <=> Returned(w))
BY DEF Queued, Returned

\* FreeList::report, of a worker that is free or of one that goes.
LEMMA ReportEffect ==
  ASSUME BatchTypes, QueueOnce, NEW w \in Crew, Batch!Report(w)
  PROVE  /\ \/ (at[w] = "report" /\ at' = [at EXCEPT ![w] = "tell"])
            \/ (at[w] = "lastReport" /\ at' = [at EXCEPT ![w] = "lastTell"])
         /\ UNCHANGED <<reported, slots, box, arrived, shut, left, saw, hand, loop, held, carry,
                        closing, cancelled, aborted, keyOf>>
         /\ \A v \in Crew : /\ Queued(v)' => Queued(v) \/ v = w
                            /\ Queued(v) => Queued(v)'
                            /\ Returned(v)' => Returned(v) \/ (v = w /\ at[w] = "report")
                            /\ Returned(v) => Returned(v)'
         /\ ~aborted => /\ Once(queue') /\ Queued(w)' /\ (at[w] = "report" => Returned(w)')
         /\ Len(queue) <= N => Len(queue') <= N
<1>0. PICK b \in BOOLEAN : b = (at[w] = "report")
  OBVIOUS
<1>1. /\ b \in BOOLEAN /\ queue \in Seq(Entries) /\ Len(queue) \in Nat /\ N \in Nat
      /\ at[w] \in {"report", "lastReport"}
  BY PoolAssumption DEF BatchTypes, Batch!Report
<1>2. queue' = IF Len(queue) < N THEN Append(queue, <<w, b>>) ELSE queue
  BY <1>0 DEF Batch!Report
<1>3. /\ \/ (at[w] = "report" /\ at' = [at EXCEPT ![w] = "tell"])
         \/ (at[w] = "lastReport" /\ at' = [at EXCEPT ![w] = "lastTell"])
      /\ UNCHANGED <<reported, slots, box, arrived, shut, left, saw, hand, loop, held, carry,
                     closing, cancelled, aborted, keyOf>>
  BY <1>1 DEF Batch!Report, Batch!Goto, Batch!boxVars, Batch!loopVars, Batch!stopVars,
     Batch!history
<1>4. ~aborted => Len(queue) < N
  <2>1. ~aborted => Once(queue) /\ ~Has(queue, w)
    BY <1>1 DEF QueueOnce, Queued
  <2> QED BY <1>1, <2>1, ListHasRoom
<1>5. ~aborted => Once(queue) /\ ~Has(queue, w)
  BY <1>1 DEF QueueOnce, Queued
<1>6. CASE Len(queue) < N
  <2> DEFINE p == Append(queue, <<w, b>>)
  <2>1. queue' = p
    BY <1>2, <1>6
  <2>2. /\ p \in Seq(Entries) /\ Len(p) = Len(queue) + 1
        /\ \A v \in Crew : Has(p, v) <=> Has(queue, v) \/ v = w
        /\ \A v \in Crew : Returns(p, v) <=> Returns(queue, v) \/ (v = w /\ b)
        /\ Once(queue) /\ ~Has(queue, w) => Once(p)
    BY <1>1, ListGrows
  <2> HIDE DEF p
  <2>3. \A v : (Queued(v)' <=> Has(p, v)) /\ (Returned(v)' <=> Returns(p, v))
    BY <2>1 DEF Queued, Returned
  <2>4. Len(queue') <= N
    BY <1>1, <1>6, <2>1, <2>2
  <2>5. \A v \in Crew : /\ Queued(v)' <=> Queued(v) \/ v = w
                        /\ Returned(v)' <=> Returned(v) \/ (v = w /\ b)
    BY <2>2, <2>3 DEF Queued, Returned
  <2>6. ~aborted => Once(queue')
    BY <1>5, <2>1, <2>2
  <2>7. b <=> at[w] = "report"
    BY <1>0
  <2>8. ~aborted => Queued(w)' /\ (at[w] = "report" => Returned(w)')
    BY <2>5, <2>7
  <2>9. \A v \in Crew : Returned(v)' => Returned(v) \/ (v = w /\ at[w] = "report")
    BY <2>5, <2>7
  <2> QED BY <1>3, <2>4, <2>5, <2>6, <2>8, <2>9
<1>7. CASE ~(Len(queue) < N)
  <2>1. queue' = queue
    BY <1>2, <1>7
  <2> QED BY <1>3, <1>4, <1>7, <2>1, SameQueue
<1> QED BY <1>6, <1>7

\* FreeList::next and acquire.
LEMMA AcquireEffect ==
  ASSUME BatchTypes, BatchControl, QueueOnce, Batch!Acquire
  PROVE  \E u \in Crew :
           /\ Queued(u) /\ loop = "look" /\ ~aborted /\ held = None
           /\ Once(queue') /\ ~Queued(u)'
           /\ \A v \in Crew : v # u => (Queued(v)' <=> Queued(v)) /\ (Returned(v)' <=> Returned(v))
           /\ \/ /\ Returned(u) \/ u \in slots
                 /\ held' = u /\ slots' = slots \ {u} /\ loop' = "poll"
              \/ /\ ~Returned(u) /\ u \notin slots
                 /\ held' = held /\ slots' = slots /\ loop' = "close"
           /\ Len(queue') <= Len(queue)
           /\ UNCHANGED <<reported, box, arrived, shut, left, saw, at, hand, carry, closing,
                          cancelled, aborted, keyOf>>
<1>1. /\ queue \in Seq(Entries) /\ queue # << >> /\ queue' = Tail(queue) /\ loop = "look"
      /\ ~aborted /\ held = None /\ Once(queue)
  BY DEF Batch!Acquire, BatchTypes, BatchControl, QueueOnce
<1>2. PICK h \in Entries, p \in Seq(Entries) : h = Head(queue) /\ p = Tail(queue)
  BY <1>1
<1>3. PICK u \in Crew, b \in BOOLEAN : h = <<u, b>>
  BY DEF Entries
<1>4. h[1] = u /\ h[2] = b
  BY <1>3
<1>5. /\ Has(queue, u) /\ (b => Returns(queue, u))
      /\ Len(p) = Len(queue) - 1
      /\ \A w \in Crew : Has(p, w) => Has(queue, w)
      /\ \A w \in Crew : Has(queue, w) => w = u \/ Has(p, w)
      /\ \A w \in Crew : Returns(p, w) => Returns(queue, w)
      /\ \A w \in Crew : Returns(queue, w) => (w = u /\ b) \/ Returns(p, w)
      /\ Once(p) /\ ~Has(p, u)
  BY <1>1, <1>2, <1>4, ListShrinks
<1>6. UNCHANGED <<reported, box, arrived, shut, left, saw, at, hand, carry, closing, cancelled,
                  aborted, keyOf>>
  BY DEF Batch!Acquire, Batch!boxVars, Batch!workerVars, Batch!stopVars, Batch!history
<1>7. \/ (b \/ u \in slots) /\ held' = u /\ slots' = slots \ {u} /\ loop' = "poll"
      \/ ~b /\ u \notin slots /\ loop' = "close" /\ held' = held /\ slots' = slots
  <2>1. IF b \/ u \in slots
          THEN held' = u /\ slots' = slots \ {u} /\ loop' = "poll"
          ELSE loop' = "close" /\ held' = held /\ slots' = slots
    BY <1>2, <1>4 DEF Batch!Acquire
  <2> QED BY <2>1
<1>8. queue' = p
  BY <1>1, <1>2
<1>9. Len(queue') <= Len(queue)
  <2> DEFINE m == Len(p)  n == Len(queue)
  <2>1. n \in Nat /\ m = n - 1
    BY <1>1, <1>5
  <2> HIDE DEF m, n
  <2>2. m <= n
    BY <2>1
  <2> QED BY <1>8, <2>2 DEF m, n
<1>10. \A v : (Queued(v)' <=> Has(p, v)) /\ (Returned(v)' <=> Returns(p, v))
  BY <1>8 DEF Queued, Returned
<1>11. ~Returns(p, u)
  <2>1. Returned(u)' => Queued(u)'
    BY ReturnedIsQueuedThen
  <2> QED BY <1>5, <1>10, <2>1
<1>12. Returned(u) <=> b
  BY <1>5, <1>10, <1>11 DEF Returned
<1>13. \A v \in Crew : v # u => (Queued(v)' <=> Queued(v)) /\ (Returned(v)' <=> Returned(v))
  BY <1>5, <1>10 DEF Queued, Returned
<1>14. ~Queued(u)' /\ Once(queue')
  BY <1>5, <1>8, <1>10
<1>15. Queued(u)
  BY <1>5 DEF Queued
<1> QED BY <1>1, <1>6, <1>7, <1>9, <1>12, <1>13, <1>14, <1>15

LEMMA StepSlotOnce ==
  ASSUME BatchTypes, BatchControl, SlotOnce, QueueOnce, [Batch!Next]_(Batch!vars)
  PROVE  SlotOnce'
  <1> USE DEF BatchTypes, BatchControl, BatchPlaces, BatchLoopPlaces, Closing, Filling,
     QueueOnce, SlotOnce, SlotOf, Batch!freeVars, Batch!boxVars, Batch!workerVars,
     Batch!loopVars, Batch!stopVars, Batch!history
  <1>c. Batch!Crew = Crew /\ None \notin Crew
    BY PoolAssumption DEF Batch!Crew, Crew
  <1>t. BatchTypes' /\ BatchControl'
    BY StepBatchTypes, StepBatchControl
  <1>1. ASSUME NEW w \in Crew, Batch!ReadClosed(w)
        PROVE  SlotOnce'
    <2>1. queue' = queue
      BY <1>1 DEF Batch!ReadClosed, Batch!Goto
    <2>2. \A v : (Queued(v)' <=> Queued(v)) /\ (Returned(v)' <=> Returned(v))
      BY <2>1, SameQueue
    <2> QED BY <1>c, <1>t, <2>1, <2>2, <1>1 DEF Batch!ReadClosed, Batch!Goto
  <1>2. ASSUME NEW w \in Crew, Batch!PopBox(w)
        PROVE  SlotOnce'
    <2>1. queue' = queue
      BY <1>2 DEF Batch!PopBox, Batch!Goto
    <2>2. \A v : (Queued(v)' <=> Queued(v)) /\ (Returned(v)' <=> Returned(v))
      BY <2>1, SameQueue
    <2> QED BY <1>c, <1>t, <2>1, <2>2, <1>2 DEF Batch!PopBox, Batch!Goto
  <1>3. ASSUME NEW w \in Crew, Batch!Notified(w)
        PROVE  SlotOnce'
    <2>1. queue' = queue
      BY <1>3 DEF Batch!Notified, Batch!Goto
    <2>2. \A v : (Queued(v)' <=> Queued(v)) /\ (Returned(v)' <=> Returned(v))
      BY <2>1, SameQueue
    <2> QED BY <1>c, <1>t, <2>1, <2>2, <1>3 DEF Batch!Notified, Batch!Goto
  <1>4. ASSUME NEW w \in Crew, Batch!RunReturns(w)
        PROVE  SlotOnce'
    <2>1. queue' = queue
      BY <1>4 DEF Batch!RunReturns, Batch!Goto
    <2>2. \A v : (Queued(v)' <=> Queued(v)) /\ (Returned(v)' <=> Returned(v))
      BY <2>1, SameQueue
    <2> QED BY <1>c, <1>t, <2>1, <2>2, <1>4 DEF Batch!RunReturns, Batch!Goto
  <1>5. ASSUME NEW w \in Crew, Batch!Report(w)
        PROVE  SlotOnce'
    <2>q. \A v : (Returned(v) => Queued(v)) /\ (Returned(v)' => Queued(v)')
      BY ReturnedIsQueued, ReturnedIsQueuedThen
    <2>1. BatchTypes /\ QueueOnce
      OBVIOUS
    <2>2. /\ \/ (at[w] = "report" /\ at' = [at EXCEPT ![w] = "tell"])
             \/ (at[w] = "lastReport" /\ at' = [at EXCEPT ![w] = "lastTell"])
          /\ UNCHANGED <<slots, box, left, hand, loop, held, aborted>>
          /\ \A v \in Crew : Returned(v)' => Returned(v) \/ (v = w /\ at[w] = "report")
      BY <2>1, <1>5, ReportEffect
    <2>3. ASSUME NEW v \in Crew PROVE SlotOf(v)'
      BY <1>c, <1>t, <2>2, <2>3
    <2> QED BY <2>3
  <1>6. ASSUME NEW w \in Crew, Batch!Tell(w)
        PROVE  SlotOnce'
    <2>1. queue' = queue
      BY <1>6 DEF Batch!Tell, Batch!Goto
    <2>2. \A v : (Queued(v)' <=> Queued(v)) /\ (Returned(v)' <=> Returned(v))
      BY <2>1, SameQueue
    <2> QED BY <1>c, <1>t, <2>1, <2>2, <1>6 DEF Batch!Tell, Batch!Goto
  <1>7. ASSUME NEW w \in Crew, Batch!Mark(w)
        PROVE  SlotOnce'
    <2>1. queue' = queue
      BY <1>7 DEF Batch!Mark, Batch!Goto
    <2>2. \A v : (Queued(v)' <=> Queued(v)) /\ (Returned(v)' <=> Returned(v))
      BY <2>1, SameQueue
    <2> QED BY <1>c, <1>t, <2>1, <2>2, <1>7 DEF Batch!Mark, Batch!Goto
  <1>8. ASSUME NEW w \in Crew, Batch!WorkerAborted(w)
        PROVE  SlotOnce'
    <2>1. queue' = queue
      BY <1>8 DEF Batch!WorkerAborted, Batch!Goto
    <2>2. \A v : (Queued(v)' <=> Queued(v)) /\ (Returned(v)' <=> Returned(v))
      BY <2>1, SameQueue
    <2> QED BY <1>c, <1>t, <2>1, <2>2, <1>8 DEF Batch!WorkerAborted, Batch!Goto
  <1>9. ASSUME NEW w \in Crew, Batch!Panic(w)
        PROVE  SlotOnce'
    <2>1. queue' = queue
      BY <1>9 DEF Batch!Panic, Batch!Goto
    <2>2. \A v : (Queued(v)' <=> Queued(v)) /\ (Returned(v)' <=> Returned(v))
      BY <2>1, SameQueue
    <2> QED BY <1>c, <1>t, <2>1, <2>2, <1>9 DEF Batch!Panic, Batch!Goto
  <1>10. CASE Batch!Top
    <2>1. queue' = queue
      BY <1>10 DEF Batch!Top
    <2>2. \A v : (Queued(v)' <=> Queued(v)) /\ (Returned(v)' <=> Returned(v))
      BY <2>1, SameQueue
    <2> QED BY <1>c, <1>t, <2>1, <2>2, <1>10 DEF Batch!Top
  <1>11. CASE Batch!Acquire
    <2>q. \A v : (Returned(v) => Queued(v)) /\ (Returned(v)' => Queued(v)')
      BY ReturnedIsQueued, ReturnedIsQueuedThen
    <2>1. PICK u \in Crew :
            /\ Queued(u) /\ loop = "look" /\ ~aborted /\ held = None /\ ~Queued(u)'
            /\ \A v \in Crew : v # u => (Queued(v)' <=> Queued(v)) /\ (Returned(v)' <=> Returned(v))
            /\ \/ /\ Returned(u) \/ u \in slots
                  /\ held' = u /\ slots' = slots \ {u} /\ loop' = "poll"
               \/ /\ ~Returned(u) /\ u \notin slots
                  /\ held' = held /\ slots' = slots /\ loop' = "close"
            /\ UNCHANGED <<box, left, at, hand, aborted>>
      BY <1>11, AcquireEffect
    <2>3. ASSUME NEW v \in Crew PROVE SlotOf(v)'
      BY <1>c, <1>t, <2>q, <2>1, <2>3
    <2> QED BY <2>3
  <1>12. CASE Batch!NobodyFree
    <2>1. queue' = queue
      BY <1>12 DEF Batch!NobodyFree
    <2>2. \A v : (Queued(v)' <=> Queued(v)) /\ (Returned(v)' <=> Returned(v))
      BY <2>1, SameQueue
    <2> QED BY <1>c, <1>t, <2>1, <2>2, <1>12 DEF Batch!NobodyFree
  <1>13. CASE Batch!WaitEnds
    <2>1. queue' = queue
      BY <1>13 DEF Batch!WaitEnds
    <2>2. \A v : (Queued(v)' <=> Queued(v)) /\ (Returned(v)' <=> Returned(v))
      BY <2>1, SameQueue
    <2> QED BY <1>c, <1>t, <2>1, <2>2, <1>13 DEF Batch!WaitEnds
  <1>14. CASE Batch!Hand
    <2>1. queue' = queue
      BY <1>14 DEF Batch!Hand
    <2>2. \A v : (Queued(v)' <=> Queued(v)) /\ (Returned(v)' <=> Returned(v))
      BY <2>1, SameQueue
    <2> QED BY <1>c, <1>t, <2>1, <2>2, <1>14 DEF Batch!Hand
  <1>15. CASE Batch!HandTells
    <2>1. queue' = queue
      BY <1>15 DEF Batch!HandTells
    <2>2. \A v : (Queued(v)' <=> Queued(v)) /\ (Returned(v)' <=> Returned(v))
      BY <2>1, SameQueue
    <2> QED BY <1>c, <1>t, <2>1, <2>2, <1>15 DEF Batch!HandTells
  <1>16. CASE Batch!CloseFlag
    <2>1. queue' = queue
      BY <1>16 DEF Batch!CloseFlag
    <2>2. \A v : (Queued(v)' <=> Queued(v)) /\ (Returned(v)' <=> Returned(v))
      BY <2>1, SameQueue
    <2> QED BY <1>c, <1>t, <2>1, <2>2, <1>16 DEF Batch!CloseFlag
  <1>17. CASE Batch!CloseTells
    <2>1. queue' = queue
      BY <1>17 DEF Batch!CloseTells
    <2>2. \A v : (Queued(v)' <=> Queued(v)) /\ (Returned(v)' <=> Returned(v))
      BY <2>1, SameQueue
    <2> QED BY <1>c, <1>t, <2>1, <2>2, <1>17 DEF Batch!CloseTells
  <1>18. CASE Batch!Join
    <2>1. queue' = queue
      BY <1>18 DEF Batch!Join
    <2>2. \A v : (Queued(v)' <=> Queued(v)) /\ (Returned(v)' <=> Returned(v))
      BY <2>1, SameQueue
    <2> QED BY <1>c, <1>t, <2>1, <2>2, <1>18 DEF Batch!Join
  <1>19. CASE Batch!FillStops("shutdown")
    <2>1. queue' = queue
      BY <1>19 DEF Batch!FillStops
    <2>2. \A v : (Queued(v)' <=> Queued(v)) /\ (Returned(v)' <=> Returned(v))
      BY <2>1, SameQueue
    <2> QED BY <1>c, <1>t, <2>1, <2>2, <1>19 DEF Batch!FillStops
  <1>20. CASE Batch!Fill
    <2>1. queue' = queue
      BY <1>20 DEF Batch!Fill
    <2>2. \A v : (Queued(v)' <=> Queued(v)) /\ (Returned(v)' <=> Returned(v))
      BY <2>1, SameQueue
    <2> QED BY <1>c, <1>t, <2>1, <2>2, <1>20 DEF Batch!Fill
  <1>21. CASE Batch!FillFails
    <2>1. queue' = queue
      BY <1>21 DEF Batch!FillFails
    <2>2. \A v : (Queued(v)' <=> Queued(v)) /\ (Returned(v)' <=> Returned(v))
      BY <2>1, SameQueue
    <2> QED BY <1>c, <1>t, <2>1, <2>2, <1>21 DEF Batch!FillFails
  <1>22. CASE Batch!FillStops("ended")
    <2>1. queue' = queue
      BY <1>22 DEF Batch!FillStops
    <2>2. \A v : (Queued(v)' <=> Queued(v)) /\ (Returned(v)' <=> Returned(v))
      BY <2>1, SameQueue
    <2> QED BY <1>c, <1>t, <2>1, <2>2, <1>22 DEF Batch!FillStops
  <1>23. CASE Batch!Cancel
    <2>1. queue' = queue
      BY <1>23 DEF Batch!Cancel
    <2>2. \A v : (Queued(v)' <=> Queued(v)) /\ (Returned(v)' <=> Returned(v))
      BY <2>1, SameQueue
    <2> QED BY <1>c, <1>t, <2>1, <2>2, <1>23 DEF Batch!Cancel
  <1>24. CASE Batch!Abort
    <2>1. queue' = queue
      BY <1>24 DEF Batch!Abort
    <2>2. \A v : (Queued(v)' <=> Queued(v)) /\ (Returned(v)' <=> Returned(v))
      BY <2>1, SameQueue
    <2> QED BY <1>c, <1>t, <2>1, <2>2, <1>24 DEF Batch!Abort
  <1>25. CASE Batch!Done
    <2>1. queue' = queue
      BY <1>25 DEF Batch!Done, Batch!vars
    <2>2. \A v : (Queued(v)' <=> Queued(v)) /\ (Returned(v)' <=> Returned(v))
      BY <2>1, SameQueue
    <2> QED BY <1>c, <1>t, <2>1, <2>2, <1>25 DEF Batch!Done, Batch!vars
  <1>26. CASE \/ UNCHANGED Batch!vars
    <2>1. queue' = queue
      BY <1>26 DEF Batch!vars
    <2>2. \A v : (Queued(v)' <=> Queued(v)) /\ (Returned(v)' <=> Returned(v))
      BY <2>1, SameQueue
    <2> QED BY <1>c, <1>t, <2>1, <2>2, <1>26 DEF Batch!vars
  <1> QED
    BY <1>c, <1>1, <1>2, <1>3, <1>4, <1>5, <1>6, <1>7, <1>8, <1>9, <1>10, <1>11, <1>12, <1>13,
       <1>14,
       <1>15, <1>16, <1>17, <1>18, <1>19, <1>20, <1>21, <1>22, <1>23, <1>24, <1>25, <1>26 DEF
       Batch!Next, Batch!WorkerStep, Batch!LoopStep, Batch!StreamStep

LEMMA StepSlotSomewhere ==
  ASSUME BatchTypes, BatchControl, SlotOnce, SlotSomewhere, QueueOnce, [Batch!Next]_(Batch!vars)
  PROVE  SlotSomewhere'
  <1> USE DEF BatchTypes, BatchControl, BatchPlaces, BatchLoopPlaces, Closing, Filling,
     QueueOnce, SlotSomewhere, Batch!freeVars, Batch!boxVars, Batch!workerVars, Batch!loopVars,
     Batch!stopVars, Batch!history
  <1>c. Batch!Crew = Crew /\ None \notin Crew
    BY PoolAssumption DEF Batch!Crew, Crew
  <1>t. BatchTypes' /\ BatchControl'
    BY StepBatchTypes, StepBatchControl
  <1>1. ASSUME NEW w \in Crew, Batch!ReadClosed(w)
        PROVE  SlotSomewhere'
    <2>1. queue' = queue
      BY <1>1 DEF Batch!ReadClosed, Batch!Goto
    <2>2. \A v : (Queued(v)' <=> Queued(v)) /\ (Returned(v)' <=> Returned(v))
      BY <2>1, SameQueue
    <2> QED BY <1>c, <1>t, <2>1, <2>2, <1>1 DEF Batch!ReadClosed, Batch!Goto
  <1>2. ASSUME NEW w \in Crew, Batch!PopBox(w)
        PROVE  SlotSomewhere'
    <2>1. queue' = queue /\ UNCHANGED <<slots, loop, held, left>>
      BY <1>2 DEF Batch!PopBox
    <2>2. \A v : (Queued(v)' <=> Queued(v)) /\ (Returned(v)' <=> Returned(v))
      BY <2>1, SameQueue
    <2>3. CASE box[w] # 0
      <3>1. /\ hand' = [hand EXCEPT ![w] = box[w]] /\ box' = [box EXCEPT ![w] = 0]
            /\ at' = [at EXCEPT ![w] = "run"] /\ at[w] = "pop"
        BY <2>3, <1>2 DEF Batch!PopBox, Batch!Goto
      <3>2. hand'[w] # 0
        BY <2>3, <3>1
      <3>3. \A v \in Crew : v # w => hand'[v] = hand[v] /\ box'[v] = box[v] /\ at'[v] = at[v]
        BY <3>1
      <3> QED BY <2>1, <2>2, <3>2, <3>3
    <2>4. CASE box[w] = 0
      <3>1. /\ UNCHANGED <<hand, box>> /\ at[w] = "pop"
            /\ at' = [at EXCEPT ![w] = IF saw[w] THEN "ended" ELSE "wait"]
        BY <2>4, <1>2 DEF Batch!PopBox, Batch!Goto
      <3>2. \A v \in Crew : v # w => at'[v] = at[v]
        BY <3>1
      <3> QED BY <2>1, <2>2, <3>1, <3>2
    <2> QED BY <2>3, <2>4
  <1>3. ASSUME NEW w \in Crew, Batch!Notified(w)
        PROVE  SlotSomewhere'
    <2>1. queue' = queue
      BY <1>3 DEF Batch!Notified, Batch!Goto
    <2>2. \A v : (Queued(v)' <=> Queued(v)) /\ (Returned(v)' <=> Returned(v))
      BY <2>1, SameQueue
    <2> QED BY <1>c, <1>t, <2>1, <2>2, <1>3 DEF Batch!Notified, Batch!Goto
  <1>4. ASSUME NEW w \in Crew, Batch!RunReturns(w)
        PROVE  SlotSomewhere'
    <2>1. queue' = queue
      BY <1>4 DEF Batch!RunReturns, Batch!Goto
    <2>2. \A v : (Queued(v)' <=> Queued(v)) /\ (Returned(v)' <=> Returned(v))
      BY <2>1, SameQueue
    <2> QED BY <1>c, <1>t, <2>1, <2>2, <1>4 DEF Batch!RunReturns, Batch!Goto
  <1>5. ASSUME NEW w \in Crew, Batch!Report(w)
        PROVE  SlotSomewhere'
    <2>1. BatchTypes /\ QueueOnce
      OBVIOUS
    <2>2. /\ \/ (at[w] = "report" /\ at' = [at EXCEPT ![w] = "tell"])
             \/ (at[w] = "lastReport" /\ at' = [at EXCEPT ![w] = "lastTell"])
          /\ UNCHANGED <<slots, box, left, hand, loop, held, aborted>>
          /\ \A v \in Crew : /\ Queued(v)' => Queued(v) \/ v = w
                             /\ Queued(v) => Queued(v)'
                             /\ Returned(v)' => Returned(v) \/ (v = w /\ at[w] = "report")
                             /\ Returned(v) => Returned(v)'
          /\ ~aborted => /\ Once(queue') /\ Queued(w)' /\ (at[w] = "report" => Returned(w)')
      BY <2>1, <1>5, ReportEffect
    <2>3. ASSUME NEW v \in Crew, loop \notin Closing
          PROVE  \/ v \in slots' \/ Filling(v)' \/ box'[v] # 0 \/ hand'[v] # 0 \/ at'[v] = "report"
                 \/ Returned(v)' \/ v \in left' \/ at'[v] = "mark"
      <3>1. ~aborted
        BY <2>3
      <3>2. CASE v = w
        BY <1>c, <1>t, <2>2, <2>3, <3>1, <3>2
      <3>3. CASE v # w
        <4>1. at'[v] = at[v]
          BY <2>2, <3>3
        <4> QED BY <2>2, <2>3, <4>1
      <3> QED BY <3>2, <3>3
    <2> QED BY <2>2, <2>3
  <1>6. ASSUME NEW w \in Crew, Batch!Tell(w)
        PROVE  SlotSomewhere'
    <2>1. queue' = queue
      BY <1>6 DEF Batch!Tell, Batch!Goto
    <2>2. \A v : (Queued(v)' <=> Queued(v)) /\ (Returned(v)' <=> Returned(v))
      BY <2>1, SameQueue
    <2> QED BY <1>c, <1>t, <2>1, <2>2, <1>6 DEF Batch!Tell, Batch!Goto
  <1>7. ASSUME NEW w \in Crew, Batch!Mark(w)
        PROVE  SlotSomewhere'
    <2>1. queue' = queue
      BY <1>7 DEF Batch!Mark, Batch!Goto
    <2>2. \A v : (Queued(v)' <=> Queued(v)) /\ (Returned(v)' <=> Returned(v))
      BY <2>1, SameQueue
    <2> QED BY <1>c, <1>t, <2>1, <2>2, <1>7 DEF Batch!Mark, Batch!Goto
  <1>8. ASSUME NEW w \in Crew, Batch!WorkerAborted(w)
        PROVE  SlotSomewhere'
    <2>1. queue' = queue
      BY <1>8 DEF Batch!WorkerAborted, Batch!Goto
    <2>2. \A v : (Queued(v)' <=> Queued(v)) /\ (Returned(v)' <=> Returned(v))
      BY <2>1, SameQueue
    <2> QED BY <1>c, <1>t, <2>1, <2>2, <1>8 DEF Batch!WorkerAborted, Batch!Goto
  <1>9. ASSUME NEW w \in Crew, Batch!Panic(w)
        PROVE  SlotSomewhere'
    <2>1. queue' = queue
      BY <1>9 DEF Batch!Panic, Batch!Goto
    <2>2. \A v : (Queued(v)' <=> Queued(v)) /\ (Returned(v)' <=> Returned(v))
      BY <2>1, SameQueue
    <2> QED BY <1>c, <1>t, <2>1, <2>2, <1>9 DEF Batch!Panic, Batch!Goto
  <1>10. CASE Batch!Top
    <2>1. queue' = queue
      BY <1>10 DEF Batch!Top
    <2>2. \A v : (Queued(v)' <=> Queued(v)) /\ (Returned(v)' <=> Returned(v))
      BY <2>1, SameQueue
    <2> QED BY <1>c, <1>t, <2>1, <2>2, <1>10 DEF Batch!Top
  <1>11. CASE Batch!Acquire
    <2>1. PICK u \in Crew :
            /\ Queued(u) /\ loop = "look" /\ ~aborted /\ held = None
            /\ Once(queue') /\ ~Queued(u)'
            /\ \A v \in Crew : v # u => (Queued(v)' <=> Queued(v)) /\ (Returned(v)' <=> Returned(v))
            /\ \/ /\ Returned(u) \/ u \in slots
                  /\ held' = u /\ slots' = slots \ {u} /\ loop' = "poll"
               \/ /\ ~Returned(u) /\ u \notin slots
                  /\ held' = held /\ slots' = slots /\ loop' = "close"
            /\ UNCHANGED <<box, left, at, hand, aborted>>
      BY <1>11, AcquireEffect
    <2> QED BY <1>c, <1>t, <2>1
  <1>12. CASE Batch!NobodyFree
    <2>1. queue' = queue
      BY <1>12 DEF Batch!NobodyFree
    <2>2. \A v : (Queued(v)' <=> Queued(v)) /\ (Returned(v)' <=> Returned(v))
      BY <2>1, SameQueue
    <2> QED BY <1>c, <1>t, <2>1, <2>2, <1>12 DEF Batch!NobodyFree
  <1>13. CASE Batch!WaitEnds
    <2>1. queue' = queue
      BY <1>13 DEF Batch!WaitEnds
    <2>2. \A v : (Queued(v)' <=> Queued(v)) /\ (Returned(v)' <=> Returned(v))
      BY <2>1, SameQueue
    <2> QED BY <1>c, <1>t, <2>1, <2>2, <1>13 DEF Batch!WaitEnds
  <1>14. CASE Batch!Hand
    <2>1. queue' = queue
      BY <1>14 DEF Batch!Hand
    <2>2. \A v : (Queued(v)' <=> Queued(v)) /\ (Returned(v)' <=> Returned(v))
      BY <2>1, SameQueue
    <2> QED BY <1>c, <1>t, <2>1, <2>2, <1>14 DEF Batch!Hand
  <1>15. CASE Batch!HandTells
    <2>1. queue' = queue
      BY <1>15 DEF Batch!HandTells
    <2>2. \A v : (Queued(v)' <=> Queued(v)) /\ (Returned(v)' <=> Returned(v))
      BY <2>1, SameQueue
    <2> QED BY <1>c, <1>t, <2>1, <2>2, <1>15 DEF Batch!HandTells
  <1>16. CASE Batch!CloseFlag
    <2>1. queue' = queue
      BY <1>16 DEF Batch!CloseFlag
    <2>2. \A v : (Queued(v)' <=> Queued(v)) /\ (Returned(v)' <=> Returned(v))
      BY <2>1, SameQueue
    <2> QED BY <1>c, <1>t, <2>1, <2>2, <1>16 DEF Batch!CloseFlag
  <1>17. CASE Batch!CloseTells
    <2>1. queue' = queue
      BY <1>17 DEF Batch!CloseTells
    <2>2. \A v : (Queued(v)' <=> Queued(v)) /\ (Returned(v)' <=> Returned(v))
      BY <2>1, SameQueue
    <2> QED BY <1>c, <1>t, <2>1, <2>2, <1>17 DEF Batch!CloseTells
  <1>18. CASE Batch!Join
    <2>1. queue' = queue
      BY <1>18 DEF Batch!Join
    <2>2. \A v : (Queued(v)' <=> Queued(v)) /\ (Returned(v)' <=> Returned(v))
      BY <2>1, SameQueue
    <2> QED BY <1>c, <1>t, <2>1, <2>2, <1>18 DEF Batch!Join
  <1>19. CASE Batch!FillStops("shutdown")
    <2>1. queue' = queue
      BY <1>19 DEF Batch!FillStops
    <2>2. \A v : (Queued(v)' <=> Queued(v)) /\ (Returned(v)' <=> Returned(v))
      BY <2>1, SameQueue
    <2> QED BY <1>c, <1>t, <2>1, <2>2, <1>19 DEF Batch!FillStops
  <1>20. CASE Batch!Fill
    <2>1. queue' = queue
      BY <1>20 DEF Batch!Fill
    <2>2. \A v : (Queued(v)' <=> Queued(v)) /\ (Returned(v)' <=> Returned(v))
      BY <2>1, SameQueue
    <2> QED BY <1>c, <1>t, <2>1, <2>2, <1>20 DEF Batch!Fill
  <1>21. CASE Batch!FillFails
    <2>1. queue' = queue
      BY <1>21 DEF Batch!FillFails
    <2>2. \A v : (Queued(v)' <=> Queued(v)) /\ (Returned(v)' <=> Returned(v))
      BY <2>1, SameQueue
    <2> QED BY <1>c, <1>t, <2>1, <2>2, <1>21 DEF Batch!FillFails
  <1>22. CASE Batch!FillStops("ended")
    <2>1. queue' = queue
      BY <1>22 DEF Batch!FillStops
    <2>2. \A v : (Queued(v)' <=> Queued(v)) /\ (Returned(v)' <=> Returned(v))
      BY <2>1, SameQueue
    <2> QED BY <1>c, <1>t, <2>1, <2>2, <1>22 DEF Batch!FillStops
  <1>23. CASE Batch!Cancel
    <2>1. queue' = queue
      BY <1>23 DEF Batch!Cancel
    <2>2. \A v : (Queued(v)' <=> Queued(v)) /\ (Returned(v)' <=> Returned(v))
      BY <2>1, SameQueue
    <2> QED BY <1>c, <1>t, <2>1, <2>2, <1>23 DEF Batch!Cancel
  <1>24. CASE Batch!Abort
    <2>1. queue' = queue
      BY <1>24 DEF Batch!Abort
    <2>2. \A v : (Queued(v)' <=> Queued(v)) /\ (Returned(v)' <=> Returned(v))
      BY <2>1, SameQueue
    <2> QED BY <1>c, <1>t, <2>1, <2>2, <1>24 DEF Batch!Abort
  <1>25. CASE Batch!Done
    <2>1. queue' = queue
      BY <1>25 DEF Batch!Done, Batch!vars
    <2>2. \A v : (Queued(v)' <=> Queued(v)) /\ (Returned(v)' <=> Returned(v))
      BY <2>1, SameQueue
    <2> QED BY <1>c, <1>t, <2>1, <2>2, <1>25 DEF Batch!Done, Batch!vars
  <1>26. CASE \/ UNCHANGED Batch!vars
    <2>1. queue' = queue
      BY <1>26 DEF Batch!vars
    <2>2. \A v : (Queued(v)' <=> Queued(v)) /\ (Returned(v)' <=> Returned(v))
      BY <2>1, SameQueue
    <2> QED BY <1>c, <1>t, <2>1, <2>2, <1>26 DEF Batch!vars
  <1> QED
    BY <1>c, <1>1, <1>2, <1>3, <1>4, <1>5, <1>6, <1>7, <1>8, <1>9, <1>10, <1>11, <1>12, <1>13,
       <1>14,
       <1>15, <1>16, <1>17, <1>18, <1>19, <1>20, <1>21, <1>22, <1>23, <1>24, <1>25, <1>26 DEF
       Batch!Next, Batch!WorkerStep, Batch!LoopStep, Batch!StreamStep

LEMMA StepQueueOnce ==
  ASSUME BatchTypes, BatchControl, SlotOnce, SlotSomewhere, QueueOnce, [Batch!Next]_(Batch!vars)
  PROVE  QueueOnce'
  <1> USE DEF BatchTypes, BatchControl, BatchPlaces, BatchLoopPlaces, Closing, Filling,
     QueueOnce, SlotOnce, SlotOf, Batch!freeVars, Batch!boxVars, Batch!workerVars,
     Batch!loopVars, Batch!stopVars, Batch!history
  <1>c. Batch!Crew = Crew /\ None \notin Crew
    BY PoolAssumption DEF Batch!Crew, Crew
  <1>t. BatchTypes' /\ BatchControl'
    BY StepBatchTypes, StepBatchControl
  <1>1. ASSUME NEW w \in Crew, Batch!ReadClosed(w)
        PROVE  QueueOnce'
    <2>1. queue' = queue
      BY <1>1 DEF Batch!ReadClosed, Batch!Goto
    <2>2. \A v : (Queued(v)' <=> Queued(v)) /\ (Returned(v)' <=> Returned(v))
      BY <2>1, SameQueue
    <2> QED BY <1>c, <1>t, <2>1, <2>2, <1>1 DEF Batch!ReadClosed, Batch!Goto
  <1>2. ASSUME NEW w \in Crew, Batch!PopBox(w)
        PROVE  QueueOnce'
    <2>1. queue' = queue
      BY <1>2 DEF Batch!PopBox, Batch!Goto
    <2>2. \A v : (Queued(v)' <=> Queued(v)) /\ (Returned(v)' <=> Returned(v))
      BY <2>1, SameQueue
    <2> QED BY <1>c, <1>t, <2>1, <2>2, <1>2 DEF Batch!PopBox, Batch!Goto
  <1>3. ASSUME NEW w \in Crew, Batch!Notified(w)
        PROVE  QueueOnce'
    <2>1. queue' = queue
      BY <1>3 DEF Batch!Notified, Batch!Goto
    <2>2. \A v : (Queued(v)' <=> Queued(v)) /\ (Returned(v)' <=> Returned(v))
      BY <2>1, SameQueue
    <2> QED BY <1>c, <1>t, <2>1, <2>2, <1>3 DEF Batch!Notified, Batch!Goto
  <1>4. ASSUME NEW w \in Crew, Batch!RunReturns(w)
        PROVE  QueueOnce'
    <2>1. queue' = queue
      BY <1>4 DEF Batch!RunReturns, Batch!Goto
    <2>2. \A v : (Queued(v)' <=> Queued(v)) /\ (Returned(v)' <=> Returned(v))
      BY <2>1, SameQueue
    <2> QED BY <1>c, <1>t, <2>1, <2>2, <1>4 DEF Batch!RunReturns, Batch!Goto
  <1>5. ASSUME NEW w \in Crew, Batch!Report(w)
        PROVE  QueueOnce'
    <2>1. BatchTypes /\ QueueOnce
      OBVIOUS
    <2>2. /\ \/ (at[w] = "report" /\ at' = [at EXCEPT ![w] = "tell"])
             \/ (at[w] = "lastReport" /\ at' = [at EXCEPT ![w] = "lastTell"])
          /\ UNCHANGED <<slots, box, left, hand, loop, held, aborted>>
          /\ \A v \in Crew : /\ Queued(v)' => Queued(v) \/ v = w
                             /\ Queued(v) => Queued(v)'
                             /\ Returned(v)' => Returned(v) \/ (v = w /\ at[w] = "report")
                             /\ Returned(v) => Returned(v)'
          /\ ~aborted => /\ Once(queue') /\ Queued(w)' /\ (at[w] = "report" => Returned(w)')
      BY <2>1, <1>5, ReportEffect
    <2> QED BY <1>c, <1>t, <2>2
  <1>6. ASSUME NEW w \in Crew, Batch!Tell(w)
        PROVE  QueueOnce'
    <2>1. queue' = queue
      BY <1>6 DEF Batch!Tell, Batch!Goto
    <2>2. \A v : (Queued(v)' <=> Queued(v)) /\ (Returned(v)' <=> Returned(v))
      BY <2>1, SameQueue
    <2> QED BY <1>c, <1>t, <2>1, <2>2, <1>6 DEF Batch!Tell, Batch!Goto
  <1>7. ASSUME NEW w \in Crew, Batch!Mark(w)
        PROVE  QueueOnce'
    <2>1. queue' = queue
      BY <1>7 DEF Batch!Mark, Batch!Goto
    <2>2. \A v : (Queued(v)' <=> Queued(v)) /\ (Returned(v)' <=> Returned(v))
      BY <2>1, SameQueue
    <2> QED BY <1>c, <1>t, <2>1, <2>2, <1>7 DEF Batch!Mark, Batch!Goto
  <1>8. ASSUME NEW w \in Crew, Batch!WorkerAborted(w)
        PROVE  QueueOnce'
    <2>1. queue' = queue
      BY <1>8 DEF Batch!WorkerAborted, Batch!Goto
    <2>2. \A v : (Queued(v)' <=> Queued(v)) /\ (Returned(v)' <=> Returned(v))
      BY <2>1, SameQueue
    <2> QED BY <1>c, <1>t, <2>1, <2>2, <1>8 DEF Batch!WorkerAborted, Batch!Goto
  <1>9. ASSUME NEW w \in Crew, Batch!Panic(w)
        PROVE  QueueOnce'
    <2>1. queue' = queue
      BY <1>9 DEF Batch!Panic, Batch!Goto
    <2>2. \A v : (Queued(v)' <=> Queued(v)) /\ (Returned(v)' <=> Returned(v))
      BY <2>1, SameQueue
    <2> QED BY <1>c, <1>t, <2>1, <2>2, <1>9 DEF Batch!Panic, Batch!Goto
  <1>10. CASE Batch!Top
    <2>1. queue' = queue
      BY <1>10 DEF Batch!Top
    <2>2. \A v : (Queued(v)' <=> Queued(v)) /\ (Returned(v)' <=> Returned(v))
      BY <2>1, SameQueue
    <2> QED BY <1>c, <1>t, <2>1, <2>2, <1>10 DEF Batch!Top
  <1>11. CASE Batch!Acquire
    <2>1. PICK u \in Crew :
            /\ Queued(u) /\ loop = "look" /\ ~aborted /\ held = None
            /\ Once(queue') /\ ~Queued(u)'
            /\ \A v \in Crew : v # u => (Queued(v)' <=> Queued(v)) /\ (Returned(v)' <=> Returned(v))
            /\ \/ /\ Returned(u) \/ u \in slots
                  /\ held' = u /\ slots' = slots \ {u} /\ loop' = "poll"
               \/ /\ ~Returned(u) /\ u \notin slots
                  /\ held' = held /\ slots' = slots /\ loop' = "close"
            /\ UNCHANGED <<box, left, at, hand, aborted>>
      BY <1>11, AcquireEffect
    <2> QED BY <1>c, <1>t, <2>1
  <1>12. CASE Batch!NobodyFree
    <2>1. queue' = queue
      BY <1>12 DEF Batch!NobodyFree
    <2>2. \A v : (Queued(v)' <=> Queued(v)) /\ (Returned(v)' <=> Returned(v))
      BY <2>1, SameQueue
    <2> QED BY <1>c, <1>t, <2>1, <2>2, <1>12 DEF Batch!NobodyFree
  <1>13. CASE Batch!WaitEnds
    <2>1. queue' = queue
      BY <1>13 DEF Batch!WaitEnds
    <2>2. \A v : (Queued(v)' <=> Queued(v)) /\ (Returned(v)' <=> Returned(v))
      BY <2>1, SameQueue
    <2> QED BY <1>c, <1>t, <2>1, <2>2, <1>13 DEF Batch!WaitEnds
  <1>14. CASE Batch!Hand
    <2>1. queue' = queue
      BY <1>14 DEF Batch!Hand
    <2>2. \A v : (Queued(v)' <=> Queued(v)) /\ (Returned(v)' <=> Returned(v))
      BY <2>1, SameQueue
    <2> QED BY <1>c, <1>t, <2>1, <2>2, <1>14 DEF Batch!Hand
  <1>15. CASE Batch!HandTells
    <2>1. queue' = queue
      BY <1>15 DEF Batch!HandTells
    <2>2. \A v : (Queued(v)' <=> Queued(v)) /\ (Returned(v)' <=> Returned(v))
      BY <2>1, SameQueue
    <2> QED BY <1>c, <1>t, <2>1, <2>2, <1>15 DEF Batch!HandTells
  <1>16. CASE Batch!CloseFlag
    <2>1. queue' = queue
      BY <1>16 DEF Batch!CloseFlag
    <2>2. \A v : (Queued(v)' <=> Queued(v)) /\ (Returned(v)' <=> Returned(v))
      BY <2>1, SameQueue
    <2> QED BY <1>c, <1>t, <2>1, <2>2, <1>16 DEF Batch!CloseFlag
  <1>17. CASE Batch!CloseTells
    <2>1. queue' = queue
      BY <1>17 DEF Batch!CloseTells
    <2>2. \A v : (Queued(v)' <=> Queued(v)) /\ (Returned(v)' <=> Returned(v))
      BY <2>1, SameQueue
    <2> QED BY <1>c, <1>t, <2>1, <2>2, <1>17 DEF Batch!CloseTells
  <1>18. CASE Batch!Join
    <2>1. queue' = queue
      BY <1>18 DEF Batch!Join
    <2>2. \A v : (Queued(v)' <=> Queued(v)) /\ (Returned(v)' <=> Returned(v))
      BY <2>1, SameQueue
    <2> QED BY <1>c, <1>t, <2>1, <2>2, <1>18 DEF Batch!Join
  <1>19. CASE Batch!FillStops("shutdown")
    <2>1. queue' = queue
      BY <1>19 DEF Batch!FillStops
    <2>2. \A v : (Queued(v)' <=> Queued(v)) /\ (Returned(v)' <=> Returned(v))
      BY <2>1, SameQueue
    <2> QED BY <1>c, <1>t, <2>1, <2>2, <1>19 DEF Batch!FillStops
  <1>20. CASE Batch!Fill
    <2>1. queue' = queue
      BY <1>20 DEF Batch!Fill
    <2>2. \A v : (Queued(v)' <=> Queued(v)) /\ (Returned(v)' <=> Returned(v))
      BY <2>1, SameQueue
    <2> QED BY <1>c, <1>t, <2>1, <2>2, <1>20 DEF Batch!Fill
  <1>21. CASE Batch!FillFails
    <2>1. queue' = queue
      BY <1>21 DEF Batch!FillFails
    <2>2. \A v : (Queued(v)' <=> Queued(v)) /\ (Returned(v)' <=> Returned(v))
      BY <2>1, SameQueue
    <2> QED BY <1>c, <1>t, <2>1, <2>2, <1>21 DEF Batch!FillFails
  <1>22. CASE Batch!FillStops("ended")
    <2>1. queue' = queue
      BY <1>22 DEF Batch!FillStops
    <2>2. \A v : (Queued(v)' <=> Queued(v)) /\ (Returned(v)' <=> Returned(v))
      BY <2>1, SameQueue
    <2> QED BY <1>c, <1>t, <2>1, <2>2, <1>22 DEF Batch!FillStops
  <1>23. CASE Batch!Cancel
    <2>1. queue' = queue
      BY <1>23 DEF Batch!Cancel
    <2>2. \A v : (Queued(v)' <=> Queued(v)) /\ (Returned(v)' <=> Returned(v))
      BY <2>1, SameQueue
    <2> QED BY <1>c, <1>t, <2>1, <2>2, <1>23 DEF Batch!Cancel
  <1>24. CASE Batch!Abort
    <2>1. queue' = queue
      BY <1>24 DEF Batch!Abort
    <2>2. \A v : (Queued(v)' <=> Queued(v)) /\ (Returned(v)' <=> Returned(v))
      BY <2>1, SameQueue
    <2> QED BY <1>c, <1>t, <2>1, <2>2, <1>24 DEF Batch!Abort
  <1>25. CASE Batch!Done
    <2>1. queue' = queue
      BY <1>25 DEF Batch!Done, Batch!vars
    <2>2. \A v : (Queued(v)' <=> Queued(v)) /\ (Returned(v)' <=> Returned(v))
      BY <2>1, SameQueue
    <2> QED BY <1>c, <1>t, <2>1, <2>2, <1>25 DEF Batch!Done, Batch!vars
  <1>26. CASE \/ UNCHANGED Batch!vars
    <2>1. queue' = queue
      BY <1>26 DEF Batch!vars
    <2>2. \A v : (Queued(v)' <=> Queued(v)) /\ (Returned(v)' <=> Returned(v))
      BY <2>1, SameQueue
    <2> QED BY <1>c, <1>t, <2>1, <2>2, <1>26 DEF Batch!vars
  <1> QED
    BY <1>c, <1>1, <1>2, <1>3, <1>4, <1>5, <1>6, <1>7, <1>8, <1>9, <1>10, <1>11, <1>12, <1>13,
       <1>14,
       <1>15, <1>16, <1>17, <1>18, <1>19, <1>20, <1>21, <1>22, <1>23, <1>24, <1>25, <1>26 DEF
       Batch!Next, Batch!WorkerStep, Batch!LoopStep, Batch!StreamStep

LEMMA QueueMoves ==
  ASSUME [Batch!Next]_(Batch!vars)
  PROVE  queue' = queue \/ Batch!Acquire \/ \E w \in Crew : Batch!Report(w)
  <1> USE DEF Batch!freeVars
  <1>c. Batch!Crew = Crew
    BY DEF Batch!Crew, Crew
  <1>1. ASSUME NEW w \in Crew,
               Batch!ReadClosed(w) \/ Batch!PopBox(w) \/ Batch!Notified(w) \/ Batch!RunReturns(w)
               \/ Batch!Tell(w) \/ Batch!Mark(w) \/ Batch!WorkerAborted(w) \/ Batch!Panic(w)
        PROVE  queue' = queue
    BY <1>1 DEF Batch!ReadClosed, Batch!PopBox, Batch!Notified, Batch!RunReturns, Batch!Tell,
       Batch!Mark, Batch!WorkerAborted, Batch!Panic
  <1>2. ASSUME \/ Batch!Top \/ Batch!NobodyFree \/ Batch!WaitEnds \/ Batch!Hand \/ Batch!HandTells
               \/ Batch!CloseFlag \/ Batch!CloseTells \/ Batch!Join \/ Batch!FillStops("shutdown")
        PROVE  queue' = queue
    BY <1>2 DEF Batch!Top, Batch!NobodyFree, Batch!WaitEnds, Batch!Hand, Batch!HandTells,
       Batch!CloseFlag, Batch!CloseTells, Batch!Join, Batch!FillStops
  <1>3. ASSUME \/ Batch!StreamStep \/ Batch!Cancel \/ Batch!Abort \/ Batch!Done
               \/ UNCHANGED Batch!vars
        PROVE  queue' = queue
    BY <1>3 DEF Batch!StreamStep, Batch!Fill, Batch!FillFails, Batch!FillStops, Batch!Cancel,
       Batch!Abort, Batch!Done, Batch!vars
  <1> QED
    BY <1>c, <1>1, <1>2, <1>3 DEF Batch!Next, Batch!WorkerStep, Batch!LoopStep

LEMMA StepBatch ==
  ASSUME BatchInv, [Batch!Next]_(Batch!vars)
  PROVE  BatchInv'
  <1>1. BatchTypes /\ BatchControl /\ SlotOnce /\ SlotSomewhere /\ QueueOnce /\ Len(queue) <= N
    BY DEF BatchInv
  <1>2. BatchTypes'
    BY <1>1, StepBatchTypes
  <1>3. BatchControl'
    BY <1>1, StepBatchControl
  <1>4. SlotOnce'
    BY <1>1, StepSlotOnce
  <1>5. SlotSomewhere'
    BY <1>1, StepSlotSomewhere
  <1>6. QueueOnce'
    BY <1>1, StepQueueOnce
  <1>7. (Len(queue) <= N)'
    <2>1. CASE queue' = queue
      BY <1>1, <2>1
    <2>2. CASE Batch!Acquire
      <3>1. Len(queue') <= Len(queue)
        BY <1>1, <2>2, AcquireEffect
      <3>2. queue \in Seq(Entries) /\ queue' \in Seq(Entries) /\ N \in Nat
        BY <1>1, <1>2, PoolAssumption DEF BatchTypes
      <3>3. Len(queue) \in Nat /\ Len(queue') \in Nat
        BY <3>2
      <3> QED BY <1>1, <3>1, <3>2, <3>3
    <2>3. ASSUME NEW w \in Crew, Batch!Report(w) PROVE Len(queue') <= N
      BY <1>1, <2>3, ReportEffect
    <2> QED BY <2>1, <2>2, <2>3, QueueMoves
  <1> QED BY <1>2, <1>3, <1>4, <1>5, <1>6, <1>7 DEF BatchInv

LEMMA StartBatch ==
  ASSUME Batch!Init
  PROVE  BatchInv
  <1> USE DEF Batch!Init
  <1>c. Batch!Crew = Crew /\ None \notin Crew /\ N \in Nat \ {0} /\ Crew = 0 .. N - 1
    BY PoolAssumption DEF Batch!Crew, Crew
  <1>1. ASSUME NEW i \in 1 .. N PROVE <<i - 1, FALSE>> \in Entries
    <2>1. i - 1 \in Crew
      BY <1>c
    <2> QED BY <2>1 DEF Entries
  <1>2. queue \in Seq(Entries) /\ Len(queue) = N
    <2>1. queue \in [1 .. N -> Entries]
      BY <1>1
    <2>2. N \in Nat
      BY <1>c
    <2>3. DOMAIN queue = 1 .. N
      BY <2>1
    <2>4. queue \in Seq(Entries)
      BY ONLY <2>1, <2>2
    <2>5. Len(queue) = N
      BY ONLY <2>2, <2>3, <2>4
    <2> QED BY ONLY <2>4, <2>5
  <1>3. \A i \in 1 .. N : queue[i] = <<i - 1, FALSE>>
    OBVIOUS
  <1>4. \A i \in 1 .. N : queue[i][1] = i - 1
    BY <1>3
  <1>5. \A i, j \in 1 .. N : i # j => i - 1 # j - 1
    BY <1>c
  <1>6. Once(queue)
    BY <1>2, <1>4, <1>5 DEF Once
  <1>7. \A w \in Crew : Queued(w)
    <2> SUFFICES ASSUME NEW w \in Crew PROVE Queued(w)
      OBVIOUS
    <2>1. w + 1 \in 1 .. N /\ (w + 1) - 1 = w
      BY <1>c
    <2> QED BY <1>2, <1>4, <2>1 DEF Queued, Has
  <1>8. \A w \in Crew : ~Returned(w)
    <2> SUFFICES ASSUME NEW w \in Crew, NEW i \in 1 .. N, queue[i] = <<w, TRUE>> PROVE FALSE
      BY <1>2 DEF Returned, Returns
    <2>1. queue[i][2] = FALSE /\ queue[i][2] = TRUE
      BY <1>3
    <2> QED BY <2>1
  <1>9. BatchTypes
    <2>1. /\ slots \in SUBSET Crew /\ shut \in SUBSET Crew /\ left \in SUBSET Crew
          /\ loop \in BatchLoopPlaces /\ held \in Crew \cup {None} /\ carry \in Nat
          /\ closing \in Nat
      BY <1>c DEF BatchLoopPlaces
    <2>2. box \in [Crew -> Nat] /\ hand \in [Crew -> Nat] /\ saw \in [Crew -> BOOLEAN]
      BY <1>c
    <2>3. at \in [Crew -> BatchPlaces]
      BY <1>c DEF BatchPlaces
    <2>4. keyOf \in Seq({NoKey})
      OBVIOUS
    <2> QED BY <1>2, <2>1, <2>2, <2>3, <2>4 DEF BatchTypes
  <1>10. BatchControl
    BY <1>c DEF BatchControl
  <1>11. SlotOnce
    BY <1>c, <1>8 DEF SlotOnce, SlotOf, Filling
  <1>12. SlotSomewhere
    BY <1>c DEF SlotSomewhere
  <1>13. QueueOnce
    BY <1>c, <1>6, <1>7 DEF QueueOnce, Filling
  <1>14. Len(queue) <= N
    BY <1>c, <1>2
  <1> QED BY <1>9, <1>10, <1>11, <1>12, <1>13, <1>14 DEF BatchInv

LEMMA StartWorker ==
  ASSUME Init
  PROVE  WorkerInv
  <1> USE DEF Init
  <1>c. None \notin Crew /\ N \in Nat \ {0} /\ Crew = 0 .. N - 1 /\ 0 \in Crew
    BY PoolAssumption DEF Crew
  <1>1. << >> \in Seq(Nat) /\ Len(<< >>) = 0
    OBVIOUS
  <1>2. inbox \in [Crew -> Seq(Nat)] /\ \A w \in Crew : Len(inbox[w]) <= 1
    BY <1>1
  <1>3. CASE keyed
    <2>1. free \in Seq(Crew)
      BY <1>3
    <2> QED BY <1>c, <1>2, <1>3, <2>1 DEF WorkerInv, WorkerTypes, WorkerOnce, WorkerPlaces,
               LoopPlaces
  <1>4. CASE ~keyed
    <2>1. \A i \in 1 .. N : i - 1 \in Crew
      BY <1>c
    <2>2. free = [i \in 1 .. N |-> i - 1]
      BY <1>4
    <2>3. free \in Seq(Crew) /\ Len(free) = N
      BY <1>c, <2>1, <2>2
    <2>4. Distinct(free)
      BY <1>c, <2>2, <2>3 DEF Distinct
    <2>5. WorkerTypes
      BY <1>c, <1>2, <2>3 DEF WorkerTypes, WorkerPlaces, LoopPlaces
    <2> QED BY <1>c, <2>4, <2>5 DEF WorkerInv, WorkerOnce, Offered
  <1> QED BY <1>3, <1>4

LEMMA PoolsInvariant == SafePools => []PoolsInv
  <1>1. InitPools => PoolsInv
    <2>1. CASE kind = "deliveries" /\ Init
      BY <2>1, StartWorker DEF PoolsInv
    <2>2. CASE kind = "batches" /\ Batch!Init
      BY <2>2, StartBatch DEF PoolsInv
    <2>3. CASE kind = "rings"
      BY <2>3 DEF PoolsInv
    <2> QED BY <2>1, <2>2, <2>3 DEF InitPools
  <1>2. PoolsInv /\ [NextPools]_poolsVars => PoolsInv'
    <2> SUFFICES ASSUME PoolsInv, [NextPools]_poolsVars PROVE PoolsInv'
      OBVIOUS
    <2>1. CASE kind = "deliveries"
      <3>1. kind' = kind /\ [Next]_vars
        BY <2>1 DEF NextPools, OfDeliveries, OfBatches, OfRings, poolsVars
      <3>2. WorkerTypes /\ WorkerOnce
        BY <2>1 DEF PoolsInv, WorkerInv
      <3>3. WorkerTypes' /\ WorkerOnce'
        BY <3>1, <3>2, StepWorkerTypes, StepWorkerOnce
      <3> QED BY <2>1, <3>1, <3>3 DEF PoolsInv, WorkerInv
    <2>2. CASE kind = "batches"
      <3>1. kind' = kind
        BY <2>2 DEF NextPools, OfDeliveries, OfBatches, OfRings, poolsVars
      <3>2. CASE Batch!Next
        <4>1. BatchInv'
          BY <2>2, <3>2, StepBatch DEF PoolsInv
        <4> QED BY <2>2, <3>1, <4>1 DEF PoolsInv
      <3>3. CASE UNCHANGED poolsVars
        <4>1. UNCHANGED Batch!vars
          BY <3>3 DEF poolsVars, vars, batchOnly, Batch!vars
        <4>2. BatchInv'
          BY <2>2, <4>1, StepBatch DEF PoolsInv
        <4> QED BY <2>2, <3>1, <4>2 DEF PoolsInv
      <3> QED BY <2>2, <3>2, <3>3 DEF NextPools, OfDeliveries, OfBatches, OfRings
    <2>3. CASE kind \notin {"deliveries", "batches"}
      <3>1. kind' = kind
        BY <2>3 DEF NextPools, OfDeliveries, OfBatches, OfRings, poolsVars
      <3> QED BY <2>3, <3>1 DEF PoolsInv
    <2> QED BY <2>1, <2>2, <2>3
  <1> QED BY <1>1, <1>2, PTL DEF SafePools

-----------------------------------------------------------------------------
LEMMA WorkerQueueIsFree ==
  ASSUME WorkerInv
  PROVE  FreeIsFree
  <1> SUFFICES ASSUME ~keyed
               PROVE  /\ Distinct(free)
                      /\ \A w \in Range(free) \cup {held} : w # None =>
                           /\ ~(held = w /\ w \in Range(free))
                           /\ at[w] \in {"recv", "dropping", "ended"}
                           /\ inbox[w] = << >>
    BY DEF FreeIsFree, Distinct
  <1>1. Distinct(free) /\ held \in Crew \cup {None} /\ free \in Seq(Crew)
    BY DEF WorkerInv, WorkerTypes, WorkerOnce
  <1>2. Range(free) \subseteq Crew
    BY <1>1 DEF Range
  <1>3. ASSUME NEW w \in Range(free) \cup {held}, w # None
        PROVE  w \in Crew /\ Offered(w)
    BY <1>1, <1>2, <1>3 DEF Offered
  <1> QED BY <1>1, <1>3 DEF WorkerInv, WorkerOnce

LEMMA SameCardinality == \A S : Batch!Cardinality(S) = Cardinality(S)
BY DEF Batch!Cardinality, Cardinality

LEMMA BatchSlotInOnePlace ==
  ASSUME BatchInv
  PROVE  Batch!SlotInOnePlace
  <1>c. Batch!Crew = Crew
    BY DEF Batch!Crew, Crew
  <1>r. \A w : Batch!GivenBack(w) <=> Returned(w)
    BY DEF Batch!GivenBack, Returned, Returns
  <1> SUFFICES ASSUME NEW w \in Batch!Crew
               PROVE  /\ Cardinality(Batch!SlotPlaces(w)) <= 1
                      /\ Batch!SlotPlaces(w) = {} =>
                           \/ loop \in {"close", "closeTell", "done"}
                           \/ w \in left \/ at[w] = "mark"
    BY SameCardinality DEF Batch!SlotInOnePlace
  <1>w. w \in Crew
    BY <1>c
  <1> DEFINE P == Batch!SlotPlaces(w)
  <1>1. /\ \A p \in P : p \in {"loop", "held", "box", "hand", "report", "queue"}
        /\ "loop" \in P <=> w \in slots
        /\ "held" \in P <=> Filling(w)
        /\ "box" \in P <=> box[w] # 0
        /\ "hand" \in P <=> hand[w] # 0
        /\ "report" \in P <=> at[w] = "report"
        /\ "queue" \in P <=> Returned(w)
    BY <1>r DEF Batch!SlotPlaces, Filling
  <1>2. SlotOf(w) /\ (hand[w] # 0 => at[w] # "report")
    BY <1>w DEF BatchInv, SlotOnce, BatchControl
  <1> HIDE DEF P
  <1>3. \A p, q \in P : p = q
    BY <1>1, <1>2 DEF SlotOf
  <1>4. Cardinality(P) <= 1
    <2>1. CASE P = {}
      BY <2>1, FS_EmptySet
    <2>2. CASE P # {}
      <3>1. PICK p \in P : TRUE
        BY <2>2
      <3>2. P = {p}
        BY <1>3, <3>1
      <3> QED BY <3>2, FS_Singleton
    <2> QED BY <2>1, <2>2
  <1>5. P = {} => loop \in {"close", "closeTell", "done"} \/ w \in left \/ at[w] = "mark"
    BY <1>w, <1>1 DEF BatchInv, SlotSomewhere, Closing
  <1> QED BY <1>4, <1>5 DEF P

\* The queue of free workers of either pool holds each worker once and only while it is free, and a
\* batch worker's slot is in one place: for any number of workers and of messages
\* (FreeList::report and acquire of batch_pool.rs, Farewell and take_free of pool.rs).
THEOREM RoomForEveryReport == SafePools => []FreeListsHaveRoom
  <1>1. PoolsInv => FreeListsHaveRoom
    <2> SUFFICES ASSUME PoolsInv PROVE FreeListsHaveRoom
      OBVIOUS
    <2>1. kind = "deliveries" => FreeIsFree
      BY WorkerQueueIsFree DEF PoolsInv
    <2>2. ASSUME BatchInv PROVE Batch!FreeListHasRoom
      <3>1. \A w : Batch!InQueue(w) <=> Queued(w)
        BY DEF Batch!InQueue, Queued, Has
      <3>2. Len(queue) <= N /\ QueueOnce
        BY <2>2 DEF BatchInv
      <3>3. Batch!Crew = Crew
        BY DEF Batch!Crew, Crew
      <3> QED BY <3>1, <3>2, <3>3 DEF QueueOnce, Once, Batch!FreeListHasRoom
    <2>3. kind = "batches" => Batch!FreeListHasRoom /\ Batch!SlotInOnePlace
      BY <2>2, BatchSlotInOnePlace DEF PoolsInv
    <2> QED BY <2>1, <2>3 DEF FreeListsHaveRoom
  <1> QED BY <1>1, PoolsInvariant, PTL

\* A batch worker that ended by a panic is found by the loop, for any number of workers: the loop
\* stops reading, or the worker's last report is in the queue before it (Farewell::drop).
THEOREM BatchPanicsFound == SafePools => []BatchPanicIsFound
  <1>1. PoolsInv => BatchPanicIsFound
    <2> SUFFICES ASSUME kind = "batches", QueueOnce PROVE Batch!PanicIsFound
      BY DEF PoolsInv, BatchInv, BatchPanicIsFound
    <2>1. \A w : Batch!InQueue(w) <=> Queued(w)
      BY DEF Batch!InQueue, Queued, Has
    <2>2. Batch!Crew = Crew
      BY DEF Batch!Crew, Crew
    <2> QED BY <2>1, <2>2 DEF QueueOnce, Closing, Batch!PanicIsFound
  <1> QED BY <1>1, PoolsInvariant, PTL

\* The push of a report finds room in a queue of one place per worker, a panicking worker's last
\* report included: Farewell::drop and FreeList::report discard the result of the push ("so there
\* is always room"), and a report that was lost would leave the loop a worker short for good.
ReportFitsAlways ==
  \A w \in Crew :
    /\ kind = "deliveries" /\ ~keyed /\ at[w] \in {"report", "farewell"} => Len(free) < N
    /\ kind = "batches" /\ ~aborted /\ at[w] \in {"report", "lastReport"} => Len(queue) < N

\* No report of a free worker or of one that panicked is lost to a full queue, for any number of
\* workers (FreeList::report, Farewell::drop).
THEOREM NoReportLost == SafePools => []ReportFitsAlways
  <1>1. PoolsInv => ReportFitsAlways
    <2> SUFFICES ASSUME PoolsInv, NEW w \in Crew
                 PROVE  /\ kind = "deliveries" /\ ~keyed /\ at[w] \in {"report", "farewell"}
                             => Len(free) < N
                        /\ kind = "batches" /\ ~aborted /\ at[w] \in {"report", "lastReport"}
                             => Len(queue) < N
      BY DEF ReportFitsAlways
    <2>1. ASSUME kind = "deliveries", ~keyed, at[w] \in {"report", "farewell"}
          PROVE  Len(free) < N
      <3>1. free \in Seq(Crew) /\ Distinct(free) /\ w \notin Range(free)
        BY <2>1 DEF PoolsInv, WorkerInv, WorkerTypes, WorkerOnce, Offered
      <3> QED BY <3>1, RoomForOne
    <2>2. ASSUME kind = "batches", ~aborted, at[w] \in {"report", "lastReport"}
          PROVE  Len(queue) < N
      <3>1. queue \in Seq(Entries) /\ Once(queue) /\ ~Has(queue, w)
        BY <2>2 DEF PoolsInv, BatchInv, BatchTypes, QueueOnce, Queued
      <3> QED BY <3>1, ListHasRoom
    <2> QED BY <2>1, <2>2
  <1> QED BY <1>1, PoolsInvariant, PTL

(***************************************************************************)
(* The refinement of Dispatch                                              *)
(***************************************************************************)

\* Of the deliveries 1 .. L: those in the places q before the workers or in the loop's hand c.
Before(q, c, L) == {n \in 1 .. L : n = c \/ \E w \in Crew : q[w] = n}

\* A delivery is in one place: before a worker, in a worker's hand h or in the loop's.
Apart(q, h, c, L) ==
  /\ \A w \in Crew : q[w] <= L /\ h[w] <= L
  /\ c <= L
  /\ \A v, w \in Crew : q[v] = q[w] => v = w \/ q[v] = 0
  /\ \A v, w \in Crew : h[v] = h[w] => v = w \/ h[v] = 0
  /\ \A v, w \in Crew : q[v] = h[w] => q[v] = 0
  /\ \A w \in Crew : c # 0 => c # q[w] /\ c # h[w]

\* Those in a hand.
Held(h) == Range(h) \ {0}

LEMMA InHand ==
  ASSUME NEW h \in [Crew -> Nat]
  PROVE  \A n : n \in Held(h) <=> n # 0 /\ \E w \in Crew : h[w] = n
BY DEF Held, Range

LEMMA InFront ==
  ASSUME NEW q \in [Crew -> Nat], NEW h \in [Crew -> Nat], NEW c \in Nat, NEW L \in Nat,
         Apart(q, h, c, L)
  PROVE  \A n : n \in Before(q, c, L) <=> n # 0 /\ (n = c \/ \E w \in Crew : q[w] = n)
  <1> SUFFICES ASSUME NEW n
               PROVE  n \in Before(q, c, L) <=> n # 0 /\ (n = c \/ \E w \in Crew : q[w] = n)
    OBVIOUS
  <1>1. ASSUME n # 0, n = c PROVE n \in 1 .. L
    BY <1>1 DEF Apart
  <1>2. ASSUME n # 0, NEW w \in Crew, q[w] = n PROVE n \in 1 .. L
    BY <1>2 DEF Apart
  <1>3. n \in 1 .. L => n # 0
    OBVIOUS
  <1> QED BY <1>1, <1>2, <1>3 DEF Before

\* The loop reads a delivery.
LEMMA Pulled ==
  ASSUME NEW q \in [Crew -> Nat], NEW h \in [Crew -> Nat], NEW L \in Nat, Apart(q, h, 0, L)
  PROVE  /\ Apart(q, h, L + 1, L + 1)
         /\ Before(q, L + 1, L + 1) = Before(q, 0, L) \cup {L + 1}
  <1>1. \A w \in Crew : q[w] \in Nat /\ h[w] \in Nat /\ q[w] <= L /\ h[w] <= L
    BY DEF Apart
  <1>2. \A w \in Crew : /\ q[w] <= L + 1 /\ h[w] <= L + 1
                        /\ L + 1 # q[w] /\ L + 1 # h[w]
    BY <1>1
  <1>3. L + 1 <= L + 1 /\ L + 1 \in Nat /\ L + 1 # 0
    OBVIOUS
  <1>4. Apart(q, h, L + 1, L + 1)
    BY <1>2, <1>3 DEF Apart
  <1> DEFINE A == Before(q, L + 1, L + 1)  B == Before(q, 0, L)
  <1>5. \A n : n \in A <=> n # 0 /\ (n = L + 1 \/ \E w \in Crew : q[w] = n)
    BY <1>3, <1>4, InFront
  <1>6. \A n : n \in B <=> n # 0 /\ (n = 0 \/ \E w \in Crew : q[w] = n)
    BY InFront
  <1> HIDE DEF A, B
  <1>7. A = B \cup {L + 1}
    BY <1>3, <1>5, <1>6
  <1> QED BY <1>4, <1>7 DEF A, B

\* Of the places q, some are empty in p; w has x in p.
Kept(q, p) == p \in [Crew -> Nat] /\ \A w \in Crew : p[w] \in {0, q[w]}
Puts(q, p, w, x) == p = [q EXCEPT ![w] = x]

\* It gives it to a worker.
LEMMA Sent ==
  ASSUME NEW q \in [Crew -> Nat], NEW h \in [Crew -> Nat], NEW c \in Nat, NEW L \in Nat,
         Apart(q, h, c, L), NEW w \in Crew, q[w] = 0, c # 0,
         NEW p, Puts(q, p, w, c)
  PROVE  /\ p \in [Crew -> Nat]
         /\ Apart(p, h, 0, L)
         /\ Before(p, 0, L) = Before(q, c, L)
  <1>1. p \in [Crew -> Nat] /\ p[w] = c /\ \A v \in Crew : v # w => p[v] = q[v]
    BY DEF Puts
  <1>2. Apart(p, h, 0, L)
    BY <1>1 DEF Apart
  <1>3. \A n : n \in Before(p, 0, L) <=> n # 0 /\ (n = 0 \/ \E v \in Crew : p[v] = n)
    <2>1. p \in [Crew -> Nat] /\ 0 \in Nat
      BY <1>1
    <2> QED BY ONLY <1>2, <2>1, InFront, h \in [Crew -> Nat], L \in Nat
  <1>4. \A n : n \in Before(q, c, L) <=> n # 0 /\ (n = c \/ \E v \in Crew : q[v] = n)
    BY InFront
  <1>5. \A n : n # 0 => ((\E v \in Crew : p[v] = n) <=> n = c \/ \E v \in Crew : q[v] = n)
    BY <1>1
  <1>6. Before(p, 0, L) = Before(q, c, L)
    BY <1>3, <1>4, <1>5
  <1> QED BY <1>1, <1>2, <1>6

\* A worker takes what is before it.
LEMMA Begun ==
  ASSUME NEW q \in [Crew -> Nat], NEW h \in [Crew -> Nat], NEW c \in Nat, NEW L \in Nat,
         Apart(q, h, c, L), NEW w \in Crew, q[w] # 0, h[w] = 0,
         NEW p, Puts(q, p, w, 0), NEW g, Puts(h, g, w, q[w])
  PROVE  /\ p \in [Crew -> Nat] /\ g \in [Crew -> Nat]
         /\ Apart(p, g, c, L)
         /\ q[w] \in Before(q, c, L)
         /\ Before(p, c, L) = Before(q, c, L) \ {q[w]}
         /\ Held(g) = Held(h) \cup {q[w]}
  <1>1. p \in [Crew -> Nat] /\ p[w] = 0 /\ \A v \in Crew : v # w => p[v] = q[v]
    BY DEF Puts
  <1>2. g \in [Crew -> Nat] /\ g[w] = q[w] /\ \A v \in Crew : v # w => g[v] = h[v]
    BY DEF Puts
  <1>3. Apart(p, g, c, L)
    <2>1. /\ \A v \in Crew : p[v] <= L /\ g[v] <= L
          /\ c <= L
      BY <1>1, <1>2 DEF Apart
    <2>2. \A u, v \in Crew : p[u] = p[v] => u = v \/ p[u] = 0
      BY <1>1 DEF Apart
    <2>3. \A u, v \in Crew : g[u] = g[v] => u = v \/ g[u] = 0
      BY <1>2 DEF Apart
    <2>4. \A u, v \in Crew : p[u] = g[v] => p[u] = 0
      BY <1>1, <1>2 DEF Apart
    <2>5. \A v \in Crew : c # 0 => c # p[v] /\ c # g[v]
      BY <1>1, <1>2 DEF Apart
    <2> QED BY <2>1, <2>2, <2>3, <2>4, <2>5 DEF Apart
  <1>4. \A n : n \in Before(p, c, L) <=> n # 0 /\ (n = c \/ \E v \in Crew : p[v] = n)
    <2>1. p \in [Crew -> Nat] /\ g \in [Crew -> Nat]
      BY <1>1, <1>2
    <2> QED BY ONLY SMTT(30), <1>3, <2>1, InFront, c \in Nat, L \in Nat
  <1>5. \A n : n \in Before(q, c, L) <=> n # 0 /\ (n = c \/ \E v \in Crew : q[v] = n)
    BY InFront
  <1>6. q[w] # c /\ \A v \in Crew : v # w => q[v] # q[w]
    BY DEF Apart
  <1>7. Before(p, c, L) = Before(q, c, L) \ {q[w]}
    BY <1>1, <1>4, <1>5, <1>6
  <1>8. Held(g) = Held(h) \cup {q[w]}
    <2>1. \A n : n \in Held(g) <=> n # 0 /\ \E v \in Crew : g[v] = n
      BY <1>2, InHand
    <2>2. \A n : n \in Held(h) <=> n # 0 /\ \E v \in Crew : h[v] = n
      BY InHand
    <2> QED BY <1>2, <2>1, <2>2
  <1> QED BY <1>1, <1>2, <1>3, <1>5, <1>7, <1>8

\* What is in a place stays there or is in none any more.
LEMMA Lost ==
  ASSUME NEW q \in [Crew -> Nat], NEW h \in [Crew -> Nat], NEW c \in Nat, NEW L \in Nat,
         Apart(q, h, c, L),
         NEW p, Kept(q, p), NEW g, Kept(h, g), NEW d \in {0, c}
  PROVE  /\ Apart(p, g, d, L)
         /\ Before(p, d, L) \subseteq Before(q, c, L)
         /\ Held(g) \subseteq Held(h)
         /\ Before(q, c, L) \cap Held(h) = {}
  <1> USE DEF Kept
  <1>1. Apart(p, g, d, L)
    <2>1. /\ \A v \in Crew : p[v] <= L /\ g[v] <= L
          /\ d <= L
      BY DEF Apart
    <2>2. \A u, v \in Crew : p[u] = p[v] => u = v \/ p[u] = 0
      BY DEF Apart
    <2>3. \A u, v \in Crew : g[u] = g[v] => u = v \/ g[u] = 0
      BY DEF Apart
    <2>4. \A u, v \in Crew : p[u] = g[v] => p[u] = 0
      BY DEF Apart
    <2>5. \A v \in Crew : d # 0 => d # p[v] /\ d # g[v]
      BY DEF Apart
    <2> QED BY <2>1, <2>2, <2>3, <2>4, <2>5 DEF Apart
  <1>2. \A n : n \in Before(p, d, L) <=> n # 0 /\ (n = d \/ \E v \in Crew : p[v] = n)
    BY <1>1, InFront
  <1>3. \A n : n \in Before(q, c, L) <=> n # 0 /\ (n = c \/ \E v \in Crew : q[v] = n)
    BY InFront
  <1>4. \A n : n \in Held(g) <=> n # 0 /\ \E v \in Crew : g[v] = n
    BY InHand
  <1>5. \A n : n \in Held(h) <=> n # 0 /\ \E v \in Crew : h[v] = n
    BY InHand
  <1>6. Before(p, d, L) \subseteq Before(q, c, L) /\ Held(g) \subseteq Held(h)
    BY <1>2, <1>3, <1>4, <1>5
  <1>7. Before(q, c, L) \cap Held(h) = {}
    <2> SUFFICES ASSUME NEW n, n # 0, n = c \/ \E v \in Crew : q[v] = n, NEW u \in Crew, h[u] = n
                 PROVE  FALSE
      BY <1>3, <1>5
    <2> QED BY DEF Apart
  <1> QED BY <1>1, <1>6, <1>7

\* A worker lets go of what it has at hand.
LEMMA LetGo ==
  ASSUME NEW q \in [Crew -> Nat], NEW h \in [Crew -> Nat], NEW c \in Nat, NEW L \in Nat,
         Apart(q, h, c, L), NEW w \in Crew, NEW g, Puts(h, g, w, 0)
  PROVE  /\ g \in [Crew -> Nat]
         /\ Apart(q, g, c, L)
         /\ h[w] # 0 => h[w] \in Held(h)
         /\ Held(g) = Held(h) \ {h[w]}
  <1>1. g \in [Crew -> Nat] /\ g[w] = 0 /\ \A v \in Crew : v # w => g[v] = h[v]
    BY DEF Puts
  <1>2. Apart(q, g, c, L)
    <2>1. Kept(h, g) /\ Kept(q, q) /\ c \in {0, c}
      BY <1>1 DEF Kept
    <2> QED BY <2>1, Lost
  <1>3. \A n : n \in Held(g) <=> n # 0 /\ \E v \in Crew : g[v] = n
    BY <1>1, InHand
  <1>4. \A n : n \in Held(h) <=> n # 0 /\ \E v \in Crew : h[v] = n
    BY InHand
  <1>5. \A v \in Crew : v # w /\ h[v] = h[w] => h[v] = 0
    BY DEF Apart
  <1>6. ASSUME NEW n PROVE n \in Held(g) <=> n \in Held(h) /\ n # h[w]
    <2>1. ASSUME n # 0, NEW v \in Crew, g[v] = n PROVE h[v] = n /\ n # h[w]
      BY <1>1, <1>5, <2>1
    <2>2. ASSUME n # h[w], NEW v \in Crew, h[v] = n PROVE g[v] = n
      BY <1>1, <2>2
    <2> QED BY <1>3, <1>4, <2>1, <2>2
  <1> QED BY <1>1, <1>2, <1>4, <1>6

\* Each of S is with a worker of T, and each worker has one.
LEMMA OneEach ==
  ASSUME NEW T \in SUBSET Crew, NEW S, NEW f,
         \A n \in S : \E w \in T : f[w] = n
  PROVE  IsFiniteSet(S) /\ Cardinality(S) <= Cardinality(T) /\ IsFiniteSet(T)
  <1> DEFINE g == [n \in S |-> CHOOSE w \in T : f[w] = n]
  <1>1. \A n \in S : g[n] \in T /\ f[g[n]] = n
    OBVIOUS
  <1>2. g \in [S -> T]
    <2>1. \A n \in S : (CHOOSE w \in T : f[w] = n) \in T
      OBVIOUS
    <2> QED BY <2>1
  <1> HIDE DEF g
  <1>3. g \in Injection(S, T)
    BY <1>1, <1>2 DEF Injection, IsInjective
  <1>4. IsFiniteSet(Crew)
    BY FS_Interval, PoolAssumption DEF Crew
  <1>5. IsFiniteSet(T)
    BY <1>4, FS_Subset
  <1> QED BY <1>3, <1>5, FS_Injection

LEMMA CrewSize == IsFiniteSet(Crew) /\ Cardinality(Crew) = N /\ N \in Nat
  <1>1. 0 \in Int /\ N - 1 \in Int /\ ~(0 > N - 1) /\ (N - 1) - 0 + 1 = N /\ N \in Nat
    BY PoolAssumption
  <1> QED BY <1>1, FS_Interval DEF Crew

\* A pool that has a worker free has fewer deliveries than workers.
LEMMA RoomToRead ==
  ASSUME NEW q \in [Crew -> Nat], NEW h \in [Crew -> Nat], NEW L \in Nat, Apart(q, h, 0, L),
         NEW v \in Crew, q[v] = 0, h[v] = 0,
         \A w \in Crew : q[w] = 0 \/ h[w] = 0
  PROVE  Cardinality(Before(q, 0, L) \cup Held(h)) < N
  <1> DEFINE S == Before(q, 0, L) \cup Held(h)
             T == Crew \ {v}
             f == [w \in Crew |-> IF h[w] # 0 THEN h[w] ELSE q[w]]
  <1>1. \A n : n \in S <=> n # 0 /\ \E w \in Crew : q[w] = n \/ h[w] = n
    BY InFront, InHand
  <1>2. \A w \in Crew : f[w] = IF h[w] # 0 THEN h[w] ELSE q[w]
    OBVIOUS
  <1> HIDE DEF S, f
  <1>3. ASSUME NEW n \in S PROVE \E w \in T : f[w] = n
    <2>1. PICK w \in Crew : (q[w] = n \/ h[w] = n) /\ n # 0
      BY <1>1
    <2>2. w # v
      BY <2>1
    <2>3. f[w] = n
      BY <1>2, <2>1
    <2> QED BY <2>2, <2>3
  <1>4. Cardinality(S) <= Cardinality(T) /\ IsFiniteSet(S)
    BY <1>3, OneEach
  <1>5. Cardinality(T) = N - 1
    BY CrewSize, FS_RemoveElement
  <1>6. Cardinality(S) \in Nat /\ N \in Nat
    BY <1>4, FS_CardinalityType, CrewSize
  <1> QED BY <1>4, <1>5, <1>6 DEF S

\* By key every worker has one queued and one at hand at most.
LEMMA TwoEach ==
  ASSUME NEW q \in [Crew -> Nat], NEW h \in [Crew -> Nat], NEW L \in Nat, Apart(q, h, 0, L)
  PROVE  Cardinality(Before(q, 0, L) \cup Held(h)) < 2 * N + 1
  <1> DEFINE A == Before(q, 0, L)  B == Held(h)
  <1>1. \A n \in A : \E w \in Crew : q[w] = n
    BY InFront
  <1>2. \A n \in B : \E w \in Crew : h[w] = n
    BY InHand
  <1> HIDE DEF A, B
  <1>3. IsFiniteSet(A) /\ Cardinality(A) <= Cardinality(Crew)
    BY <1>1, OneEach
  <1>4. IsFiniteSet(B) /\ Cardinality(B) <= Cardinality(Crew)
    BY <1>2, OneEach
  <1>5. /\ IsFiniteSet(A \cup B)
        /\ Cardinality(A \cup B) = Cardinality(A) + Cardinality(B) - Cardinality(A \cap B)
    BY <1>3, <1>4, FS_Union
  <1>6. IsFiniteSet(A \cap B)
    BY <1>3, FS_Subset
  <1>7. /\ Cardinality(A) \in Nat /\ Cardinality(B) \in Nat /\ Cardinality(A \cap B) \in Nat
        /\ N \in Nat
    BY <1>3, <1>4, <1>6, FS_CardinalityType, CrewSize
  <1> QED BY <1>3, <1>4, <1>5, <1>7, CrewSize DEF A, B

(***************************************************************************)
(* The moves of a delivery, of either pool: q and p are the places before  *)
(* the workers, before and after the step                                  *)
(***************************************************************************)
Stays(q, p) == p = q /\ UNCHANGED <<hand, carry, keyOf, finished, died, aborted>>

Reads(q, p, k) ==
  /\ carry = 0 /\ carry' = Len(keyOf) + 1
  /\ keyOf' = Append(keyOf, k)
  /\ p = q /\ UNCHANGED <<hand, finished, died, aborted>>

Gives(q, p, w) ==
  /\ carry # 0 /\ carry' = 0
  /\ q[w] = 0 /\ Puts(q, p, w, carry)
  /\ UNCHANGED <<hand, keyOf, finished, died, aborted>>

Takes(q, p, w) ==
  /\ q[w] # 0 /\ Puts(q, p, w, 0)
  /\ hand[w] = 0 /\ Puts(hand, hand', w, q[w])
  /\ UNCHANGED <<carry, keyOf, finished, died, aborted>>

Settles(q, p, w) ==
  /\ hand[w] # 0 /\ Puts(hand, hand', w, 0)
  /\ finished' = Append(finished, hand[w])
  /\ p = q /\ UNCHANGED <<carry, keyOf, died, aborted>>

Loses(q, p) ==
  /\ died' \/ aborted'
  /\ Kept(q, p) /\ Kept(hand, hand')
  /\ carry' \in {0, carry}
  /\ UNCHANGED <<keyOf, finished>>

Moves(q, p) ==
  \/ Stays(q, p)
  \/ \E k \in Keys \cup {NoKey} : Reads(q, p, k)
  \/ \E w \in Crew : Gives(q, p, w) \/ Takes(q, p, w) \/ Settles(q, p, w)
  \/ Loses(q, p)

\* The places are of the right types and each delivery is in one of them.
Placed(q) ==
  /\ q \in [Crew -> Nat] /\ hand \in [Crew -> Nat] /\ carry \in Nat
  /\ keyOf \in Seq(Keys \cup {NoKey}) /\ finished \in Seq(Nat)
  /\ Apart(q, hand, carry, Len(keyOf))

PlacedThen(p) ==
  /\ p \in [Crew -> Nat] /\ hand' \in [Crew -> Nat] /\ carry' \in Nat
  /\ keyOf' \in Seq(Keys \cup {NoKey}) /\ finished' \in Seq(Nat)
  /\ Apart(p, hand', carry', Len(keyOf'))

LEMMA MovesApart ==
  ASSUME NEW q, NEW p, Placed(q), Moves(q, p)
  PROVE  PlacedThen(p)
  <1> USE DEF Placed, PlacedThen
  <1>0. Len(keyOf) \in Nat
    OBVIOUS
  <1>1. CASE Stays(q, p)
    BY <1>1 DEF Stays
  <1>2. ASSUME NEW k \in Keys \cup {NoKey}, Reads(q, p, k) PROVE PlacedThen(p)
    <2>1. keyOf' \in Seq(Keys \cup {NoKey}) /\ Len(keyOf') = Len(keyOf) + 1
      BY <1>2 DEF Reads
    <2>2. Apart(q, hand, Len(keyOf) + 1, Len(keyOf) + 1)
      BY <1>0, <1>2, Pulled DEF Reads
    <2> QED BY <1>0, <1>2, <2>1, <2>2 DEF Reads
  <1>3. ASSUME NEW w \in Crew, Gives(q, p, w) PROVE PlacedThen(p)
    <2>1. p \in [Crew -> Nat] /\ Apart(p, hand, 0, Len(keyOf))
      BY <1>0, <1>3, Sent DEF Gives
    <2> QED BY <1>3, <2>1 DEF Gives
  <1>4. ASSUME NEW w \in Crew, Takes(q, p, w) PROVE PlacedThen(p)
    <2>1. p \in [Crew -> Nat] /\ hand' \in [Crew -> Nat] /\ Apart(p, hand', carry, Len(keyOf))
      BY <1>0, <1>4, Begun DEF Takes
    <2> QED BY <1>4, <2>1 DEF Takes
  <1>5. ASSUME NEW w \in Crew, Settles(q, p, w) PROVE PlacedThen(p)
    <2>1. hand' \in [Crew -> Nat] /\ Apart(q, hand', carry, Len(keyOf))
      BY <1>0, <1>5, LetGo DEF Settles
    <2>2. hand[w] \in Nat
      OBVIOUS
    <2>3. finished' \in Seq(Nat)
      BY <1>5, <2>2 DEF Settles
    <2> QED BY <1>5, <2>1, <2>3 DEF Settles
  <1>6. CASE Loses(q, p)
    <2>1. Apart(p, hand', carry', Len(keyOf))
      <3>1. Kept(q, p) /\ Kept(hand, hand') /\ carry' \in {0, carry}
        BY <1>6 DEF Loses
      <3>2. /\ q \in [Crew -> Nat] /\ hand \in [Crew -> Nat] /\ carry \in Nat
            /\ Apart(q, hand, carry, Len(keyOf))
        OBVIOUS
      <3> HIDE DEF Placed, PlacedThen
      <3> QED BY ONLY <1>0, <3>1, <3>2, Lost
    <2>2. p \in [Crew -> Nat] /\ hand' \in [Crew -> Nat]
      BY <1>6 DEF Loses, Kept
    <2> QED BY <1>6, <2>1, <2>2 DEF Loses
  <1> QED BY <1>1, <1>2, <1>3, <1>4, <1>5, <1>6 DEF Moves

LEMMA SameSize == \A S : D!Cardinality(S) = Cardinality(S)
BY DEF D!Cardinality, Cardinality

\* A move is a step of the dispatch: a read finds room, and what a worker takes has none of its key
\* before it.
LEMMA MovesDispatch ==
  ASSUME NEW q, NEW p, Placed(q), Moves(q, p),
         InFlight = Before(q, carry, Len(keyOf)),
         InFlight' = Before(p, carry', Len(keyOf')),
         MostInFlight' = MostInFlight,
         carry = 0 /\ carry' # 0 => Cardinality(InFlight \cup Held(hand)) < MostInFlight,
         \A w \in Crew : Takes(q, p, w) /\ keyOf[q[w]] # NoKey =>
           \A m \in InFlight \cup Held(hand) : m < q[w] => keyOf[m] # keyOf[q[w]]
  PROVE  [D!Next]_(D!vars)
  <1> USE DEF Placed
  <1>0. Len(keyOf) \in Nat
    OBVIOUS
  <1>t. /\ q \in [Crew -> Nat] /\ hand \in [Crew -> Nat] /\ carry \in Nat
        /\ Apart(q, hand, carry, Len(keyOf))
    OBVIOUS
  <1>f. finished' = finished => Range(finished)' = Range(finished)
    BY DEF Range
  <1>r. Range(hand) \ {0} = Held(hand) /\ Range(hand)' \ {0} = Held(hand')
    BY DEF Held, Range
  <1>1. CASE Stays(q, p)
    BY <1>1 DEF Stays, D!vars, Range
  <1>2. ASSUME NEW k \in Keys \cup {NoKey}, Reads(q, p, k) PROVE D!Next
    <2>1. Len(keyOf') = Len(keyOf) + 1
      BY <1>2 DEF Reads
    <2>2. InFlight' = InFlight \cup {Len(keyOf) + 1}
      BY <1>0, <1>2, <2>1, Pulled DEF Reads
    <2>3. Cardinality(InFlight \cup Held(hand)) < MostInFlight
      BY <1>0, <1>2 DEF Reads
    <2>4. D!Take(k)
      BY <1>2, <1>r, <2>2, <2>3, SameSize DEF D!Take, Reads, Range
    <2> QED BY <2>4 DEF D!Next
  <1>3. ASSUME NEW w \in Crew, Gives(q, p, w) PROVE UNCHANGED D!vars
    <2>0. Before(p, 0, Len(keyOf)) = Before(q, carry, Len(keyOf))
      <3>1. q[w] = 0 /\ carry # 0 /\ Puts(q, p, w, carry)
        BY <1>3 DEF Gives
      <3> QED BY ONLY <1>0, <1>t, <3>1, w \in Crew, Sent
    <2>1. InFlight' = InFlight
      BY <1>3, <2>0 DEF Gives
    <2> QED BY <1>3, <2>1 DEF Gives, D!vars, Range
  <1>4. ASSUME NEW w \in Crew, Takes(q, p, w) PROVE D!Next
    <2>0. /\ q[w] \in Before(q, carry, Len(keyOf))
          /\ Before(p, carry, Len(keyOf)) = Before(q, carry, Len(keyOf)) \ {q[w]}
          /\ Held(hand') = Held(hand) \cup {q[w]}
      <3>1. q[w] # 0 /\ Puts(q, p, w, 0) /\ hand[w] = 0 /\ Puts(hand, hand', w, q[w])
        BY <1>4 DEF Takes
      <3> QED BY ONLY SMTT(30), <1>0, <1>t, <3>1, w \in Crew, Begun
    <2>1. /\ q[w] \in InFlight
          /\ InFlight' = InFlight \ {q[w]}
          /\ Held(hand') = Held(hand) \cup {q[w]}
      BY <1>4, <2>0 DEF Takes
    <2>2. ASSUME keyOf[q[w]] # NoKey
          PROVE  D!Ahead(q[w]) \cap (InFlight \cup Held(hand)) = {}
      <3> SUFFICES ASSUME NEW m \in D!Ahead(q[w]), m \in InFlight \cup Held(hand) PROVE FALSE
        OBVIOUS
      <3>1. q[w] \in Nat
        OBVIOUS
      <3>2. m < q[w] /\ keyOf[m] = keyOf[q[w]]
        BY <3>1 DEF D!Ahead
      <3> QED BY <1>4, <2>2, <3>2
    <2>3. D!Begin(q[w])
      BY <1>4, <1>r, <1>f, <2>1, <2>2 DEF D!Begin, Takes
    <2> QED BY <2>1, <2>3 DEF D!Next
  <1>5. ASSUME NEW w \in Crew, Settles(q, p, w) PROVE D!Next
    <2>1. hand[w] \in Held(hand) /\ Held(hand') = Held(hand) \ {hand[w]}
      BY <1>0, <1>5, LetGo DEF Settles
    <2>2. Range(finished') = Range(finished) \cup {hand[w]}
      <3>1. finished \in Seq(Nat) /\ hand[w] \in Nat /\ finished' = Append(finished, hand[w])
        BY <1>5 DEF Settles
      <3> QED BY ONLY <3>1, AppendOne
    <2>3. D!Finish(hand[w])
      BY <1>5, <1>r, <2>1, <2>2 DEF D!Finish, Settles, Range
    <2> QED BY <1>r, <2>1, <2>3 DEF D!Next
  <1>6. CASE Loses(q, p)
    <2>1. /\ InFlight' \subseteq InFlight
          /\ Held(hand') \subseteq Held(hand)
          /\ InFlight \cap Held(hand) = {}
      BY <1>0, <1>6, Lost DEF Loses
    <2> DEFINE lost == (InFlight \ InFlight') \cup (Held(hand) \ Held(hand'))
    <2>2. lost \in SUBSET (InFlight \cup Held(hand))
      OBVIOUS
    <2>3. InFlight' = InFlight \ lost /\ Held(hand') = Held(hand) \ lost
      BY <2>1
    <2> HIDE DEF lost
    <2>4. D!Drop(lost)
      <3>1. (died \/ aborted)' = TRUE /\ UNCHANGED <<keyOf, finished>>
        BY <1>6 DEF Loses
      <3> QED BY <1>r, <1>f, <2>3, <3>1 DEF D!Drop
    <2> QED BY <1>r, <2>2, <2>4 DEF D!Next
  <1> QED BY <1>1, <1>2, <1>3, <1>4, <1>5, <1>6 DEF Moves

(***************************************************************************)
(* The moves of the worker pool                                            *)
(***************************************************************************)

\* The delivery in a worker's inbox, or 0.
FrontOf(b) == [w \in Crew |-> IF b[w] = << >> THEN 0 ELSE b[w][1]]
Front == FrontOf(inbox)

\* What the loop and the workers have where they are, and what only a pool that broke meets.
WorkerControl ==
  /\ carry # 0 <=> loop = "send"
  /\ \A w \in Crew : hand[w] # 0 <=> at[w] = "dispatch"
  /\ \A w \in Crew : inbox[w] # << >> => inbox[w][1] # 0
  /\ keyed => held = None /\ loop # "free"
  /\ closed => loop \in {"join", "done"}
  /\ loop = "join" => closed
  /\ freeClosed => closed /\ loop = "done"
  /\ aborted => loop = "done"
  /\ \A w \in Crew : at[w] \in {"farewell", "dropping"} => died \/ aborted
  /\ gone # {} => closed \/ died \/ aborted

LEMMA StepWorkerControl ==
  ASSUME WorkerTypes, WorkerControl, [Next]_vars
  PROVE  WorkerControl'
  <1> USE DEF WorkerTypes, WorkerControl, WorkerPlaces, LoopPlaces, poolVars, workerVars, loopVars,
     stopVars, history, Goto
  <1>1. ASSUME NEW w \in Crew, Recv(w) PROVE WorkerControl'
    <2>1. inbox[w] \in Seq(Nat) /\ Len(inbox[w]) <= 1 /\ inbox[w] # << >>
      BY <1>1 DEF Recv
    <2>2. Head(inbox[w]) = inbox[w][1] /\ Tail(inbox[w]) = << >>
      BY <2>1
    <2> QED BY <1>1, <2>1, <2>2 DEF Recv
  <1>2. ASSUME NEW w \in Crew, RecvEnds(w) PROVE WorkerControl'
    BY <1>2 DEF RecvEnds
  <1>3. ASSUME NEW w \in Crew, DispatchReturns(w) PROVE WorkerControl'
    BY <1>3 DEF DispatchReturns
  <1>4. ASSUME NEW w \in Crew, Report(w) PROVE WorkerControl'
    BY <1>4 DEF Report
  <1>5. ASSUME NEW w \in Crew, Panic(w) PROVE WorkerControl'
    BY <1>5 DEF Panic
  <1>6. ASSUME NEW w \in Crew, FarewellDrop(w) PROVE WorkerControl'
    BY <1>6 DEF FarewellDrop
  <1>7. ASSUME NEW w \in Crew, DropInbox(w) PROVE WorkerControl'
    BY <1>7 DEF DropInbox
  <1>8. ASSUME NEW w \in Crew, WorkerAborted(w) PROVE WorkerControl'
    BY <1>8 DEF WorkerAborted
  <1>9. CASE Top
    BY <1>9 DEF Top
  <1>10. CASE TakeFree
    BY <1>10 DEF TakeFree
  <1>11. CASE FreeStops
    BY <1>11 DEF FreeStops
  <1>12. ASSUME NEW k \in Keys \cup {NoKey}, Pull(k) PROVE WorkerControl'
    <2>1. Len(keyOf) \in Nat
      OBVIOUS
    <2>2. carry' # 0
      BY <1>12, <2>1 DEF Pull
    <2> QED BY <1>12, <2>2 DEF Pull
  <1>13. CASE PullFails
    BY <1>13 DEF PullFails
  <1>14. ASSUME NEW why \in {"shutdown", "ended"}, PullStops(why) PROVE WorkerControl'
    BY <1>14 DEF PullStops
  <1>15. CASE Send
    <2>1. <<carry>> # << >> /\ <<carry>>[1] = carry
      OBVIOUS
    <2> QED BY <1>15, <2>1 DEF Send
  <1>16. CASE Close
    BY <1>16 DEF Close
  <1>17. CASE Join
    BY <1>17 DEF Join
  <1>18. CASE Abort
    BY <1>18 DEF Abort
  <1>19. CASE Cancel
    BY <1>19 DEF Cancel
  <1>20. CASE Done \/ UNCHANGED vars
    BY <1>20 DEF Done, vars
  <1> QED BY <1>1, <1>2, <1>3, <1>4, <1>5, <1>6, <1>7, <1>8, <1>9, <1>10, <1>11, <1>12, <1>13,
             <1>14, <1>15, <1>16, <1>17, <1>18, <1>19, <1>20
          DEF Next, WorkerStep, LoopStep, StreamStep

LEMMA FrontType ==
  ASSUME NEW b \in [Crew -> Seq(Nat)]
  PROVE  /\ FrontOf(b) \in [Crew -> Nat]
         /\ \A w \in Crew : b[w] = << >> => FrontOf(b)[w] = 0
         /\ \A w \in Crew : b[w] # << >> => FrontOf(b)[w] = b[w][1]
  <1>1. \A w \in Crew : (IF b[w] = << >> THEN 0 ELSE b[w][1]) \in Nat
    <2> SUFFICES ASSUME NEW w \in Crew, b[w] # << >> PROVE b[w][1] \in Nat
      OBVIOUS
    <2>1. b[w] \in Seq(Nat)
      OBVIOUS
    <2> QED BY <2>1
  <1> QED BY <1>1 DEF FrontOf

\* A change of one inbox.
LEMMA FrontChange ==
  ASSUME NEW b \in [Crew -> Seq(Nat)], NEW w \in Crew, NEW s \in Seq(Nat),
         NEW x, x = IF s = << >> THEN 0 ELSE s[1],
         NEW d, d = [b EXCEPT ![w] = s]
  PROVE  Puts(FrontOf(b), FrontOf(d), w, x)
  <1>1. d \in [Crew -> Seq(Nat)] /\ d[w] = s /\ \A v \in Crew : v # w => d[v] = b[v]
    OBVIOUS
  <1>2. \A v \in Crew : FrontOf(d)[v] = IF v = w THEN x ELSE FrontOf(b)[v]
    BY <1>1 DEF FrontOf
  <1>3. FrontOf(d) = [v \in Crew |-> FrontOf(d)[v]] /\ DOMAIN FrontOf(b) = Crew
    BY DEF FrontOf
  <1>4. FrontOf(d) = [FrontOf(b) EXCEPT ![w] = x]
    BY <1>2, <1>3
  <1> QED BY <1>4 DEF Puts

LEMMA WorkerMoves ==
  ASSUME WorkerTypes, WorkerTypes', WorkerControl, [Next]_vars
  PROVE  Moves(Front, FrontOf(inbox'))
  <1> USE DEF poolVars, workerVars, loopVars, stopVars, history
  <1>t. /\ inbox \in [Crew -> Seq(Nat)] /\ inbox' \in [Crew -> Seq(Nat)]
        /\ hand \in [Crew -> Nat] /\ hand' \in [Crew -> Nat] /\ carry \in Nat
    BY DEF WorkerTypes
  <1>f. /\ Front \in [Crew -> Nat] /\ FrontOf(inbox') \in [Crew -> Nat]
        /\ \A w \in Crew : inbox[w] = << >> => Front[w] = 0
        /\ \A w \in Crew : inbox[w] # << >> => Front[w] = inbox[w][1]
    BY <1>t, FrontType DEF Front
  <1>s. ASSUME UNCHANGED <<inbox, hand, carry, keyOf, finished, died, aborted>>
        PROVE  Moves(Front, FrontOf(inbox'))
    BY <1>s DEF Moves, Stays, Front
  <1>p. inbox' = inbox => FrontOf(inbox') = Front
    BY DEF Front
  <1>k. inbox' = inbox => Kept(Front, FrontOf(inbox'))
    BY <1>f, <1>p DEF Kept
  <1>h. ASSUME NEW w \in Crew, hand' = [hand EXCEPT ![w] = 0] PROVE Kept(hand, hand')
    BY <1>t, <1>h DEF Kept
  <1>1. ASSUME NEW w \in Crew, Recv(w) PROVE Moves(Front, FrontOf(inbox'))
    <2>1. inbox[w] \in Seq(Nat) /\ Len(inbox[w]) <= 1 /\ inbox[w] # << >>
      BY <1>1 DEF Recv, WorkerTypes
    <2>2. Head(inbox[w]) = inbox[w][1] /\ Tail(inbox[w]) = << >>
      BY <2>1
    <2>3. Front[w] = Head(inbox[w]) /\ Front[w] # 0 /\ hand[w] = 0
      BY <1>1, <1>f, <2>1, <2>2 DEF Recv, WorkerControl
    <2>4. << >> \in Seq(Nat) /\ inbox' = [inbox EXCEPT ![w] = << >>]
      <3>1. inbox' = [inbox EXCEPT ![w] = Tail(inbox[w])]
        BY <1>1 DEF Recv
      <3>2. << >> \in Seq(Nat)
        OBVIOUS
      <3>3. inbox' = [inbox EXCEPT ![w] = << >>]
        BY ONLY <2>2, <3>1
      <3> QED BY ONLY <3>2, <3>3
    <2>5. Puts(Front, FrontOf(inbox'), w, 0)
      BY <1>t, <2>4, FrontChange DEF Front
    <2>6. Takes(Front, FrontOf(inbox'), w)
      BY <1>1, <2>3, <2>5 DEF Recv, Takes, Puts
    <2> QED BY <2>6 DEF Moves
  <1>2. ASSUME NEW w \in Crew, RecvEnds(w) \/ Report(w) \/ FarewellDrop(w)
        PROVE  Moves(Front, FrontOf(inbox'))
    BY <1>2, <1>s DEF RecvEnds, Report, FarewellDrop
  <1>3. ASSUME NEW w \in Crew, DispatchReturns(w) PROVE Moves(Front, FrontOf(inbox'))
    <2>1. Settles(Front, FrontOf(inbox'), w)
      BY <1>3, <1>p DEF DispatchReturns, Settles, Puts, WorkerControl
    <2> QED BY <2>1 DEF Moves
  <1>4. ASSUME NEW w \in Crew, Panic(w) PROVE Moves(Front, FrontOf(inbox'))
    BY <1>4, <1>k, <1>h DEF Panic, Moves, Loses
  <1>5. ASSUME NEW w \in Crew, DropInbox(w) PROVE Moves(Front, FrontOf(inbox'))
    <2>1. << >> \in Seq(Nat) /\ inbox' = [inbox EXCEPT ![w] = << >>]
      BY <1>5 DEF DropInbox
    <2>2. Puts(Front, FrontOf(inbox'), w, 0)
      BY <1>t, <2>1, FrontChange DEF Front
    <2>3. Kept(Front, FrontOf(inbox')) /\ Kept(hand, hand')
      BY <1>5, <1>t, <1>f, <2>2 DEF Kept, Puts, DropInbox
    <2>4. died' \/ aborted'
      BY <1>5 DEF DropInbox, WorkerControl
    <2>5. Loses(Front, FrontOf(inbox'))
      BY <1>5, <2>3, <2>4 DEF DropInbox, Loses
    <2> QED BY <2>5 DEF Moves
  <1>6. ASSUME NEW w \in Crew, WorkerAborted(w) PROVE Moves(Front, FrontOf(inbox'))
    BY <1>6, <1>k, <1>h DEF WorkerAborted, Moves, Loses
  <1>7. CASE Top \/ TakeFree \/ FreeStops \/ PullFails \/ Close \/ Join \/ Cancel \/ Done
    BY <1>7, <1>s DEF Top, TakeFree, FreeStops, PullFails, Close, Join, Cancel, Done, vars
  <1>8. ASSUME NEW why \in {"shutdown", "ended"}, PullStops(why)
        PROVE  Moves(Front, FrontOf(inbox'))
    BY <1>8, <1>s DEF PullStops
  <1>9. ASSUME NEW k \in Keys \cup {NoKey}, Pull(k) PROVE Moves(Front, FrontOf(inbox'))
    <2>1. Reads(Front, FrontOf(inbox'), k)
      BY <1>9, <1>p DEF Pull, Reads, WorkerControl
    <2> QED BY <2>1 DEF Moves
  <1>10. CASE Send
    <2>1. CASE worker \notin gone /\ inbox[worker] = << >>
               /\ inbox' = [inbox EXCEPT ![worker] = <<carry>>]
      <3>1. <<carry>> \in Seq(Nat) /\ <<carry>> # << >> /\ <<carry>>[1] = carry
        BY <1>t
      <3>2. worker \in Crew
        BY DEF WorkerTypes
      <3>3. Puts(Front, FrontOf(inbox'), worker, carry)
        BY <1>t, <2>1, <3>1, <3>2, FrontChange DEF Front
      <3>4. Gives(Front, FrontOf(inbox'), worker)
        BY <1>10, <1>f, <2>1, <3>2, <3>3 DEF Send, Gives, WorkerControl
      <3> QED BY <3>2, <3>4 DEF Moves
    <2>2. CASE worker \in gone /\ inbox' = inbox
      <3>1. died \/ aborted
        BY <1>10, <2>2 DEF Send, WorkerControl
      <3>2. Kept(hand, hand')
        BY <1>10, <1>t DEF Send, Kept
      <3>3. Loses(Front, FrontOf(inbox'))
        BY <1>10, <1>k, <2>2, <3>1, <3>2 DEF Send, Loses
      <3> QED BY <3>3 DEF Moves
    <2> QED BY <1>10, <2>1, <2>2 DEF Send
  <1>11. CASE Abort
    <2>1. Kept(hand, hand')
      BY <1>11, <1>t DEF Abort, Kept
    <2> QED BY <1>11, <1>k, <2>1 DEF Abort, Moves, Loses
  <1>12. CASE UNCHANGED vars
    BY <1>12, <1>s DEF vars
  <1> QED BY <1>1, <1>2, <1>3, <1>4, <1>5, <1>6, <1>7, <1>8, <1>9, <1>10, <1>11, <1>12
          DEF Next, WorkerStep, LoopStep, StreamStep

\* Delivery n, of those with the keys ks, may be with worker w.
Belongs(ks, w, n) == n # 0 /\ ks[n] # NoKey => KeyIndex[ks[n]] = w

\* A delivery with a key is sent to, queued at and run by the worker of its key, and the loop sends
\* what it read last.
WorkerKeys ==
  /\ carry \in {0, Len(keyOf)}
  /\ Belongs(keyOf, worker, carry)
  /\ \A w \in Crew : Belongs(keyOf, w, hand[w]) /\ Belongs(keyOf, w, Front[w])
  /\ ~keyed => \A n \in 1 .. Len(keyOf) : keyOf[n] = NoKey

LEMMA StepWorkerKeys ==
  ASSUME WorkerTypes, WorkerTypes', WorkerControl, Placed(Front), WorkerKeys, [Next]_vars
  PROVE  WorkerKeys'
  <1> USE DEF poolVars, workerVars, loopVars, stopVars, history
  <1> DEFINE F == FrontOf(inbox')
  <1>t. /\ inbox \in [Crew -> Seq(Nat)] /\ inbox' \in [Crew -> Seq(Nat)]
        /\ hand \in [Crew -> Nat] /\ hand' \in [Crew -> Nat] /\ carry \in Nat
        /\ keyOf \in Seq(Keys \cup {NoKey}) /\ worker \in Crew
    BY DEF WorkerTypes
  <1>f. /\ Front \in [Crew -> Nat] /\ F \in [Crew -> Nat]
        /\ \A w \in Crew : inbox[w] = << >> => Front[w] = 0
        /\ \A w \in Crew : inbox[w] # << >> => Front[w] = inbox[w][1]
        /\ \A w \in Crew : inbox'[w] = << >> => F[w] = 0
        /\ \A w \in Crew : inbox'[w] # << >> => F[w] = inbox'[w][1]
    BY <1>t, FrontType DEF Front
  <1>p. inbox' = inbox => F = Front
    BY DEF Front
  <1>g. Front' = F
    BY DEF Front
  <1> HIDE DEF F
  <1>1. ASSUME carry' \in {0, carry}, worker' = worker, keyOf' = keyOf, keyed' = keyed,
               \A w \in Crew : hand'[w] \in {0, hand[w]} /\ F[w] \in {0, Front[w]}
        PROVE  WorkerKeys'
    <2>1. \A w \in Crew : Belongs(keyOf, w, hand'[w]) /\ Belongs(keyOf, w, F[w])
      BY <1>1 DEF WorkerKeys, Belongs
    <2>2. Belongs(keyOf, worker, carry')
      BY <1>1 DEF WorkerKeys, Belongs
    <2>3. carry' \in {0, Len(keyOf)}
      BY <1>1 DEF WorkerKeys
    <2> QED BY <1>1, <1>g, <2>1, <2>2, <2>3 DEF WorkerKeys, Belongs
  <1>2. ASSUME NEW w \in Crew, Recv(w) PROVE WorkerKeys'
    <2>1. inbox[w] \in Seq(Nat) /\ Len(inbox[w]) <= 1 /\ inbox[w] # << >>
      BY <1>2 DEF Recv, WorkerTypes
    <2>2. Head(inbox[w]) = inbox[w][1] /\ Tail(inbox[w]) = << >>
      BY <2>1
    <2>3. hand'[w] = Front[w] /\ \A v \in Crew : v # w => hand'[v] = hand[v]
      BY <1>2, <1>t, <1>f, <2>1, <2>2 DEF Recv
    <2>4. inbox'[w] = << >> /\ \A v \in Crew : v # w => inbox'[v] = inbox[v]
      BY <1>2, <1>t, <2>2 DEF Recv
    <2>5. F[w] = 0 /\ \A v \in Crew : v # w => F[v] = Front[v]
      BY <1>f, <2>4
    <2>6. \A v \in Crew : Belongs(keyOf, v, hand'[v]) /\ Belongs(keyOf, v, F[v])
      BY <2>3, <2>5 DEF WorkerKeys, Belongs
    <2>7. UNCHANGED <<carry, worker, keyOf, keyed>>
      BY <1>2 DEF Recv
    <2> QED BY <1>g, <2>6, <2>7 DEF WorkerKeys, Belongs
  <1>3. ASSUME NEW k \in Keys \cup {NoKey}, Pull(k) PROVE WorkerKeys'
    <2> DEFINE L == Len(keyOf)
    <2>1. /\ L \in Nat /\ keyOf' = Append(keyOf, k) /\ carry' = L + 1
          /\ UNCHANGED <<inbox, hand, keyed>>
      BY <1>3, <1>t DEF Pull
    <2>2. Len(keyOf') = L + 1 /\ keyOf'[L + 1] = k /\ \A n \in 1 .. L : keyOf'[n] = keyOf[n]
      BY <1>t, <2>1
    <2> HIDE DEF L
    <2>3. \A w \in Crew : hand[w] \in Nat /\ hand[w] <= L /\ Front[w] \in Nat /\ Front[w] <= L
      BY <1>t, <1>f DEF Placed, Apart, L
    <2>4. \A w \in Crew : /\ hand[w] # 0 => hand[w] \in 1 .. L
                          /\ Front[w] # 0 => Front[w] \in 1 .. L
      BY <2>1, <2>3
    <2>5. \A w \in Crew : Belongs(keyOf', w, hand[w]) /\ Belongs(keyOf', w, Front[w])
      BY <2>2, <2>4 DEF WorkerKeys, Belongs
    <2>6. Belongs(keyOf', worker', L + 1)
      <3>1. k # NoKey => held = None /\ k \in Keys
        BY <1>3 DEF Pull, WorkerControl
      <3>2. k # NoKey => worker' = KeyIndex[k]
        BY <1>3, <3>1 DEF Pull, WorkerFor
      <3> QED BY <2>2, <3>2 DEF Belongs
    <2>7. ASSUME ~keyed, NEW n \in 1 .. L + 1 PROVE keyOf'[n] = NoKey
      <3>1. n \in 1 .. L \/ n = L + 1
        BY <2>1
      <3>2. k = NoKey
        BY <1>3, <2>7 DEF Pull
      <3>3. \A m \in 1 .. L : keyOf[m] = NoKey
        BY <2>7 DEF WorkerKeys, L
      <3> QED BY <2>2, <3>1, <3>2, <3>3
    <2> QED BY <1>g, <1>p, <2>1, <2>2, <2>5, <2>6, <2>7 DEF WorkerKeys, Belongs
  <1>4. CASE Send
    <2>1. CASE inbox' = [inbox EXCEPT ![worker] = <<carry>>]
      <3>1. <<carry>> # << >> /\ <<carry>>[1] = carry
        OBVIOUS
      <3>2. inbox'[worker] = <<carry>> /\ \A v \in Crew : v # worker => inbox'[v] = inbox[v]
        BY <1>t, <2>1
      <3>a. inbox'[worker] # << >> /\ inbox'[worker][1] = carry
        BY <3>1, <3>2
      <3>b. F[worker] = carry
        BY ONLY <1>t, <1>f, <3>a
      <3>c. ASSUME NEW v \in Crew, v # worker PROVE F[v] = Front[v]
        <4>1. inbox'[v] = inbox[v]
          BY <3>2, <3>c
        <4> QED BY ONLY <1>f, <4>1, v \in Crew
      <3>3. F[worker] = carry /\ \A v \in Crew : v # worker => F[v] = Front[v]
        BY <3>b, <3>c
      <3>4. \A v \in Crew : Belongs(keyOf, v, F[v])
        BY <3>3 DEF WorkerKeys, Belongs
      <3>5. UNCHANGED <<hand, worker, keyOf, keyed>> /\ carry' = 0
        BY <1>4 DEF Send
      <3> QED BY <1>g, <3>4, <3>5 DEF WorkerKeys, Belongs
    <2>2. CASE inbox' = inbox
      <3>1. UNCHANGED <<hand, worker, keyOf, keyed>> /\ carry' = 0
        BY <1>4 DEF Send
      <3> QED BY <1>1, <1>p, <2>2, <3>1
    <2> QED BY <1>4, <2>1, <2>2 DEF Send
  <1>5. ASSUME NEW w \in Crew, DispatchReturns(w) \/ Panic(w) \/ WorkerAborted(w)
        PROVE  WorkerKeys'
    <2>1. /\ UNCHANGED <<inbox, carry, worker, keyOf, keyed>>
          /\ hand' = [hand EXCEPT ![w] = 0]
      BY <1>5 DEF DispatchReturns, Panic, WorkerAborted
    <2> QED BY <1>1, <1>p, <1>t, <2>1
  <1>6. ASSUME NEW w \in Crew, DropInbox(w) PROVE WorkerKeys'
    <2>1. inbox'[w] = << >> /\ \A v \in Crew : v # w => inbox'[v] = inbox[v]
      BY <1>6, <1>t DEF DropInbox
    <2>2. \A v \in Crew : F[v] \in {0, Front[v]}
      BY <1>f, <2>1
    <2>3. UNCHANGED <<hand, carry, worker, keyOf, keyed>>
      BY <1>6 DEF DropInbox
    <2> QED BY <1>1, <2>2, <2>3
  <1>7. ASSUME NEW w \in Crew, RecvEnds(w) \/ Report(w) \/ FarewellDrop(w) PROVE WorkerKeys'
    <2>1. UNCHANGED <<inbox, hand, carry, worker, keyOf, keyed>>
      BY <1>7 DEF RecvEnds, Report, FarewellDrop
    <2> QED BY <1>1, <1>p, <2>1
  <1>8. CASE \/ Top \/ TakeFree \/ FreeStops \/ PullFails \/ PullStops("shutdown")
             \/ PullStops("ended") \/ Close \/ Join \/ Cancel \/ Done \/ UNCHANGED vars
    <2>1. UNCHANGED <<inbox, hand, carry, worker, keyOf, keyed>>
      BY <1>8 DEF Top, TakeFree, FreeStops, PullFails, PullStops, Close, Join, Cancel, Done, vars
    <2> QED BY <1>1, <1>p, <2>1
  <1>9. CASE Abort
    <2>1. UNCHANGED <<inbox, hand, worker, keyOf, keyed>> /\ carry' = 0
      BY <1>9 DEF Abort
    <2> QED BY <1>1, <1>p, <2>1
  <1> QED BY <1>2, <1>3, <1>4, <1>5, <1>6, <1>7, <1>8, <1>9
          DEF Next, WorkerStep, LoopStep, StreamStep

\* Where the deliveries of the worker pool are.
WorkerFlight == WorkerControl /\ WorkerKeys /\ Placed(Front)

LEMMA WorkerFlightNext ==
  ASSUME WorkerInv, WorkerInv', WorkerFlight, [Next]_vars
  PROVE  WorkerFlight'
  <1>1. WorkerTypes /\ WorkerTypes' /\ WorkerControl /\ WorkerKeys /\ Placed(Front)
    BY DEF WorkerInv, WorkerFlight
  <1>2. WorkerControl' /\ WorkerKeys'
    BY <1>1, StepWorkerControl, StepWorkerKeys
  <1>3. PlacedThen(FrontOf(inbox'))
    BY <1>1, WorkerMoves, MovesApart
  <1>4. Placed(Front)'
    BY <1>3 DEF Placed, PlacedThen, Front
  <1> QED BY <1>2, <1>4 DEF WorkerFlight

LEMMA WorkerWaiting ==
  ASSUME NEW b \in [Crew -> Seq(Nat)], \A w \in Crew : Len(b[w]) <= 1, NEW n, n # 0
  PROVE  \A w \in Crew : (\E i \in 1 .. Len(b[w]) : b[w][i] = n) <=> FrontOf(b)[w] = n
  <1> SUFFICES ASSUME NEW w \in Crew
               PROVE  (\E i \in 1 .. Len(b[w]) : b[w][i] = n) <=> FrontOf(b)[w] = n
    OBVIOUS
  <1>1. b[w] \in Seq(Nat) /\ Len(b[w]) \in Nat /\ Len(b[w]) <= 1
    OBVIOUS
  <1>2. CASE b[w] = << >>
    <2>1. FrontOf(b)[w] = 0 /\ Len(b[w]) = 0
      BY <1>2, FrontType
    <2>2. 1 .. 0 = {}
      OBVIOUS
    <2> QED BY <2>1, <2>2
  <1>3. CASE b[w] # << >>
    <2>a. \A s \in Seq(Nat) : s # << >> => Len(s) # 0
      OBVIOUS
    <2>1. Len(b[w]) = 1
      <3>1. Len(b[w]) # 0
        BY <1>1, <1>3, <2>a
      <3> DEFINE l == Len(b[w])
      <3>2. l \in Nat /\ l <= 1 /\ l # 0
        BY <1>1, <3>1
      <3> HIDE DEF l
      <3>3. l = 1
        BY ONLY <3>2
      <3> QED BY <3>3 DEF l
    <2>2. FrontOf(b)[w] = b[w][1]
      BY <1>3, FrontType
    <2>3. 1 .. 1 = {1}
      OBVIOUS
    <2> QED BY <2>1, <2>2, <2>3
  <1> QED BY <1>2, <1>3

LEMMA WorkerSimulates ==
  ASSUME kind = "deliveries", kind' = kind, WorkerInv, WorkerInv', WorkerFlight, WorkerFlight',
         [Next]_vars
  PROVE  [D!Next]_(D!vars)
  <1> DEFINE F == FrontOf(inbox')
  <1>t. /\ inbox \in [Crew -> Seq(Nat)] /\ \A w \in Crew : Len(inbox[w]) <= 1
        /\ inbox' \in [Crew -> Seq(Nat)] /\ \A w \in Crew : Len(inbox'[w]) <= 1
        /\ WorkerTypes /\ WorkerTypes' /\ WorkerControl /\ WorkerKeys /\ Placed(Front)
    BY DEF WorkerInv, WorkerTypes, WorkerFlight
  <1>m. Moves(Front, F)
    BY <1>t, WorkerMoves
  <1>1. InFlight = Before(Front, carry, Len(keyOf))
    <2>1. \A n : n # 0 =>
            \A w \in Crew : (\E i \in 1 .. Len(inbox[w]) : inbox[w][i] = n) <=> Front[w] = n
      BY <1>t, WorkerWaiting DEF Front
    <2>2. \A n \in 1 .. Len(keyOf) : n # 0
      OBVIOUS
    <2>3. Waiting = Before(Front, carry, Len(keyOf))
      BY <2>1, <2>2 DEF Waiting, Items, InInbox, Before
    <2> QED BY <2>3 DEF InFlight
  <1>2. InFlight' = Before(F, carry', Len(keyOf'))
    <2>1. \A n : n # 0 =>
            \A w \in Crew : (\E i \in 1 .. Len(inbox'[w]) : inbox'[w][i] = n) <=> F[w] = n
      BY <1>t, WorkerWaiting
    <2>2. \A n \in 1 .. Len(keyOf') : n # 0
      OBVIOUS
    <2> HIDE DEF F
    <2>3. Waiting' = Before(F, carry', Len(keyOf'))
      BY <2>1, <2>2 DEF Waiting, Items, InInbox, Before
    <2> QED BY <2>3 DEF InFlight
  <1>3. keyed' = keyed
    BY DEF Next, vars, WorkerStep, LoopStep, StreamStep, Recv, RecvEnds, DispatchReturns, Report,
       Panic, FarewellDrop, DropInbox, WorkerAborted, Top, TakeFree, FreeStops, Pull, PullFails,
       PullStops, Send, Close, Join, Abort, Cancel, Done
  <1>4. MostInFlight = Limit /\ MostInFlight' = MostInFlight
    BY <1>3 DEF MostInFlight, Limit
  <1> HIDE DEF F
  <1>5. ASSUME carry = 0, carry' # 0
        PROVE  Cardinality(InFlight \cup Held(hand)) < MostInFlight
    <2>1. PICK k \in Keys \cup {NoKey} : Pull(k)
      BY <1>5 DEF Next, vars, WorkerStep, LoopStep, StreamStep, Recv, RecvEnds, DispatchReturns,
         Report, Panic, FarewellDrop, DropInbox, WorkerAborted, Top, TakeFree, FreeStops,
         PullFails, PullStops, Send, Close, Join, Abort, Cancel, Done, poolVars, workerVars,
         loopVars, stopVars, history
    <2>2. Len(keyOf) \in Nat /\ Front \in [Crew -> Nat] /\ hand \in [Crew -> Nat]
          /\ Apart(Front, hand, 0, Len(keyOf))
      BY <1>5, <1>t DEF Placed
    <2>3. CASE keyed
      BY <1>1, <1>4, <1>5, <2>2, <2>3, TwoEach DEF Limit
    <2>4. CASE ~keyed
      <3>1. held \in Crew
        BY <1>t, <2>1, <2>4 DEF WorkerInv, WorkerOnce, WorkerTypes, Pull
      <3>2. Offered(held)
        BY DEF Offered
      <3>3. inbox[held] = << >> /\ at[held] # "dispatch"
        BY <2>4, <3>1, <3>2 DEF WorkerInv, WorkerOnce
      <3>4. Front[held] = 0 /\ hand[held] = 0
        BY <1>t, <3>1, <3>3, FrontType DEF Front, WorkerControl
      <3>5. \A w \in Crew : hand[w] # 0 => inbox[w] = << >>
        BY <1>t, <2>4 DEF WorkerInv, WorkerOnce, WorkerControl
      <3>6. \A w \in Crew : Front[w] = 0 \/ hand[w] = 0
        BY <1>t, <3>5, FrontType DEF Front
      <3>7. Cardinality(Before(Front, 0, Len(keyOf)) \cup Held(hand)) < N
        BY ONLY <2>2, <3>1, <3>4, <3>6, RoomToRead
      <3> QED BY <1>1, <1>4, <1>5, <2>4, <3>7 DEF Limit
    <2> QED BY <2>3, <2>4
  <1>6. ASSUME NEW w \in Crew, Takes(Front, F, w), keyOf[Front[w]] # NoKey,
               NEW m \in InFlight \cup Held(hand), m < Front[w], keyOf[m] = keyOf[Front[w]]
        PROVE  FALSE
    <2>1. /\ Len(keyOf) \in Nat /\ Front \in [Crew -> Nat] /\ hand \in [Crew -> Nat]
          /\ carry \in Nat /\ Apart(Front, hand, carry, Len(keyOf))
      BY <1>t DEF Placed
    <2>2. Front[w] # 0 /\ hand[w] = 0 /\ Front[w] \in Nat /\ Front[w] <= Len(keyOf)
      BY <1>6, <2>1 DEF Takes, Apart
    <2>3. KeyIndex[keyOf[Front[w]]] = w
      BY <1>6, <1>t, <2>2 DEF WorkerKeys, Belongs
    <2>4. m # 0 /\ (m = carry \/ \E v \in Crew : Front[v] = m \/ hand[v] = m)
      BY <1>1, <2>1, InFront, InHand
    <2>5. m # carry
      BY <1>6, <1>t, <2>1, <2>2, <2>4 DEF WorkerKeys
    <2>6. PICK v \in Crew : Front[v] = m \/ hand[v] = m
      BY <2>4, <2>5
    <2>7. v = w
      BY <1>6, <1>t, <2>3, <2>4, <2>6 DEF WorkerKeys, Belongs
    <2> QED BY <1>6, <2>2, <2>4, <2>6, <2>7
  <1> QED BY <1>t, <1>m, <1>1, <1>2, <1>4, <1>5, <1>6, MovesDispatch

(***************************************************************************)
(* The moves of the batch pool                                             *)
(***************************************************************************)

\* Where its batches are, and what only a pool that broke meets.
BatchFlight ==
  /\ carry # 0 => loop = "hand"
  /\ \A w \in Crew : w \in left \/ at[w] = "mark" => died \/ aborted
  /\ Placed(box)

LEMMA BatchMoves ==
  ASSUME BatchInv, BatchTypes', BatchFlight, [Batch!Next]_(Batch!vars)
  PROVE  Moves(box, box')
  <1> USE DEF Batch!freeVars, Batch!boxVars, Batch!workerVars, Batch!loopVars, Batch!stopVars,
     Batch!history
  <1>c. Batch!Crew = Crew
    BY DEF Batch!Crew, Crew
  <1>t. /\ box \in [Crew -> Nat] /\ box' \in [Crew -> Nat]
        /\ hand \in [Crew -> Nat] /\ hand' \in [Crew -> Nat] /\ carry \in Nat
    BY DEF BatchInv, BatchTypes
  <1>s. ASSUME UNCHANGED <<box, hand, carry, keyOf, finished, died, aborted>>
        PROVE  Moves(box, box')
    BY <1>s DEF Moves, Stays
  <1>k. box' = box => Kept(box, box')
    BY <1>t DEF Kept
  <1>h. hand' = hand => Kept(hand, hand')
    BY <1>t DEF Kept
  <1>1. ASSUME NEW w \in Crew, Batch!PopBox(w) PROVE Moves(box, box')
    <2>1. CASE box[w] # 0
      <3>1. hand[w] = 0
        BY <2>1 DEF BatchInv, SlotOnce, SlotOf
      <3>2. Takes(box, box', w)
        BY <1>1, <2>1, <3>1 DEF Batch!PopBox, Takes, Puts
      <3> QED BY <3>2 DEF Moves
    <2>2. CASE box[w] = 0
      BY <1>1, <1>s, <2>2 DEF Batch!PopBox
    <2> QED BY <2>1, <2>2
  <1>2. ASSUME NEW w \in Crew,
               Batch!ReadClosed(w) \/ Batch!Notified(w) \/ Batch!Report(w) \/ Batch!Tell(w)
               \/ Batch!Mark(w)
        PROVE  Moves(box, box')
    BY <1>2, <1>s DEF Batch!ReadClosed, Batch!Notified, Batch!Report, Batch!Tell, Batch!Mark
  <1>3. ASSUME NEW w \in Crew, Batch!RunReturns(w) PROVE Moves(box, box')
    <2>1. Settles(box, box', w)
      BY <1>3 DEF Batch!RunReturns, Settles, Puts, BatchInv, BatchControl
    <2> QED BY <2>1 DEF Moves
  <1>4. ASSUME NEW w \in Crew, Batch!Panic(w) PROVE Moves(box, box')
    <2>1. Kept(hand, hand')
      BY <1>4, <1>t DEF Kept, Batch!Panic
    <2> QED BY <1>4, <1>k, <2>1 DEF Batch!Panic, Moves, Loses
  <1>5. ASSUME NEW w \in Crew, Batch!WorkerAborted(w) PROVE Moves(box, box')
    <2>1. Kept(hand, hand') /\ Kept(box, box')
      BY <1>5, <1>t DEF Kept, Batch!WorkerAborted
    <2> QED BY <1>5, <2>1 DEF Batch!WorkerAborted, Moves, Loses
  <1>6. CASE \/ Batch!Top \/ Batch!Acquire \/ Batch!NobodyFree \/ Batch!WaitEnds
             \/ Batch!HandTells \/ Batch!CloseFlag \/ Batch!CloseTells \/ Batch!Join
    BY <1>6, <1>s DEF Batch!Top, Batch!Acquire, Batch!NobodyFree, Batch!WaitEnds,
       Batch!HandTells, Batch!CloseFlag, Batch!CloseTells, Batch!Join
  <1>7. CASE \/ Batch!FillFails \/ Batch!FillStops("shutdown") \/ Batch!FillStops("ended")
             \/ Batch!Cancel \/ Batch!Done \/ UNCHANGED Batch!vars
    BY <1>7, <1>s DEF Batch!FillFails, Batch!FillStops, Batch!Cancel, Batch!Done, Batch!vars
  <1>8. CASE Batch!Fill
    <2>1. Reads(box, box', NoKey)
      BY <1>8 DEF Batch!Fill, Reads, BatchFlight
    <2> QED BY <2>1 DEF Moves
  <1>9. CASE Batch!Hand
    <2>0. held \in Crew /\ carry # 0 /\ box[held] = 0
      <3>1. loop = "hand" /\ held \in Crew
        BY <1>9 DEF Batch!Hand, BatchInv, BatchControl, BatchTypes
      <3>2. Filling(held)
        BY <3>1 DEF Filling
      <3> QED BY <3>1, <3>2 DEF BatchInv, BatchControl, SlotOnce, SlotOf
    <2>1. CASE held \in left
      <3>1. died \/ aborted
        BY <2>0, <2>1 DEF BatchFlight
      <3>2. Loses(box, box')
        BY <1>9, <1>k, <1>h, <2>1, <3>1 DEF Batch!Hand, Loses
      <3> QED BY <3>2 DEF Moves
    <2>2. CASE held \notin left
      <3>1. Gives(box, box', held)
        BY <1>9, <2>0, <2>2 DEF Batch!Hand, Gives, Puts
      <3> QED BY <2>0, <3>1 DEF Moves
    <2> QED BY <2>1, <2>2
  <1>10. CASE Batch!Abort
    BY <1>10, <1>k, <1>h DEF Batch!Abort, Moves, Loses
  <1> QED BY <1>c, <1>1, <1>2, <1>3, <1>4, <1>5, <1>6, <1>7, <1>8, <1>9, <1>10
          DEF Batch!Next, Batch!WorkerStep, Batch!LoopStep, Batch!StreamStep

LEMMA BatchFlightNext ==
  ASSUME BatchInv, BatchInv', BatchFlight, [Batch!Next]_(Batch!vars)
  PROVE  BatchFlight'
  <1> USE DEF Batch!freeVars, Batch!boxVars, Batch!workerVars, Batch!loopVars, Batch!stopVars,
     Batch!history, Batch!Goto
  <1>c. Batch!Crew = Crew
    BY DEF Batch!Crew, Crew
  <1>1. Placed(box)'
    <2>1. PlacedThen(box')
      BY BatchMoves, MovesApart DEF BatchInv, BatchFlight
    <2> QED BY <2>1 DEF Placed, PlacedThen
  <1> DEFINE G(x, l, a0, b0) == \A w \in Crew : w \in l \/ x[w] = "mark" => a0 \/ b0
             Q == (carry' # 0 => loop' = "hand") /\ G(at', left', died', aborted')
  <1>t. at \in [Crew -> BatchPlaces]
    BY DEF BatchInv, BatchTypes
  <1>2. ASSUME NEW w \in Crew,
               \/ Batch!ReadClosed(w) \/ Batch!PopBox(w) \/ Batch!Notified(w)
               \/ Batch!RunReturns(w) \/ Batch!Report(w) \/ Batch!Tell(w)
        PROVE  Q
    BY <1>2, <1>t DEF Batch!ReadClosed, Batch!PopBox, Batch!Notified, Batch!RunReturns,
       Batch!Report, Batch!Tell, BatchFlight
  <1>3. ASSUME NEW w \in Crew, Batch!Panic(w) \/ Batch!Mark(w) \/ Batch!WorkerAborted(w) PROVE Q
    BY <1>3, <1>t DEF Batch!Panic, Batch!Mark, Batch!WorkerAborted, BatchFlight
  <1>4. CASE \/ Batch!Top \/ Batch!Acquire \/ Batch!NobodyFree \/ Batch!WaitEnds
             \/ Batch!HandTells \/ Batch!CloseFlag \/ Batch!CloseTells \/ Batch!Join
    <2>1. Q
      BY <1>4, <1>t DEF Batch!Top, Batch!Acquire, Batch!NobodyFree, Batch!WaitEnds,
         Batch!HandTells, Batch!CloseFlag, Batch!CloseTells, Batch!Join, BatchFlight
    <2> QED BY <1>1, <2>1 DEF BatchFlight
  <1>5. CASE \/ Batch!FillFails \/ Batch!FillStops("shutdown") \/ Batch!FillStops("ended")
             \/ Batch!Cancel \/ Batch!Done \/ UNCHANGED Batch!vars \/ Batch!Fill \/ Batch!Hand
             \/ Batch!Abort
    <2>1. Q
      BY <1>5, <1>t DEF Batch!FillFails, Batch!FillStops, Batch!Cancel, Batch!Done, Batch!vars,
         Batch!Fill, Batch!Hand, Batch!Abort, BatchFlight
    <2> QED BY <1>1, <2>1 DEF BatchFlight
  <1> QED BY <1>c, <1>1, <1>2, <1>3, <1>4, <1>5
          DEF Batch!Next, Batch!WorkerStep, Batch!LoopStep, Batch!StreamStep, BatchFlight

LEMMA BatchSimulates ==
  ASSUME kind = "batches", kind' = kind, BatchInv, BatchInv', BatchFlight, BatchFlight',
         [Batch!Next]_(Batch!vars)
  PROVE  [D!Next]_(D!vars)
  <1>t. Placed(box) /\ BatchTypes /\ BatchTypes'
    BY DEF BatchInv, BatchFlight
  <1>m. Moves(box, box')
    BY <1>t, BatchMoves
  <1>c. Batch!Crew = Crew
    BY DEF Batch!Crew, Crew
  <1>1. InFlight = Before(box, carry, Len(keyOf))
    <2>1. Batch!Waiting = Before(box, carry, Len(keyOf))
      BY <1>c DEF Batch!Waiting, Batch!Items, Before
    <2> QED BY <2>1 DEF InFlight
  <1>2. InFlight' = Before(box', carry', Len(keyOf'))
    <2>1. Batch!Waiting' = Before(box', carry', Len(keyOf'))
      BY <1>c DEF Batch!Waiting, Batch!Items, Before
    <2> QED BY <2>1 DEF InFlight
  <1>4. MostInFlight = N /\ MostInFlight' = MostInFlight
    BY DEF MostInFlight
  <1>5. ASSUME carry = 0, carry' # 0
        PROVE  Cardinality(InFlight \cup Held(hand)) < MostInFlight
    <2>1. Batch!Fill
      BY <1>5 DEF Batch!Next, Batch!vars, Batch!WorkerStep, Batch!LoopStep, Batch!StreamStep,
         Batch!ReadClosed, Batch!PopBox, Batch!Notified, Batch!RunReturns, Batch!Report,
         Batch!Tell, Batch!Panic, Batch!Mark, Batch!WorkerAborted, Batch!Top, Batch!Acquire,
         Batch!NobodyFree, Batch!WaitEnds, Batch!FillFails, Batch!FillStops, Batch!Hand,
         Batch!HandTells, Batch!CloseFlag, Batch!CloseTells, Batch!Join, Batch!Abort,
         Batch!Cancel, Batch!Done, Batch!freeVars, Batch!boxVars, Batch!workerVars,
         Batch!loopVars, Batch!stopVars, Batch!history
    <2>2. Len(keyOf) \in Nat /\ box \in [Crew -> Nat] /\ hand \in [Crew -> Nat]
          /\ Apart(box, hand, 0, Len(keyOf))
      BY <1>5, <1>t DEF Placed
    <2>3. loop = "poll" /\ held \in Crew
      BY <1>t, <2>1 DEF Batch!Fill, BatchInv, BatchControl, BatchTypes
    <2>4. Filling(held)
      BY <2>3 DEF Filling
    <2>5. box[held] = 0 /\ hand[held] = 0
      BY <2>3, <2>4 DEF BatchInv, SlotOnce, SlotOf
    <2>6. \A w \in Crew : box[w] = 0 \/ hand[w] = 0
      BY DEF BatchInv, SlotOnce, SlotOf
    <2>7. Cardinality(Before(box, 0, Len(keyOf)) \cup Held(hand)) < N
      BY ONLY <2>2, <2>3, <2>5, <2>6, RoomToRead
    <2> QED BY <1>1, <1>4, <1>5, <2>7
  <1>6. ASSUME NEW w \in Crew, Takes(box, box', w) PROVE keyOf[box[w]] = NoKey
    <2>1. /\ keyOf \in Seq({NoKey}) /\ Len(keyOf) \in Nat /\ box[w] \in Nat
          /\ box[w] # 0 /\ box[w] <= Len(keyOf)
      BY <1>6, <1>t DEF BatchTypes, Placed, Apart, Takes
    <2>2. box[w] \in 1 .. Len(keyOf)
      BY <2>1
    <2>3. \A n \in 1 .. Len(keyOf) : keyOf[n] \in {NoKey}
      BY <2>1
    <2> QED BY <2>2, <2>3
  <1> QED BY <1>t, <1>m, <1>1, <1>2, <1>4, <1>5, <1>6, MovesDispatch

(***************************************************************************)
(* Both pools implement the dispatch                                       *)
(***************************************************************************)
FlightInv ==
  /\ kind = "deliveries" => WorkerFlight
  /\ kind = "batches" => BatchFlight

LEMMA NothingApart ==
  ASSUME NEW q, q = [w \in Crew |-> 0]
  PROVE  Apart(q, q, 0, 0) /\ Before(q, 0, 0) = {} /\ Held(q) = {} /\ q \in [Crew -> Nat]
  <1>1. q \in [Crew -> Nat] /\ \A w \in Crew : q[w] = 0
    OBVIOUS
  <1>2. Apart(q, q, 0, 0)
    BY <1>1 DEF Apart
  <1>3. 1 .. 0 = {}
    OBVIOUS
  <1> QED BY <1>1, <1>2, <1>3, InHand DEF Before

LEMMA FlightStarts == InitPools => FlightInv
  <1>1. << >> \in Seq(Keys \cup {NoKey}) /\ << >> \in Seq(Nat) /\ Len(<< >>) = 0
    OBVIOUS
  <1>2. ASSUME kind = "deliveries", Init PROVE WorkerFlight
    <2>1. \A w \in Crew : inbox[w] = << >>
      BY <1>2 DEF Init
    <2>2. Front = [w \in Crew |-> 0]
      BY <2>1 DEF Front, FrontOf
    <2>3. hand = Front /\ Apart(Front, Front, 0, 0) /\ Front \in [Crew -> Nat]
      BY <1>2, <2>2, NothingApart DEF Init
    <2>4. Placed(Front)
      BY <1>1, <1>2, <2>3 DEF Placed, Init
    <2>5. \A w \in Crew : hand[w] = 0 /\ Front[w] = 0 /\ at[w] = "recv"
      BY <1>2, <2>2 DEF Init
    <2>6. WorkerControl
      BY <1>2, <2>1, <2>5 DEF WorkerControl, Init
    <2>7. 1 .. 0 = {} /\ Len(keyOf) = 0 /\ carry = 0
      BY <1>1, <1>2 DEF Init
    <2>8. WorkerKeys
      BY <2>5, <2>7 DEF WorkerKeys, Belongs
    <2> QED BY <2>4, <2>6, <2>8 DEF WorkerFlight
  <1>3. ASSUME kind = "batches", Batch!Init PROVE BatchFlight
    <2>c. Batch!Crew = Crew
      BY DEF Batch!Crew, Crew
    <2>1. box = [w \in Crew |-> 0] /\ hand = box
      BY <1>3, <2>c DEF Batch!Init
    <2>2. Apart(box, box, 0, 0) /\ box \in [Crew -> Nat]
      BY <2>1, NothingApart
    <2>3. Placed(box)
      BY <1>1, <1>3, <2>1, <2>2 DEF Placed, Batch!Init
    <2>4. carry = 0 /\ left = {} /\ \A w \in Crew : at[w] = "flag"
      BY <1>3, <2>c DEF Batch!Init
    <2> QED BY <2>3, <2>4 DEF BatchFlight
  <1> QED BY <1>2, <1>3 DEF InitPools, FlightInv

\* A step of the worker pool, or of the batch pool.
LEMMA OneKind ==
  ASSUME [NextPools]_poolsVars
  PROVE  /\ kind' = kind
         /\ kind = "deliveries" => [Next]_vars
         /\ kind = "batches" => [Batch!Next]_(Batch!vars)
  <1>1. CASE NextPools
    BY <1>1 DEF NextPools, OfDeliveries, OfBatches, OfRings
  <1>2. CASE UNCHANGED poolsVars
    <2>1. UNCHANGED vars /\ UNCHANGED Batch!vars /\ kind' = kind
      BY <1>2 DEF poolsVars, vars, batchOnly, Batch!vars
    <2> QED BY <2>1
  <1> QED BY <1>1, <1>2

LEMMA FlightInvariant == SafePools => []FlightInv
  <1>1. PoolsInv /\ PoolsInv' /\ FlightInv /\ [NextPools]_poolsVars => FlightInv'
    <2> SUFFICES ASSUME PoolsInv, PoolsInv', FlightInv, [NextPools]_poolsVars PROVE FlightInv'
      OBVIOUS
    <2>0. kind' = kind
      BY OneKind
    <2>1. CASE kind = "deliveries"
      <3>1. WorkerFlight'
        BY <2>0, <2>1, OneKind, WorkerFlightNext DEF PoolsInv, FlightInv
      <3> QED BY <2>0, <2>1, <3>1 DEF FlightInv
    <2>2. CASE kind = "batches"
      <3>1. BatchFlight'
        BY <2>0, <2>2, OneKind, BatchFlightNext DEF PoolsInv, FlightInv
      <3> QED BY <2>0, <2>2, <3>1 DEF FlightInv
    <2> QED BY <2>0, <2>1, <2>2 DEF FlightInv
  <1> QED BY <1>1, FlightStarts, PoolsInvariant, PTL DEF SafePools

\* The worker pool, by key or not, and the batch pool implement the dispatch for any number of
\* workers, keys and messages: no more in flight than the pool has workers (by key: one more queued
\* per worker and one in the loop's hand), the deliveries of a key one at a time and in order, and
\* none lost unless a worker panicked or the shutdown timeout aborted the loop
\* (spawn_dispatch_pool and work of pool.rs, run and work of batch_pool.rs).
THEOREM PoolsDispatch == SafePools /\ kind \in {"deliveries", "batches"} => ImplementsDispatch
  <1> DEFINE K == kind \in {"deliveries", "batches"}
  <1>1. InitPools /\ K => D!Init
    <2> SUFFICES ASSUME InitPools, K PROVE D!Init
      OBVIOUS
    <2>0. keyOf = << >> /\ finished = << >> /\ died = FALSE /\ aborted = FALSE
      BY DEF InitPools, Init, Batch!Init
    <2>1. keyOf = << >> /\ Len(keyOf) = 0 /\ 1 .. 0 = {}
      BY <2>0
    <2>2. InFlight = {}
      BY <2>1 DEF InFlight, Waiting, Items, Batch!Waiting, Batch!Items
    <2>3. hand = [w \in Crew |-> 0]
      BY DEF InitPools, Init, Batch!Init, Batch!Crew, Crew
    <2>4. Range(hand) \ {0} = {}
      BY <2>3 DEF Range
    <2>5. Range(finished) = {} /\ ~died /\ ~aborted
      BY <2>0 DEF Range
    <2>6. MostInFlight \in Nat
      <3>1. N \in Nat /\ 2 * N + 1 \in Nat
        BY PoolAssumption
      <3>2. Limit \in Nat
        BY <3>1 DEF Limit
      <3> QED BY <3>1, <3>2 DEF MostInFlight
    <2> QED BY <2>1, <2>2, <2>4, <2>5, <2>6 DEF D!Init
  <1>2. /\ K /\ PoolsInv /\ PoolsInv' /\ FlightInv /\ FlightInv' /\ [NextPools]_poolsVars
        => [D!Next]_(D!vars) /\ K'
    <2> SUFFICES ASSUME K, PoolsInv, PoolsInv', FlightInv, FlightInv', [NextPools]_poolsVars
                 PROVE  [D!Next]_(D!vars) /\ K'
      OBVIOUS
    <2>0. kind' = kind
      BY OneKind
    <2>1. CASE kind = "deliveries"
      BY <2>0, <2>1, OneKind, WorkerSimulates DEF PoolsInv, FlightInv
    <2>2. CASE kind = "batches"
      BY <2>0, <2>2, OneKind, BatchSimulates DEF PoolsInv, FlightInv
    <2> QED BY <2>1, <2>2
  <1> HIDE DEF K
  <1>3. SafePools /\ K => ImplementsDispatch
    BY <1>1, <1>2, PoolsInvariant, FlightInvariant, PTL
       DEF SafePools, ImplementsDispatch, D!Spec
  <1> QED BY <1>3 DEF K
=============================================================================
