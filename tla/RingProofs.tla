----------------------------- MODULE RingProofs -----------------------------
(***************************************************************************)
(* Proofs about RingHandoff, for any number of threads and any ring size:  *)
(* neither side of the hand-off sleeps through the wake it needs, and the  *)
(* hand-off implements Dispatch.                                           *)
(*                                                                         *)
(* Both handshakes have the same shape: register the waker, raise the      *)
(* flag, look again, wait.  The inductive invariants say what the look     *)
(* behind the flag has established at each point of that sequence.         *)
(*                                                                         *)
(* The refinement rests on a third invariant, HandoffInv: a delivery is in *)
(* one hand or ring at a time, and each ring holds its own keys in reading *)
(* order.  Simulates shows the abstract step that each concrete one makes. *)
(***************************************************************************)
EXTENDS RingHandoff, FiniteSetTheorems, TLAPS

At == {"unopened", "look", "empty", "popped", "counted", "seen", "wakeloop", "handle", "last",
       "leaving", "left", "ended", "spin", "register", "flag", "recheck", "pending"}

Loop == {"open", "top", "pick", "register", "flag", "repick", "wait", "read", "hand", "push",
         "pushed", "wake", "letgo", "close", "done"}

TypeOK ==
  /\ conf \in Confs
  /\ ring \in [Threads -> Seq(Nat)]
  /\ abandoned \in BOOLEAN
  /\ gone \in SUBSET Threads
  /\ parked \in [Threads -> BOOLEAN]
  /\ armed \in [Threads -> BOOLEAN]
  /\ woken \in [Threads -> BOOLEAN]
  /\ at \in [Threads -> At]
  /\ item \in [Threads -> Nat]
  /\ held \in [Threads -> Nat]
  /\ saw \in [Threads -> Nat]
  /\ loop \in Loop
  /\ which \in Threads \cup {ANY}
  /\ offset \in Threads
  /\ turn \in Threads
  /\ index \in Threads
  /\ carry \in Nat
  /\ loop_waiting \in Nat
  /\ loop_armed \in BOOLEAN
  /\ loop_woken \in BOOLEAN
  /\ cancelled \in BOOLEAN
  /\ keyOf \in Seq(Keys \cup {NoKey})

\* The park of one thread: from the registration on the waker is there until a wake takes it;
\* from the flag on the flag is up until the loop has claimed it; and once the look behind the
\* flag found nothing, whatever arrives has a wake on its way.
ParkInv(t) ==
  /\ at[t] \in {"flag", "recheck", "pending"} => armed[t] \/ woken[t]
  /\ at[t] \in {"recheck", "pending"} /\ ~woken[t] =>
       parked[t] \/ (loop = "wake" /\ index = t)
  /\ at[t] = "pending" /\ ~woken[t] =>
       /\ ring[t] # << >> => loop \in {"pushed", "wake"} /\ index = t
       /\ abandoned => loop = "close"

ThreadInv == \A t \in Threads : ParkInv(t)

\* The word the loop waits behind.
Word == IF which = ANY THEN ANY ELSE which + 1

\* The rings the second look of poll_room has found full so far.
Looked ==
  IF loop = "wait" THEN IF which = ANY THEN Threads ELSE {which}
  ELSE IF which = ANY THEN {t \in Threads : \E o \in 0 .. offset - 1 : t = (turn + o) % N} ELSE {}

\* A ring the loop may wait for: too full, or its thread has taken from it, or left it, and has
\* yet to read the word or to claim it.
Answered(t) ==
  \/ at[t] \in {"popped", "counted", "leaving"}
  \/ at[t] = "seen" /\ saw[t] = Word
  \/ t \notin gone /\ Len(ring[t]) > (IF which = ANY THEN Ring \div 2 ELSE Ring - 1)

\* The count a thread took is not above what its ring holds: only the loop changes it, upwards.
\* A thread whose consumer is dropped is on its way out.
Counted(t) ==
  /\ at[t] = "counted" => held[t] <= Len(ring[t])
  /\ t \in gone => at[t] \in {"leaving", "left", "ended"}

CountInv == \A t \in Threads : Counted(t)

\* A round of looks starts at the ring in turn, and the waker registered after the first round is
\* there until a wake takes it.
ArmInv ==
  /\ loop \in {"register", "flag", "wait"} => offset = 0
  /\ loop \in {"flag", "repick", "wait"} => loop_armed \/ loop_woken

\* From the flag on, unless it was woken or is about to be, the loop's word stands, and every ring
\* it has looked at behind it is one it may wait for.
WaitInv ==
  loop \in {"repick", "wait"} /\ ~loop_woken /\ ~WakeInFlight =>
    loop_waiting = Word /\ \A t \in Looked : Answered(t)

LoopInv == CountInv /\ ArmInv /\ WaitInv

-----------------------------------------------------------------------------
(* Types. *)

LEMMA ModRange ==
  ASSUME NEW a \in Nat
  PROVE  a % N \in Threads
  BY RingAssumption DEF Threads

LEMMA ThreadNumbers ==
  /\ 0 \in Threads
  /\ \A t \in Threads : t \in Nat /\ t < N /\ t + 1 \in Nat
  /\ \A t \in Threads : t + 1 < N => t + 1 \in Threads
  BY RingAssumption DEF Threads

LEMMA InitTypes == Init => TypeOK
  <1> SUFFICES ASSUME Init PROVE TypeOK
    OBVIOUS
  <1>1. 0 \in Threads
    BY ThreadNumbers
  <1> QED
    BY <1>1 DEF Init, TypeOK, At, Loop

LEMMA SeqFacts ==
  ASSUME NEW s \in Seq(Nat)
  PROVE  /\ Len(s) \in Nat
         /\ s = << >> <=> Len(s) = 0
         /\ s # << >> => Head(s) \in Nat /\ Tail(s) \in Seq(Nat) /\ Len(Tail(s)) = Len(s) - 1
  OBVIOUS

LEMMA PushTypes ==
  ASSUME TypeOK, PushTo
  PROVE  /\ ring' \in [Threads -> Seq(Nat)]
         /\ loop' \in Loop /\ which' = which /\ offset' = offset /\ turn' = turn
         /\ index' = index /\ carry' \in Nat
  <1>1. Append(ring[index], carry) \in Seq(Nat)
    BY DEF TypeOK
  <1> QED
    BY <1>1 DEF TypeOK, PushTo, Loop

LEMMA StepTypes ==
  ASSUME TypeOK, [Next]_vars
  PROVE  TypeOK'
  <1> USE RingAssumption DEF TypeOK, ringVars, threadVars, drainVars, loopVars, roomVars, history
  <1>1. ASSUME NEW t \in Threads, Pop(t)
        PROVE  TypeOK'
    <2>1. ring[t] \in Seq(Nat)
      OBVIOUS
    <2>2. CASE ring[t] = << >>
      BY <1>1, <2>2 DEF Pop, Goto, At
    <2>3. CASE ring[t] # << >>
      <3>1. Head(ring[t]) \in Nat /\ Tail(ring[t]) \in Seq(Nat)
        BY <2>1, <2>3, SeqFacts
      <3>2. /\ at' = [at EXCEPT ![t] = "popped"]
            /\ item' = [item EXCEPT ![t] = Head(ring[t])]
            /\ ring' = [ring EXCEPT ![t] = Tail(ring[t])]
        BY <1>1, <2>3 DEF Pop, Goto
      <3>3. at' \in [Threads -> At]
        BY <3>2 DEF At
      <3>4. item' \in [Threads -> Nat]
        BY <3>1, <3>2
      <3>5. ring' \in [Threads -> Seq(Nat)]
        BY <3>1, <3>2
      <3>6. UNCHANGED <<conf, abandoned, gone, threadVars, held, saw, loopVars, roomVars, cancelled,
                        history>>
        BY <1>1 DEF Pop
      <3> QED
        BY <3>3, <3>4, <3>5, <3>6
    <2> QED
      BY <2>2, <2>3
  <1>2. ASSUME NEW t \in Threads, Count(t)
        PROVE  TypeOK'
    <2>1. Len(ring[t]) \in Nat
      OBVIOUS
    <2> QED
      BY <1>2, <2>1 DEF Count, Goto, At
  <1>3. ASSUME NEW t \in Threads, Freed(t)
        PROVE  TypeOK'
    BY <1>3 DEF Freed, WakesLoop, Goto, At
  <1>4. ASSUME NEW t \in Threads, Claim(t)
        PROVE  TypeOK'
    <2>1. CASE loop_waiting = saw[t]
      <3>1. at' \in [Threads -> At]
        BY <1>4, <2>1 DEF Claim, Goto, At
      <3>2. saw' \in [Threads -> Nat] /\ loop_waiting' \in Nat
        BY <1>4, <2>1 DEF Claim
      <3> QED
        BY <1>4, <3>1, <3>2 DEF Claim
    <2>2. CASE loop_waiting # saw[t]
      BY <1>4, <2>2 DEF Claim, Goto, At
    <2> QED
      BY <2>1, <2>2
  <1>5. ASSUME NEW t \in Threads, FreedWakes(t)
        PROVE  TypeOK'
    BY <1>5 DEF FreedWakes, WakeLoop, Goto, At
  <1>6. ASSUME NEW t \in Threads, Handle(t)
        PROVE  TypeOK'
    BY <1>6 DEF Handle, Goto, At
  <1>7. ASSUME NEW t \in Threads, CheckAbandoned(t)
        PROVE  TypeOK'
    BY <1>7 DEF CheckAbandoned, Goto, At
  <1>8. ASSUME NEW t \in Threads, LastLook(t)
        PROVE  TypeOK'
    BY ZenonT(30), <1>8 DEF LastLook, Goto, At
  <1>9. ASSUME NEW t \in Threads, Leave(t)
        PROVE  TypeOK'
    BY <1>9 DEF Leave, Goto, At
  <1>10. ASSUME NEW t \in Threads, LeaveWakes(t)
        PROVE  TypeOK'
    BY <1>10 DEF LeaveWakes, WakeLoop, Goto, At
  <1>11. ASSUME NEW t \in Threads, Spin(t)
        PROVE  TypeOK'
    BY <1>11 DEF Spin, Goto, At
  <1>12. ASSUME NEW t \in Threads, Register(t)
        PROVE  TypeOK'
    BY <1>12 DEF Register, Goto, At
  <1>13. ASSUME NEW t \in Threads, Flag(t)
        PROVE  TypeOK'
    BY <1>13 DEF Flag, Goto, At
  <1>14. ASSUME NEW t \in Threads, Recheck(t)
        PROVE  TypeOK'
    BY <1>14 DEF Recheck, Goto, At
  <1>15. ASSUME NEW t \in Threads, Resume(t)
        PROVE  TypeOK'
    BY <1>15 DEF Resume, Goto, At
  <1>16. ASSUME NEW t \in Threads, Die(t)
        PROVE  TypeOK'
    BY <1>16 DEF Die, Goto, At
  <1>17. ASSUME NEW t \in Threads, OpenFails(t)
        PROVE  TypeOK'
    BY <1>17 DEF OpenFails, Goto, At, Loop
  <1>18. ASSUME NEW t \in Threads, Open(t)
        PROVE  TypeOK'
    BY <1>18 DEF Open, Goto, At, Loop
  <1>19. ASSUME NEW k \in Keys \cup {NoKey}, Read(k)
        PROVE  TypeOK'
    <2>1. index' \in Threads
      BY <1>19 DEF Read
    <2>2. index' + 1 \in Nat
      BY <2>1, ThreadNumbers
    <2>3. turn' \in Threads
      BY <1>19, <2>2, ModRange DEF Read
    <2>4. carry' \in Nat /\ keyOf' \in Seq(Keys \cup {NoKey})
      BY <1>19 DEF Read
    <2> QED
      BY <1>19, <2>1, <2>3, <2>4 DEF Read, Loop
  <1>20. ASSUME NEW why \in {"shutdown", "ended"}, ReadStops(why)
        PROVE  TypeOK'
    BY <1>20 DEF ReadStops, Loop
  <1>21. CASE Top
    <2>1. 0 \in Threads
      BY ThreadNumbers
    <2>2. loop' \in Loop /\ which' \in Threads \cup {ANY} /\ offset' \in Threads
      BY <1>21, <2>1 DEF Top, PollRoom, Loop
    <2> QED
      BY <1>21, <2>2 DEF Top
  <1>22. CASE RoomFound
    <2>1. turn + offset \in Nat
      BY DEF Threads
    <2>2. Candidate \in Threads
      BY <2>1, ModRange DEF Candidate
    <2>3. loop' \in Loop /\ loop_waiting' \in Nat
      BY <1>22 DEF RoomFound, Loop
    <2> QED
      BY <1>22, <2>2, <2>3 DEF RoomFound
  <1>23. CASE RoomFull
    <2>1. loop' \in Loop
      BY <1>23 DEF RoomFull, Loop
    <2>2. offset' \in Threads
      <3>1. CASE offset + 1 < Looks
        <4>1. offset + 1 < N
          <5>1. offset \in Nat /\ Looks \in {1, N}
            BY ThreadNumbers DEF Looks
          <5> QED
            BY <3>1, <5>1
        <4> QED
          BY <1>23, <3>1, <4>1, ThreadNumbers DEF RoomFull
      <3>2. CASE ~(offset + 1 < Looks)
        BY <1>23, <3>2, ThreadNumbers DEF RoomFull
      <3> QED
        BY <3>1, <3>2
    <2> QED
      BY <1>23, <2>1, <2>2 DEF RoomFull
  <1>24. CASE RegisterLoop
    BY <1>24 DEF RegisterLoop, Loop
  <1>25. CASE FlagLoop
    <2>1. loop_waiting' \in Nat
      BY <1>25 DEF FlagLoop, ANY, Threads
    <2> QED
      BY <1>25, <2>1 DEF FlagLoop, Loop
  <1>26. CASE ResumeLoop
    BY <1>26 DEF ResumeLoop, Loop
  <1>27. CASE Hand
    <2>1. CASE PushTo
      BY <1>27, <2>1, PushTypes DEF Hand
    <2>2. CASE ~PushTo
      BY <1>27, <2>2 DEF Hand, Loop
    <2> QED
      BY <2>1, <2>2
  <1>28. CASE Push
    <2>1. CASE PushTo
      BY <1>28, <2>1, PushTypes DEF Push
    <2>2. CASE ~PushTo
      <3>1. 0 \in Threads
        BY ThreadNumbers
      <3> QED
        BY <1>28, <2>2, <3>1 DEF Push, PollRoom, Loop
    <2> QED
      BY <2>1, <2>2
  <1>29. CASE Pushed
    BY <1>29 DEF Pushed, Loop
  <1>30. CASE PushedWakes
    BY <1>30 DEF PushedWakes, Loop
  <1>31. CASE LetGo
    BY <1>31 DEF LetGo, Loop
  <1>32. CASE Close
    BY <1>32 DEF Close, Loop
  <1>33. CASE ReadFails
    BY <1>33 DEF ReadFails, Loop
  <1>34. CASE Cancel
    BY <1>34 DEF Cancel, Loop
  <1>35. CASE Done
    BY <1>35 DEF Done, vars, Loop
  <1>36. CASE UNCHANGED vars
    BY <1>36 DEF vars
  <1> QED
    BY <1>1, <1>2, <1>3, <1>4, <1>5, <1>6, <1>7, <1>8, <1>9, <1>10, <1>11, <1>12, <1>13, <1>14,
       <1>15, <1>16, <1>17, <1>18, <1>19, <1>20, <1>21, <1>22, <1>23, <1>24, <1>25, <1>26,
       <1>27, <1>28, <1>29, <1>30, <1>31, <1>32, <1>33, <1>34, <1>35, <1>36 DEF Next, DrainStep,
       FeedStep, StreamStep

LEMMA Types == Safe => []TypeOK
  <1>1. TypeOK /\ [Next]_vars => TypeOK'
    BY StepTypes
  <1> QED
    BY InitTypes, <1>1, PTL DEF Safe

-----------------------------------------------------------------------------
(* The thread's side. *)

LEMMA StepThread ==
  ASSUME TypeOK, ThreadInv, [Next]_vars, NEW u \in Threads
  PROVE  ParkInv(u)'
  <1> USE DEF ringVars, threadVars, drainVars, loopVars, roomVars, history, ParkInv
  <1>t. /\ ring \in [Threads -> Seq(Nat)] /\ parked \in [Threads -> BOOLEAN]
        /\ armed \in [Threads -> BOOLEAN] /\ woken \in [Threads -> BOOLEAN]
        /\ at \in [Threads -> At] /\ index \in Threads /\ abandoned \in BOOLEAN
    BY DEF TypeOK
  <1>i. ParkInv(u)
    BY DEF ThreadInv
  <1>1. ASSUME NEW t \in Threads, Pop(t)
        PROVE  ParkInv(u)'
    BY <1>t, <1>i, <1>1 DEF Pop, Goto
  <1>2. ASSUME NEW t \in Threads, Register(t)
        PROVE  ParkInv(u)'
    BY <1>t, <1>i, <1>2 DEF Register, Goto
  <1>3. ASSUME NEW t \in Threads, Flag(t)
        PROVE  ParkInv(u)'
    BY <1>t, <1>i, <1>3 DEF Flag, Goto
  <1>4. ASSUME NEW t \in Threads, Recheck(t)
        PROVE  ParkInv(u)'
    BY <1>t, <1>i, <1>4 DEF Recheck, Arrived, Goto
  <1>5. ASSUME NEW t \in Threads, Resume(t)
        PROVE  ParkInv(u)'
    BY <1>t, <1>i, <1>5 DEF Resume, Goto
  <1>6. ASSUME NEW t \in Threads, OpenFails(t)
        PROVE  ParkInv(u)'
    BY <1>t, <1>i, <1>6 DEF OpenFails
  <1>7. CASE Hand
    BY <1>t, <1>i, <1>7 DEF Hand, PushTo
  <1>8. CASE Push
    BY <1>t, <1>i, <1>8 DEF Push, PollRoom, PushTo
  <1>9. CASE Pushed
    BY <1>t, <1>i, <1>9 DEF Pushed
  <1>10. CASE PushedWakes
    BY <1>t, <1>i, <1>10 DEF PushedWakes
  <1>11. CASE LetGo
    BY <1>t, <1>i, <1>11 DEF LetGo
  <1>12. CASE Close
    BY <1>t, <1>i, <1>12 DEF Close
  <1>13. ASSUME NEW t \in Threads,
               Count(t) \/ Freed(t) \/ Claim(t) \/ FreedWakes(t) \/ Handle(t) \/
               CheckAbandoned(t) \/ LastLook(t) \/ Leave(t) \/ LeaveWakes(t) \/
               Spin(t) \/ Die(t) \/ Open(t)
        PROVE  ParkInv(u)'
    BY <1>t, <1>i, <1>13 DEF Count, Freed, Claim, FreedWakes, Handle, CheckAbandoned, LastLook,
       Leave, LeaveWakes, Spin, Die, Open, WakeLoop, Goto
  <1>14. CASE \/ Top \/ RoomFound \/ RoomFull \/ RegisterLoop \/ FlagLoop \/ ResumeLoop
              \/ ReadFails \/ Cancel \/ Done \/ (\E k \in Keys \cup {NoKey} : Read(k))
              \/ ReadStops("shutdown") \/ ReadStops("ended") \/ UNCHANGED vars
    BY <1>t, <1>i, <1>14 DEF Top, RoomFound, RoomFull, RegisterLoop, FlagLoop, ResumeLoop,
       ReadFails, Cancel, Done, PollRoom, vars, Read, ReadStops
  <1> QED
    BY <1>1, <1>2, <1>3, <1>4, <1>5, <1>6, <1>7, <1>8, <1>9, <1>10, <1>11, <1>12, <1>13, <1>14
       DEF Next, DrainStep, FeedStep, StreamStep

LEMMA ThreadInvariant == Safe => []ThreadInv
  <1>1. Init => ThreadInv
    BY DEF Init, ThreadInv, ParkInv
  <1>2. TypeOK /\ ThreadInv /\ [Next]_vars => ThreadInv'
    BY StepThread DEF ThreadInv
  <1> QED
    BY <1>1, <1>2, Types, PTL DEF Safe

\* No thread sleeps through a delivery or through the loop's end, whatever the number of
\* threads and the size of the rings: the flag of Signals::parked and the waker registered before
\* it close the window between the thread's last look and its wait.
THEOREM ThreadWakeupsKept == Safe => []NoLostThreadWakeup
  <1>1. ThreadInv => NoLostThreadWakeup
    BY DEF ThreadInv, ParkInv, NoLostThreadWakeup
  <1> QED
    BY <1>1, ThreadInvariant, PTL

-----------------------------------------------------------------------------
(* The loop's side. *)

LEMMA StepCount ==
  ASSUME TypeOK, CountInv, [Next]_vars, NEW u \in Threads
  PROVE  Counted(u)'
  <1> USE DEF ringVars, threadVars, drainVars, loopVars, roomVars, history, Counted
  <1>t. /\ ring \in [Threads -> Seq(Nat)] /\ held \in [Threads -> Nat]
        /\ at \in [Threads -> At] /\ index \in Threads /\ carry \in Nat
    BY DEF TypeOK
  <1>l. Len(ring[u]) \in Nat
    BY <1>t
  <1>i. Counted(u)
    BY DEF CountInv
  <1>p. ASSUME PushTo PROVE ring'[u] \in {ring[u], Append(ring[u], carry)}
    BY <1>t, <1>p DEF PushTo
  <1>a. Len(Append(ring[u], carry)) = Len(ring[u]) + 1
    BY <1>t
  <1>1. ASSUME NEW t \in Threads, Pop(t)
        PROVE  Counted(u)'
    BY <1>t, <1>i, <1>1 DEF Pop, Goto
  <1>2. ASSUME NEW t \in Threads, Count(t)
        PROVE  Counted(u)'
    BY <1>t, <1>i, <1>2 DEF Count, Goto
  <1>3. ASSUME NEW t \in Threads, Freed(t)
        PROVE  Counted(u)'
    BY <1>t, <1>i, <1>3 DEF Freed, Goto
  <1>4. ASSUME NEW t \in Threads, OpenFails(t)
        PROVE  Counted(u)'
    BY <1>t, <1>i, <1>4 DEF OpenFails
  <1>5. CASE Hand
    <2>1. CASE PushTo
      BY <1>t, <1>l, <1>i, <1>a, <1>p, <1>5, <2>1 DEF Hand
    <2>2. CASE ~PushTo
      BY <1>i, <1>5, <2>2 DEF Hand
    <2> QED
      BY <2>1, <2>2
  <1>6. CASE Push
    <2>1. CASE PushTo
      BY <1>t, <1>l, <1>i, <1>a, <1>p, <1>6, <2>1 DEF Push
    <2>2. CASE ~PushTo
      BY <1>i, <1>6, <2>2 DEF Push
    <2> QED
      BY <2>1, <2>2
  <1>7. ASSUME NEW t \in Threads,
               Claim(t) \/ FreedWakes(t) \/ Handle(t) \/ CheckAbandoned(t) \/
               LastLook(t) \/ Leave(t) \/ LeaveWakes(t) \/ Spin(t) \/
               Register(t) \/ Flag(t) \/ Recheck(t) \/ Resume(t) \/ Die(t) \/
               Open(t)
        PROVE  Counted(u)'
    BY <1>t, <1>i, <1>7 DEF Claim, FreedWakes, Handle, CheckAbandoned, LastLook, Leave,
       LeaveWakes, Spin, Register, Flag, Recheck, Resume, Die, Open, WakeLoop, Arrived, Goto
  <1>8. CASE \/ Top \/ RoomFound \/ RoomFull \/ RegisterLoop \/ FlagLoop \/ ResumeLoop \/ Pushed
             \/ PushedWakes \/ LetGo \/ Close \/ ReadFails \/ Cancel \/ Done
             \/ (\E k \in Keys \cup {NoKey} : Read(k)) \/ ReadStops("shutdown")
             \/ ReadStops("ended") \/ UNCHANGED vars
    BY <1>t, <1>i, <1>8 DEF Top, RoomFound, RoomFull, RegisterLoop, FlagLoop, ResumeLoop,
       Pushed, PushedWakes, LetGo, Close, ReadFails, Cancel, Done, PollRoom, vars, Read,
       ReadStops
  <1> QED
    BY <1>1, <1>2, <1>3, <1>4, <1>5, <1>6, <1>7, <1>8 DEF Next, DrainStep, FeedStep, StreamStep

LEMMA StepArm ==
  ASSUME TypeOK, ArmInv, [Next]_vars
  PROVE  ArmInv'
  <1> USE DEF ringVars, threadVars, drainVars, loopVars, roomVars, history, ArmInv
  <1>t. /\ loop_armed \in BOOLEAN /\ loop_woken \in BOOLEAN /\ loop \in Loop
    BY DEF TypeOK
  <1>1. ASSUME NEW t \in Threads, FreedWakes(t)
        PROVE  ArmInv'
    BY <1>t, <1>1 DEF FreedWakes, WakeLoop, Goto
  <1>2. ASSUME NEW t \in Threads, LeaveWakes(t)
        PROVE  ArmInv'
    BY <1>t, <1>2 DEF LeaveWakes, WakeLoop, Goto
  <1>3. CASE RoomFull
    BY <1>t, <1>3 DEF RoomFull
  <1>4. CASE RegisterLoop
    BY <1>t, <1>4 DEF RegisterLoop
  <1>5. CASE FlagLoop
    BY <1>t, <1>5 DEF FlagLoop
  <1>6. CASE ResumeLoop
    BY <1>t, <1>6 DEF ResumeLoop
  <1>7. CASE Push
    BY <1>t, <1>7 DEF Push, PollRoom, PushTo
  <1>8. ASSUME NEW t \in Threads,
               Pop(t) \/ Count(t) \/ Freed(t) \/ Claim(t) \/ Handle(t) \/
               CheckAbandoned(t) \/ LastLook(t) \/ Leave(t) \/ Spin(t) \/
               Register(t) \/ Flag(t) \/ Recheck(t) \/ Resume(t) \/ Die(t) \/
               OpenFails(t) \/ Open(t)
        PROVE  ArmInv'
    BY <1>t, <1>8 DEF Pop, Count, Freed, Claim, Handle, CheckAbandoned, LastLook, Leave, Spin,
       Register, Flag, Recheck, Resume, Die, OpenFails, Open, Arrived, Goto
  <1>9. CASE \/ Top \/ RoomFound \/ Hand \/ Pushed \/ PushedWakes \/ LetGo \/ Close \/ ReadFails
             \/ Cancel \/ Done \/ (\E k \in Keys \cup {NoKey} : Read(k)) \/ ReadStops("shutdown")
             \/ ReadStops("ended") \/ UNCHANGED vars
    BY <1>t, <1>9 DEF Top, RoomFound, Hand, Pushed, PushedWakes, LetGo, Close, ReadFails,
       Cancel, Done, PollRoom, PushTo, vars, Read, ReadStops
  <1> QED
    BY <1>1, <1>2, <1>3, <1>4, <1>5, <1>6, <1>7, <1>8, <1>9 DEF Next, DrainStep, FeedStep,
       StreamStep

\* What a step of thread t leaves alone: all the loop looks at but t itself.
LEMMA ThreadFrame ==
  ASSUME TypeOK, NEW t \in Threads, DrainStep(t) \/ Die(t)
  PROVE  /\ UNCHANGED <<conf, loop, which, offset, turn>>
         /\ \A u \in Threads \ {t} : /\ at'[u] = at[u] /\ ring'[u] = ring[u] /\ saw'[u] = saw[u]
                                     /\ u \in gone' <=> u \in gone
  <1>t. /\ ring \in [Threads -> Seq(Nat)] /\ at \in [Threads -> At] /\ saw \in [Threads -> Nat]
    BY DEF TypeOK
  <1> USE DEF ringVars, threadVars, loopVars, Goto
  <1>1. CASE Pop(t) \/ Count(t) \/ Freed(t) \/ Claim(t) \/ FreedWakes(t) \/ Handle(t)
    BY <1>t, <1>1 DEF Pop, Count, Freed, Claim, FreedWakes, Handle
  <1>2. CASE CheckAbandoned(t) \/ LastLook(t) \/ Leave(t) \/ LeaveWakes(t) \/ Die(t)
    BY <1>t, <1>2 DEF CheckAbandoned, LastLook, Leave, LeaveWakes, Die
  <1>3. CASE Spin(t) \/ Register(t) \/ Flag(t) \/ Recheck(t) \/ Resume(t)
    BY <1>t, <1>3 DEF Spin, Register, Flag, Recheck, Resume
  <1> QED
    BY <1>1, <1>2, <1>3 DEF DrainStep

\* What a thread's own step makes of a ring the loop may wait for: unless the step claims the
\* word, or clears it on leaving, the loop may still wait.
LEMMA OwnStep ==
  ASSUME TypeOK, CountInv, NEW t \in Threads, DrainStep(t) \/ Die(t),
         loop_waiting = Word, which \in {t, ANY}, Answered(t), ~WakeInFlight'
  PROVE  Answered(t)'
  <1> DEFINE thr == IF which = ANY THEN Ring \div 2 ELSE Ring - 1
  <1>t. /\ ring \in [Threads -> Seq(Nat)] /\ at \in [Threads -> At] /\ saw \in [Threads -> Nat]
        /\ held \in [Threads -> Nat] /\ gone \in SUBSET Threads
    BY DEF TypeOK
  <1>n. t \in Nat /\ t + 1 \in Nat /\ t + 1 # ANY /\ Len(ring[t]) \in Nat
    BY <1>t, RingAssumption DEF Threads, ANY
  <1>r. Ring \in Nat \ {0}
    BY RingAssumption DEF TypeOK, Ring
  <1>h. thr \in Nat
    BY <1>r
  <1>f. UNCHANGED <<conf, which>>
    BY ThreadFrame
  <1>e. Word' = Word /\ thr' = thr
    BY <1>f DEF Word, Ring
  <1>w. at'[t] \notin {"wakeloop", "left"}
    BY DEF WakeInFlight
  <1>a. at[t] \in {"popped", "counted", "leaving"} \/ (at[t] = "seen" /\ saw[t] = Word)
          \/ (t \notin gone /\ Len(ring[t]) > thr)
    BY DEF Answered
  <1>g. ASSUME \/ at'[t] \in {"popped", "counted", "leaving"} \/ (at'[t] = "seen" /\ saw'[t] = Word)
               \/ (t \notin gone' /\ Len(ring'[t]) > thr)
        PROVE  Answered(t)'
    BY <1>e, <1>g DEF Answered
  <1> HIDE DEF thr
  <1> USE DEF ringVars, threadVars, loopVars, roomVars, Goto
  <1>1. CASE Pop(t)
    <2>1. CASE ring[t] # << >>
      <3>1. at'[t] = "popped"
        BY <1>t, <1>1, <2>1 DEF Pop
      <3> QED
        BY <1>g, <3>1
    <2>2. CASE ring[t] = << >>
      <3>1. at[t] = "look" /\ Len(ring[t]) = 0
        BY <1>1, <2>2 DEF Pop
      <3> QED
        BY <1>a, <1>h, <3>1
    <2> QED
      BY <2>1, <2>2
  <1>2. CASE Count(t)
    <2>1. at'[t] = "counted"
      BY <1>t, <1>2 DEF Count
    <2> QED
      BY <1>g, <2>1
  <1>3. CASE Freed(t)
    <2>0. at[t] = "counted" /\ gone' = gone /\ ring' = ring
      BY <1>3 DEF Freed
    <2>1. CASE WakesLoop(t)
      <3>1. at'[t] = "seen" /\ saw'[t] = loop_waiting
        BY <1>t, <1>3, <2>1 DEF Freed
      <3> QED
        BY <1>g, <3>1
    <2>2. CASE ~WakesLoop(t)
      <3>1. which = ANY /\ loop_waiting = ANY
        BY <2>2, <1>n DEF WakesLoop, Word
      <3>2. ~(held[t] <= Ring \div 2) /\ held[t] <= Len(ring[t])
        BY <2>0, <2>2, <3>1 DEF WakesLoop, CountInv, Counted
      <3>3. Len(ring[t]) > thr
        BY <1>t, <1>n, <1>r, <3>1, <3>2 DEF thr
      <3>4. t \notin gone
        BY <2>0 DEF CountInv, Counted
      <3> QED
        BY <1>g, <2>0, <3>3, <3>4
    <2> QED
      BY <2>1, <2>2
  <1>4. CASE Claim(t)
    <2>1. loop_waiting # saw[t]
      BY <1>t, <1>w, <1>4 DEF Claim
    <2>2. at[t] = "seen" /\ ring' = ring /\ gone' = gone
      BY <1>4 DEF Claim
    <2> QED
      BY <1>a, <1>g, <2>1, <2>2
  <1>5. CASE FreedWakes(t) \/ Handle(t) \/ CheckAbandoned(t)
    <2>1. /\ at[t] \in {"wakeloop", "handle", "empty"} /\ ring' = ring /\ gone' = gone
      BY <1>5 DEF FreedWakes, Handle, CheckAbandoned
    <2> QED
      BY <1>a, <1>g, <2>1
  <1>6. CASE LastLook(t)
    <2>1. CASE ring[t] = << >>
      <3>1. at'[t] = "leaving"
        BY <1>t, <1>6, <2>1 DEF LastLook
      <3> QED
        BY <1>g, <3>1
    <2>2. CASE ring[t] # << >>
      <3>1. at[t] = "last" /\ ring' = ring /\ gone' = gone
        BY <1>6, <2>2 DEF LastLook
      <3> QED
        BY <1>a, <1>g, <3>1
    <2> QED
      BY <2>1, <2>2
  <1>7. CASE Die(t)
    <2>1. at'[t] = "leaving"
      BY <1>t, <1>7 DEF Die
    <2> QED
      BY <1>g, <2>1
  <1>8. CASE Leave(t)
    BY <1>t, <1>w, <1>8 DEF Leave
  <1>9. CASE LeaveWakes(t) \/ Spin(t) \/ Register(t) \/ Flag(t) \/ Recheck(t) \/ Resume(t)
    <2>1. /\ at[t] \in {"left", "spin", "register", "flag", "recheck", "pending"}
          /\ ring' = ring /\ gone' = gone
      BY <1>9 DEF LeaveWakes, Spin, Register, Flag, Recheck, Resume
    <2> QED
      BY <1>a, <1>g, <2>1
  <1> QED
    BY <1>1, <1>2, <1>3, <1>4, <1>5, <1>6, <1>7, <1>8, <1>9 DEF DrainStep

\* A step of a thread leaves the loop's wait justified, or is the wake, or the step before it.
LEMMA ThreadWait ==
  ASSUME TypeOK, LoopInv, NEW t \in Threads, DrainStep(t) \/ Die(t)
  PROVE  WaitInv'
  <1> SUFFICES ASSUME loop' \in {"repick", "wait"}, ~loop_woken', ~WakeInFlight'
               PROVE  loop_waiting' = Word' /\ \A u \in Looked' : Answered(u)'
    BY DEF WaitInv
  <1>t. at \in [Threads -> At] /\ loop_armed \in BOOLEAN /\ loop_woken \in BOOLEAN
    BY DEF TypeOK
  <1>f. /\ UNCHANGED <<conf, loop, which, offset, turn>>
        /\ \A u \in Threads \ {t} : /\ at'[u] = at[u] /\ ring'[u] = ring[u] /\ saw'[u] = saw[u]
                                    /\ u \in gone' <=> u \in gone
    BY ThreadFrame
  <1>w. at'[t] \notin {"wakeloop", "left"}
    BY DEF WakeInFlight
  <1>1. Looked' = Looked /\ Word' = Word
    BY <1>f DEF Looked, Word
  <1>2. ~loop_woken /\ at[t] \notin {"wakeloop", "left"} /\ UNCHANGED loop_waiting
    <2> USE DEF roomVars, Goto
    <2>1. loop_armed \/ loop_woken
      BY <1>f DEF LoopInv, ArmInv
    <2>2. CASE FreedWakes(t) \/ LeaveWakes(t)
      BY <1>t, <2>1, <2>2 DEF FreedWakes, LeaveWakes, WakeLoop
    <2>3. CASE Claim(t) \/ Leave(t)
      BY <1>t, <1>w, <2>3 DEF Claim, Leave
    <2>4. CASE Pop(t) \/ Count(t) \/ Freed(t) \/ Handle(t) \/ CheckAbandoned(t) \/ LastLook(t)
      BY <2>4 DEF Pop, Count, Freed, Handle, CheckAbandoned, LastLook
    <2>5. CASE Spin(t) \/ Register(t) \/ Flag(t) \/ Recheck(t) \/ Resume(t) \/ Die(t)
      BY <2>5 DEF Spin, Register, Flag, Recheck, Resume, Die
    <2> QED
      BY <2>2, <2>3, <2>4, <2>5 DEF DrainStep
  <1>3. ~WakeInFlight
    <2> SUFFICES ASSUME NEW u \in Threads, at[u] \in {"wakeloop", "left"} PROVE FALSE
      BY DEF WakeInFlight
    <2>1. u # t
      BY <1>2
    <2> QED
      BY <2>1, <1>f DEF WakeInFlight
  <1>4. loop_waiting = Word /\ \A u \in Looked : Answered(u)
    BY <1>2, <1>3, <1>f DEF LoopInv, WaitInv
  <1>5. ASSUME NEW u \in Looked PROVE Answered(u)'
    <2>1. u \in Threads /\ which \in {u, ANY}
      BY DEF Looked, TypeOK
    <2>2. CASE u = t
      BY <1>4, <2>1, <2>2, OwnStep DEF LoopInv
    <2>3. CASE u # t
      <3>1. Ring' = Ring
        BY <1>f DEF Ring
      <3>2. /\ at'[u] = at[u] /\ ring'[u] = ring[u] /\ saw'[u] = saw[u] /\ which' = which
            /\ u \in gone' <=> u \in gone
        BY <1>f, <2>1, <2>3
      <3>3. Answered(u)
        BY <1>4
      <3> QED
        BY <1>1, <3>1, <3>2, <3>3 DEF Answered
    <2> QED
      BY <2>2, <2>3
  <1> QED
    BY <1>1, <1>2, <1>4, <1>5

\* Looking at N rings from the one in turn on, the loop looks at every ring.
LEMMA AllLooked ==
  ASSUME NEW u \in Threads, NEW n \in Threads
  PROVE  \E o \in 0 .. N - 1 : u = (n + o) % N
  <1> USE RingAssumption DEF Threads
  <1>1. CASE u >= n
    <2>1. u - n \in 0 .. N - 1 /\ (n + (u - n)) = u /\ u % N = u
      BY <1>1
    <2> QED
      BY <2>1
  <1>2. CASE u < n
    <2>1. u - n + N \in 0 .. N - 1 /\ (n + (u - n + N)) = u + N
      BY <1>2
    <2>2. (u + N) % N = u
      OBVIOUS
    <2> QED
      BY <2>1, <2>2
  <1> QED
    BY <1>1, <1>2

LEMMA StepWait ==
  ASSUME TypeOK, LoopInv, [Next]_vars
  PROVE  WaitInv'
  <1>1. ASSUME NEW t \in Threads, DrainStep(t) \/ Die(t) PROVE WaitInv'
    BY <1>1, ThreadWait
  <1>2. CASE RoomFull
    <2> SUFFICES ASSUME loop' \in {"repick", "wait"}, ~loop_woken', ~WakeInFlight'
                 PROVE  loop_waiting' = Word' /\ \A u \in Looked' : Answered(u)'
      BY DEF WaitInv
    <2> USE DEF ringVars, drainVars, roomVars
    <2>1. /\ loop = "repick" /\ ~Usable(Candidate)
          /\ UNCHANGED <<conf, ring, gone, at, saw, which, turn, loop_waiting, loop_woken>>
          /\ IF offset + 1 < Looks THEN offset' = offset + 1 /\ loop' = loop ELSE loop' = "wait"
      BY <1>2 DEF RoomFull
    <2>2. loop_waiting = Word /\ \A u \in Looked : Answered(u)
      BY <2>1 DEF LoopInv, WaitInv, WakeInFlight
    <2>3. Word' = Word
      BY <2>1 DEF Word
    <2>r. Ring \in Nat \ {0} /\ ring \in [Threads -> Seq(Nat)]
      BY RingAssumption DEF TypeOK, Ring
    <2>n. turn \in Nat /\ offset \in Nat /\ offset < N /\ turn + offset \in Nat
      BY RingAssumption DEF TypeOK, Threads
    <2>4. Candidate \in Threads /\ which \in Threads \cup {ANY}
      BY <2>n, ModRange DEF Candidate, TypeOK
    <2>5. Answered(Candidate)
      <3>1. Candidate \notin gone /\ ~(Len(ring[Candidate]) < Ring) /\ Len(ring[Candidate]) \in Nat
        BY <2>1, <2>4, <2>r DEF Usable
      <3> QED
        BY <2>r, <3>1 DEF Answered
    <2>6. ASSUME NEW u \in Threads, Answered(u) PROVE Answered(u)'
      BY <2>1, <2>3, <2>6 DEF Answered, Ring
    <2>7. ASSUME NEW u \in Looked' PROVE u = Candidate \/ u \in Looked
      <3>1. CASE which # ANY
        BY <2>1, <2>7, <3>1 DEF Looked, Candidate
      <3>2. CASE which = ANY /\ loop' = "wait"
        <4>1. u \in Threads /\ offset = N - 1
          BY <2>1, <2>7, <2>n, <3>2, RingAssumption DEF Looked, Looks
        <4>2. PICK o \in 0 .. N - 1 : u = (turn + o) % N
          BY <4>1, AllLooked DEF TypeOK
        <4>3. o = offset \/ o \in 0 .. offset - 1
          BY <4>1, RingAssumption
        <4> QED
          BY <2>1, <3>2, <4>1, <4>2, <4>3 DEF Looked, Candidate
      <3>3. CASE which = ANY /\ loop' # "wait"
        <4>1. PICK o \in 0 .. offset : u = (turn + o) % N /\ u \in Threads
          BY <2>1, <2>7, <2>n, <3>3 DEF Looked
        <4>2. o = offset \/ o \in 0 .. offset - 1
          BY <2>n
        <4> QED
          BY <2>1, <3>3, <4>1, <4>2 DEF Looked, Candidate
      <3> QED
        BY <3>1, <3>2, <3>3
    <2>8. ASSUME NEW u \in Looked' PROVE Answered(u)'
      <3>1. Answered(u) /\ u \in Threads
        BY <2>2, <2>4, <2>5, <2>7, <2>8 DEF Looked
      <3> QED
        BY <2>6, <3>1
    <2> QED
      BY <2>1, <2>2, <2>3, <2>8
  <1>3. CASE FlagLoop
    <2>1. loop' = "repick" /\ offset' = 0 /\ loop_waiting' = Word /\ UNCHANGED which
      BY <1>3 DEF FlagLoop, Word, LoopInv, ArmInv
    <2>2. Word' = Word
      BY <2>1 DEF Word
    <2>3. Looked' = {}
      BY <2>1 DEF Looked
    <2> QED
      BY <2>1, <2>2, <2>3 DEF WaitInv
  <1>4. CASE Cancel \/ Done \/ UNCHANGED vars
    <2>1. /\ UNCHANGED <<conf, ring, gone, at, saw, loop, which, offset, turn, loop_waiting>>
          /\ loop_woken => loop_woken'
      BY <1>4 DEF Cancel, Done, vars, ringVars, drainVars, loopVars, TypeOK
    <2>2. Word' = Word /\ Looked' = Looked /\ WakeInFlight' = WakeInFlight
      BY <2>1 DEF Word, Looked, WakeInFlight
    <2>3. \A u : Answered(u)' = Answered(u)
      BY <2>1, <2>2 DEF Answered, Ring
    <2> QED
      BY <2>1, <2>2, <2>3 DEF LoopInv, WaitInv
  <1>5. CASE \/ Top \/ RoomFound \/ RegisterLoop \/ ResumeLoop \/ Hand \/ Push \/ Pushed
             \/ PushedWakes \/ LetGo \/ Close \/ ReadFails \/ ReadStops("shutdown")
             \/ ReadStops("ended") \/ (\E k \in Keys \cup {NoKey} : Read(k))
             \/ (\E t \in Threads : Open(t) \/ OpenFails(t))
    <2>1. loop' \notin {"repick", "wait"}
      BY <1>5 DEF Top, RoomFound, RegisterLoop, ResumeLoop, Hand, Push, Pushed, PushedWakes, LetGo,
         Close, ReadFails, ReadStops, Read, Open, OpenFails, PollRoom, PushTo
    <2> QED
      BY <2>1 DEF WaitInv
  <1> QED
    BY <1>1, <1>2, <1>3, <1>4, <1>5 DEF Next, FeedStep, StreamStep

LEMMA LoopInvariant == Safe => []LoopInv
  <1>1. Init => LoopInv
    BY DEF Init, LoopInv, CountInv, Counted, ArmInv, WaitInv
  <1>2. TypeOK /\ LoopInv /\ [Next]_vars => LoopInv'
    <2> SUFFICES ASSUME TypeOK, LoopInv, [Next]_vars PROVE LoopInv'
      OBVIOUS
    <2>1. CountInv'
      BY StepCount DEF LoopInv, CountInv
    <2>2. ArmInv' /\ WaitInv'
      BY StepArm, StepWait DEF LoopInv
    <2> QED
      BY <2>1, <2>2 DEF LoopInv
  <1> QED
    BY <1>1, <1>2, Types, PTL DEF Safe

\* The loop sleeps through no room: while it waits for a ring, or for any, each is as full
\* as it was told to wait for, or a thread is on its way to the word or to the wake, whatever the
\* number of threads and the size of the rings (Signals::freed, Leaving::drop, poll_room).
THEOREM LoopWakeupsKept == Safe => []NoLostLoopWakeup
  <1>1. LoopInv => NoLostLoopWakeup
    <2> SUFFICES ASSUME LoopInv, loop = "wait", ~loop_woken
                 PROVE  /\ loop_armed
                        /\ \/ WakeInFlight
                           \/ \A t \in (IF which = ANY THEN Threads ELSE {which}) :
                                \/ at[t] \in {"popped", "counted", "seen", "leaving"}
                                \/ /\ t \notin gone
                                   /\ Len(ring[t]) > (IF which = ANY THEN Ring \div 2 ELSE Ring - 1)
      BY DEF NoLostLoopWakeup
    <2>1. loop_armed
      BY DEF LoopInv, ArmInv
    <2>2. ~WakeInFlight => \A t \in (IF which = ANY THEN Threads ELSE {which}) : Answered(t)
      BY DEF LoopInv, WaitInv, Looked
    <2> QED
      BY <2>1, <2>2 DEF Answered
  <1> QED
    BY <1>1, LoopInvariant, PTL

-----------------------------------------------------------------------------
(* The hand-off implements the dispatch. *)

InHand == {"popped", "counted", "seen", "wakeloop", "handle"}

In(s, n) == \E i \in 1 .. Len(s) : s[i] = n
Rising(s) == \A i, j \in 1 .. Len(s) : i < j => s[i] < s[j]

\* Thread t has delivery n before it: in hand, or in its ring.
Holds(t, n) == n # 0 /\ (item[t] = n \/ InRing(t, n))

\* The ring a delivery goes to, where its key fixes one.
Belongs(t, n) == keyOf[n] # NoKey => KeyIndex[keyOf[n]] = t

\* Where a thread has a delivery in hand, and where one is that is gone or about to be.
AtInv(t) ==
  /\ item[t] # 0 <=> at[t] \in InHand
  /\ t \in gone => at[t] \in {"leaving", "left", "ended"}
  /\ at[t] = "last" => abandoned

\* What thread t has before it was read and handed on, is in reading order, no more than its ring
\* has entries for, and of keys that are its own.
RingInv(t) ==
  /\ Rising(ring[t]) /\ Len(ring[t]) <= Ring
  /\ \A n \in Nat : InRing(t, n) => n # 0 /\ item[t] < n
  /\ \A n \in Nat : Holds(t, n) => n <= Len(keyOf) /\ n # carry /\ Belongs(t, n)

\* No delivery is with two threads.
OneHolder == \A t, u \in Threads : \A n \in Nat : Holds(t, n) /\ Holds(u, n) => t = u

\* Where the loop has a delivery in hand: from the read to the push, the wait for room of its ring
\* included, and to the end only where its thread died.
CarryInv ==
  /\ carry # 0 => carry = Len(keyOf) /\ Belongs(index, carry)
  /\ loop \in {"hand", "push"} => carry # 0
  /\ loop \in {"pick", "register", "flag", "repick", "wait"} =>
       IF which = ANY THEN carry = 0 ELSE which = index /\ carry # 0
  /\ loop \in {"open", "top", "read", "pushed", "wake", "close", "done"} => carry = 0
  /\ loop = "letgo" /\ carry # 0 => died
  /\ loop = "read" /\ ~Keyed => Len(ring[index]) < Ring
  /\ loop = "open" => keyOf = << >>
  /\ gone # {} => died \/ loop \in {"letgo", "close", "done"}
  /\ abandoned => loop \in {"close", "done"}
  /\ handled \in Seq(Nat) /\ died \in BOOLEAN

HandoffInv ==
  /\ \A t \in Threads : AtInv(t) /\ RingInv(t)
  /\ OneHolder
  /\ CarryInv

\* The deliveries read are counted by a natural number.
LEMMA KeysLen ==
  ASSUME TypeOK
  PROVE  Len(keyOf) \in Nat
  <1>1. keyOf \in Seq(Keys \cup {NoKey})
    BY DEF TypeOK
  <1> QED BY <1>1

LEMMA RisingTail ==
  ASSUME NEW s \in Seq(Nat), s # << >>, Rising(s)
  PROVE  /\ Rising(Tail(s)) /\ In(s, Head(s)) /\ Len(Tail(s)) = Len(s) - 1
         /\ \A m \in Nat : In(Tail(s), m) <=> In(s, m) /\ m # Head(s)
         /\ \A m \in Nat : In(Tail(s), m) => Head(s) < m
<1> DEFINE q == Tail(s)  n == Len(s)
<1>1. /\ q \in Seq(Nat) /\ Len(q) = n - 1 /\ n \in Nat /\ n > 0 /\ Head(s) = s[1]
      /\ \A i \in 1 .. n - 1 : q[i] = s[i + 1]
      /\ \A i \in 1 .. n : s[i] \in Nat
  OBVIOUS
<1> HIDE DEF q
<1>2. n = Len(s)
  OBVIOUS
<1> HIDE DEF n
<1>3. \A i \in 1 .. n - 1 : i + 1 \in 1 .. n
  BY <1>1
<1>4. \A i, j \in 1 .. n : i < j => s[i] < s[j]
  BY <1>2 DEF Rising
<1>5. Rising(q)
  <2> SUFFICES ASSUME NEW i \in 1 .. n - 1, NEW j \in 1 .. n - 1, i < j PROVE q[i] < q[j]
    BY <1>1 DEF Rising
  <2>1. i + 1 \in 1 .. n /\ j + 1 \in 1 .. n /\ i + 1 < j + 1
    BY <1>1
  <2> QED BY <1>1, <1>4, <2>1
<1>6. In(s, Head(s))
  BY <1>1, <1>2 DEF In
<1>7. ASSUME NEW m \in Nat, In(q, m) PROVE In(s, m) /\ Head(s) < m
  <2>1. PICK i \in 1 .. n - 1 : q[i] = m
    BY <1>1, <1>7 DEF In
  <2>2. i + 1 \in 1 .. n /\ 1 < i + 1 /\ 1 \in 1 .. n
    BY <1>1
  <2> QED BY <1>1, <1>2, <1>4, <2>1, <2>2 DEF In
<1>8. ASSUME NEW m \in Nat, In(s, m), m # Head(s) PROVE In(q, m)
  <2>1. PICK i \in 1 .. n : s[i] = m
    BY <1>2, <1>8 DEF In
  <2>2. i # 1
    BY <1>1, <1>8, <2>1
  <2>3. i - 1 \in 1 .. n - 1 /\ (i - 1) + 1 = i
    BY <1>1, <2>2
  <2>4. q[i - 1] = m
    BY <1>1, <2>1, <2>3
  <2> QED BY <1>1, <2>3, <2>4 DEF In
<1>9. \A m \in Nat : Head(s) < m => m # Head(s)
  BY <1>1
<1> QED BY <1>1, <1>2, <1>5, <1>6, <1>7, <1>8, <1>9 DEF q

LEMMA RisingAppend ==
  ASSUME NEW s \in Seq(Nat), Rising(s), NEW c \in Nat, \A m \in Nat : In(s, m) => m < c
  PROVE  /\ Rising(Append(s, c)) /\ Len(Append(s, c)) = Len(s) + 1
         /\ \A m \in Nat : In(Append(s, c), m) <=> In(s, m) \/ m = c
<1> DEFINE q == Append(s, c)  n == Len(s)
<1>1. /\ q \in Seq(Nat) /\ Len(q) = n + 1 /\ n \in Nat
      /\ \A i \in 1 .. n : q[i] = s[i]
      /\ q[n + 1] = c
      /\ \A i \in 1 .. n : s[i] \in Nat
  OBVIOUS
<1> HIDE DEF q
<1>2. n = Len(s)
  OBVIOUS
<1> HIDE DEF n
<1>3. \A i \in 1 .. n + 1 : i \in 1 .. n \/ i = n + 1
  BY <1>1
<1>4. \A i \in 1 .. n : i \in 1 .. n + 1
  BY <1>1
<1>5. Rising(q)
  <2> SUFFICES ASSUME NEW i \in 1 .. n + 1, NEW j \in 1 .. n + 1, i < j PROVE q[i] < q[j]
    BY <1>1 DEF Rising
  <2>1. i \in 1 .. n
    BY <1>1
  <2>2. CASE j \in 1 .. n
    BY <1>1, <1>2, <2>1, <2>2 DEF Rising
  <2>3. CASE j = n + 1
    <3>1. In(s, s[i])
      BY <1>2, <2>1 DEF In
    <3> QED BY <1>1, <2>1, <2>3, <3>1
  <2> QED BY <1>3, <2>2, <2>3
<1>6. ASSUME NEW m \in Nat, In(q, m) PROVE In(s, m) \/ m = c
  <2>1. PICK i \in 1 .. n + 1 : q[i] = m
    BY <1>1, <1>6 DEF In
  <2> QED BY <1>1, <1>2, <1>3, <2>1 DEF In
<1>7. ASSUME NEW m \in Nat, In(s, m) PROVE In(q, m)
  BY <1>1, <1>2, <1>4, <1>7 DEF In
<1>8. In(q, c)
  <2>1. n + 1 \in 1 .. n + 1
    BY <1>1
  <2> QED BY <1>1, <2>1 DEF In
<1> QED BY <1>1, <1>2, <1>5, <1>6, <1>7, <1>8 DEF q

LEMMA InRingIsIn == \A t, n : InRing(t, n) <=> In(ring[t], n)
BY DEF InRing, In

LEMMA InRingIsInThen == \A t, n : InRing(t, n)' <=> In(ring'[t], n)
BY DEF InRing, In

LEMMA SameRings ==
  ASSUME ring' = ring
  PROVE  \A t, n : InRing(t, n)' <=> InRing(t, n)
BY DEF InRing

\* Pop moves the delivery from the front of the ring into the thread's hand.
LEMMA PopEffect ==
  ASSUME TypeOK, NEW t \in Threads, Pop(t), ring[t] # << >>, AtInv(t), RingInv(t)
  PROVE  \E n \in Nat :
           /\ n # 0 /\ InRing(t, n) /\ item[t] = 0
           /\ item' = [item EXCEPT ![t] = n]
           /\ Rising(ring'[t]) /\ Len(ring'[t]) <= Len(ring[t])
           /\ \A m \in Nat : InRing(t, m)' <=> InRing(t, m) /\ m # n
           /\ \A m \in Nat : InRing(t, m)' => n < m
           /\ \A u \in Threads \ {t} : ring'[u] = ring[u]
           /\ \A u \in Threads \ {t} : \A m \in Nat : InRing(u, m)' <=> InRing(u, m)
           /\ UNCHANGED <<conf, keyOf, carry, gone, handled, died>>
<1>1. ring[t] \in Seq(Nat) /\ Rising(ring[t]) /\ ring \in [Threads -> Seq(Nat)]
  BY DEF TypeOK, RingInv
<1>2. PICK n \in Nat, s \in Seq(Nat) : n = Head(ring[t]) /\ s = Tail(ring[t])
  <2>1. Head(ring[t]) \in Nat /\ Tail(ring[t]) \in Seq(Nat)
    BY <1>1, SeqFacts
  <2> QED BY <2>1
<1>3. /\ Rising(s) /\ In(ring[t], n) /\ Len(s) = Len(ring[t]) - 1
      /\ \A m \in Nat : In(s, m) <=> In(ring[t], m) /\ m # n
      /\ \A m \in Nat : In(s, m) => n < m
  BY <1>1, <1>2, RisingTail
<1>4. ring' = [ring EXCEPT ![t] = s] /\ item' = [item EXCEPT ![t] = n]
  BY <1>2 DEF Pop
<1>5. ring'[t] = s /\ \A u \in Threads \ {t} : ring'[u] = ring[u]
  BY <1>1, <1>4
<1>6. \A m \in Nat : InRing(t, m)' <=> InRing(t, m) /\ m # n
  BY <1>3, <1>5, InRingIsIn, InRingIsInThen
<1>7. \A m \in Nat : InRing(t, m)' => n < m
  BY <1>3, <1>5, InRingIsInThen
<1>8. \A u \in Threads \ {t} : \A m \in Nat : InRing(u, m)' <=> InRing(u, m)
  BY <1>5, InRingIsIn, InRingIsInThen
<1>9. item[t] = 0
  BY DEF AtInv, Pop, InHand
<1>10. InRing(t, n) /\ n # 0
  <2>1. InRing(t, n)
    BY <1>3, InRingIsIn
  <2> QED BY <2>1 DEF RingInv
<1>11. UNCHANGED <<conf, keyOf, carry, gone, handled, died>>
  BY DEF Pop, loopVars, history
<1>12. Len(ring'[t]) <= Len(ring[t])
  <2>1. Len(s) \in Nat /\ Len(ring[t]) \in Nat
    BY <1>1
  <2> QED BY <1>3, <1>5, <2>1
<1> QED BY <1>3, <1>4, <1>5, <1>6, <1>7, <1>8, <1>9, <1>10, <1>11, <1>12

\* Producer::push moves the delivery in the loop's hand to the back of the ring picked for it.
LEMMA PushEffect ==
  ASSUME TypeOK, PushTo, CarryInv, carry # 0,
         NEW x \in Threads, x = index, NEW c \in Nat, c = carry, RingInv(x)
  PROVE  /\ Rising(ring'[x]) /\ Len(ring'[x]) <= Ring
         /\ \A m \in Nat : InRing(x, m)' <=> InRing(x, m) \/ m = c
         /\ \A u \in Threads \ {x} : ring'[u] = ring[u]
         /\ \A u \in Threads \ {x} : \A m \in Nat : InRing(u, m)' <=> InRing(u, m)
<1>1. /\ ring[x] \in Seq(Nat) /\ Rising(ring[x]) /\ ring \in [Threads -> Seq(Nat)]
      /\ Len(keyOf) \in Nat
  BY KeysLen DEF TypeOK, RingInv
<1>2. PICK s \in Seq(Nat) : s = Append(ring[x], c)
  <2>1. Append(ring[x], c) \in Seq(Nat)
    BY <1>1
  <2> QED BY <2>1
<1>3. ASSUME NEW m \in Nat, In(ring[x], m) PROVE m < c
  <2>1. InRing(x, m)
    BY <1>3, InRingIsIn
  <2>2. Holds(x, m)
    BY <2>1 DEF RingInv, Holds
  <2>3. m <= Len(keyOf) /\ m # carry /\ carry = Len(keyOf)
    BY <2>2 DEF RingInv, CarryInv
  <2> QED BY <1>1, <2>3
<1>4. /\ Rising(s) /\ Len(s) = Len(ring[x]) + 1
      /\ \A m \in Nat : In(s, m) <=> In(ring[x], m) \/ m = c
  BY <1>1, <1>2, <1>3, RisingAppend
<1>5. ring' = [ring EXCEPT ![x] = s]
  BY <1>2 DEF PushTo
<1>6. ring'[x] = s /\ \A u \in Threads \ {x} : ring'[u] = ring[u]
  BY <1>1, <1>5
<1>7. Len(ring'[x]) <= Ring
  <2>1. Ring \in Nat
    BY RingAssumption DEF TypeOK, Ring
  <2>2. Len(ring[x]) \in Nat /\ Len(ring[x]) < Ring
    BY <1>1 DEF PushTo
  <2> QED BY <1>4, <1>6, <2>1, <2>2
<1>8. \A m \in Nat : InRing(x, m)' <=> InRing(x, m) \/ m = c
  BY <1>4, <1>6, InRingIsIn, InRingIsInThen
<1>9. \A u \in Threads \ {x} : \A m \in Nat : InRing(u, m)' <=> InRing(u, m)
  BY <1>6, InRingIsIn, InRingIsInThen
<1> QED BY <1>4, <1>6, <1>7, <1>8, <1>9

LEMMA Moves ==
  ASSUME TypeOK, [Next]_vars
  PROVE  \/ UNCHANGED <<conf, ring, item, keyOf>> /\ carry' \in {carry, 0}
         \/ \E k \in Keys \cup {NoKey} : Read(k)
         \/ \E t \in Threads : Pop(t) /\ ring[t] # << >>
         \/ \E t \in Threads : Handle(t) \/ Die(t)
         \/ (Hand \/ Push) /\ PushTo /\ UNCHANGED <<conf, item, keyOf>>
  <1> USE DEF ringVars, threadVars, drainVars, loopVars, roomVars, history
  <1> DEFINE Goal == \/ UNCHANGED <<conf, ring, item, keyOf>> /\ carry' \in {carry, 0}
                     \/ \E k \in Keys \cup {NoKey} : Read(k)
                     \/ \E t \in Threads : Pop(t) /\ ring[t] # << >>
                     \/ \E t \in Threads : Handle(t) \/ Die(t)
                     \/ (Hand \/ Push) /\ PushTo /\ UNCHANGED <<conf, item, keyOf>>
  <1> SUFFICES Goal
    OBVIOUS
  <1>1. ASSUME NEW t \in Threads, Pop(t)
        PROVE  Goal
    <2>1. CASE ring[t] # << >>
      BY <1>1, <2>1
    <2>2. CASE ring[t] = << >>
      BY <1>1, <2>2 DEF Pop
    <2> QED BY <2>1, <2>2
  <1>2. ASSUME NEW t \in Threads, Handle(t)
        PROVE  Goal
    BY <1>2
  <1>3. ASSUME NEW t \in Threads, Die(t)
        PROVE  Goal
    BY <1>3
  <1>4. ASSUME NEW k \in Keys \cup {NoKey}, Read(k)
        PROVE  Goal
    BY <1>4
  <1>5. CASE Hand
    <2>1. UNCHANGED <<conf, item, keyOf>> /\ (PushTo \/ UNCHANGED <<ring, carry>>)
      BY <1>5 DEF Hand
    <2> QED BY <1>5, <2>1
  <1>6. CASE Push
    <2>1. UNCHANGED <<conf, item, keyOf>> /\ (PushTo \/ UNCHANGED <<ring, carry>>)
      BY <1>6 DEF Push
    <2> QED BY <1>6, <2>1
  <1>7. ASSUME NEW t \in Threads,
               Count(t) \/ Freed(t) \/ Claim(t) \/ FreedWakes(t) \/
               CheckAbandoned(t) \/ LastLook(t) \/ Leave(t) \/ LeaveWakes(t) \/
               Spin(t) \/ Register(t) \/ Flag(t) \/ Recheck(t) \/ Resume(t) \/
               OpenFails(t) \/ Open(t)
        PROVE  Goal
    BY <1>7 DEF Count, Freed, Claim, FreedWakes, CheckAbandoned, LastLook, Leave, LeaveWakes,
       Spin, Register, Flag, Recheck, Resume, OpenFails, Open, Goto, WakeLoop, Arrived
  <1>8. CASE \/ Top \/ RoomFound \/ RoomFull \/ RegisterLoop \/ FlagLoop \/ ResumeLoop \/ Pushed
             \/ PushedWakes \/ LetGo \/ Close \/ ReadFails \/ ReadStops("shutdown")
             \/ ReadStops("ended") \/ Cancel \/ Done \/ UNCHANGED vars
    BY <1>8 DEF Top, RoomFound, RoomFull, RegisterLoop, FlagLoop, ResumeLoop, Pushed,
       PushedWakes, LetGo, Close, ReadFails, ReadStops, Cancel, Done, PollRoom, vars
  <1> HIDE DEF Goal
  <1> QED
    BY <1>1, <1>2, <1>3, <1>4, <1>5, <1>6, <1>7, <1>8 DEF Next, DrainStep, FeedStep, StreamStep

LEMMA StepAt ==
  ASSUME TypeOK, CarryInv, NEW u \in Threads, AtInv(u), RingInv(u), [Next]_vars
  PROVE  AtInv(u)'
  <1> USE DEF ringVars, threadVars, drainVars, loopVars, roomVars, history, AtInv, InHand
  <1>t. /\ item \in [Threads -> Nat] /\ at \in [Threads -> At] /\ ring \in [Threads -> Seq(Nat)]
        /\ gone \in SUBSET Threads
    BY DEF TypeOK
  <1>1. ASSUME NEW t \in Threads, Pop(t)
        PROVE  AtInv(u)'
    <2>1. CASE ring[t] = << >>
      BY <1>t, <1>1, <2>1 DEF Pop, Goto
    <2>2. CASE ring[t] # << >> /\ u = t
      <3>1. ring[t] \in Seq(Nat) /\ Rising(ring[t])
        BY <1>t, <2>2 DEF RingInv
      <3>2. Head(ring[t]) \in Nat /\ In(ring[t], Head(ring[t]))
        BY <2>2, <3>1, RisingTail
      <3>3. Head(ring[t]) # 0
        BY <2>2, <3>2, InRingIsIn DEF RingInv
      <3> QED BY <1>t, <1>1, <2>2, <3>3 DEF Pop, Goto
    <2>3. CASE ring[t] # << >> /\ u # t
      BY <1>t, <1>1, <2>3 DEF Pop, Goto
    <2> QED BY <2>1, <2>2, <2>3
  <1>2. ASSUME NEW t \in Threads, Count(t)
        PROVE  AtInv(u)'
    BY <1>t, <1>2 DEF Count, Goto
  <1>3. ASSUME NEW t \in Threads, Freed(t)
        PROVE  AtInv(u)'
    BY <1>t, <1>3 DEF Freed, Goto
  <1>4. ASSUME NEW t \in Threads, Claim(t)
        PROVE  AtInv(u)'
    BY <1>t, <1>4 DEF Claim, Goto
  <1>5. ASSUME NEW t \in Threads, FreedWakes(t)
        PROVE  AtInv(u)'
    BY <1>t, <1>5 DEF FreedWakes, WakeLoop, Goto
  <1>6. ASSUME NEW t \in Threads, Handle(t)
        PROVE  AtInv(u)'
    BY <1>t, <1>6 DEF Handle, Goto
  <1>7. ASSUME NEW t \in Threads, CheckAbandoned(t)
        PROVE  AtInv(u)'
    BY <1>t, <1>7 DEF CheckAbandoned, Goto
  <1>8. ASSUME NEW t \in Threads, LastLook(t)
        PROVE  AtInv(u)'
    BY <1>t, <1>8 DEF LastLook, Goto
  <1>9. ASSUME NEW t \in Threads, Leave(t)
        PROVE  AtInv(u)'
    BY <1>t, <1>9 DEF Leave, Goto
  <1>10. ASSUME NEW t \in Threads, LeaveWakes(t)
         PROVE  AtInv(u)'
    BY <1>t, <1>10 DEF LeaveWakes, WakeLoop, Goto
  <1>11. ASSUME NEW t \in Threads, Spin(t)
         PROVE  AtInv(u)'
    BY <1>t, <1>11 DEF Spin, Goto
  <1>12. ASSUME NEW t \in Threads, Register(t)
         PROVE  AtInv(u)'
    BY <1>t, <1>12 DEF Register, Goto
  <1>13. ASSUME NEW t \in Threads, Flag(t)
         PROVE  AtInv(u)'
    BY <1>t, <1>13 DEF Flag, Goto
  <1>14. ASSUME NEW t \in Threads, Recheck(t)
         PROVE  AtInv(u)'
    BY <1>t, <1>14 DEF Recheck, Arrived, Goto
  <1>15. ASSUME NEW t \in Threads, Resume(t)
         PROVE  AtInv(u)'
    BY <1>t, <1>15 DEF Resume, Goto
  <1>16. ASSUME NEW t \in Threads, Die(t)
         PROVE  AtInv(u)'
    BY <1>t, <1>16 DEF Die, Goto
  <1>17. ASSUME NEW t \in Threads, OpenFails(t)
         PROVE  AtInv(u)'
    <2>1. keyOf = << >> /\ Len(<< >>) = 0
      BY <1>17 DEF OpenFails, CarryInv
    <2>2. item[u] # 0 => item[u] <= Len(keyOf)
      BY <1>t DEF RingInv, Holds
    <2>3. item[u] = 0
      <3>1. item[u] \in Nat
        BY <1>t
      <3> QED BY <2>1, <2>2, <3>1
    <2> QED BY <1>t, <1>17, <2>3 DEF OpenFails
  <1>18. ASSUME NEW t \in Threads, Open(t)
         PROVE  AtInv(u)'
    BY <1>t, <1>18 DEF Open, Goto
  <1>19. ASSUME NEW k \in Keys \cup {NoKey}, Read(k)
         PROVE  AtInv(u)'
    BY <1>t, <1>19 DEF Read
  <1>20. CASE Top
    BY <1>t, <1>20 DEF Top, PollRoom
  <1>21. CASE RoomFound
    BY <1>t, <1>21 DEF RoomFound
  <1>22. CASE RoomFull
    BY <1>t, <1>22 DEF RoomFull
  <1>23. CASE RegisterLoop
    BY <1>t, <1>23 DEF RegisterLoop
  <1>24. CASE FlagLoop
    BY <1>t, <1>24 DEF FlagLoop
  <1>25. CASE ResumeLoop
    BY <1>t, <1>25 DEF ResumeLoop
  <1>26. CASE Hand
    BY <1>t, <1>26 DEF Hand, PushTo
  <1>27. CASE Push
    BY <1>t, <1>27 DEF Push, PollRoom, PushTo
  <1>28. CASE Pushed
    BY <1>t, <1>28 DEF Pushed
  <1>29. CASE PushedWakes
    BY <1>t, <1>29 DEF PushedWakes
  <1>30. CASE LetGo
    BY <1>t, <1>30 DEF LetGo
  <1>31. CASE Close
    BY <1>t, <1>31 DEF Close
  <1>32. CASE ReadFails
    BY <1>t, <1>32 DEF ReadFails
  <1>33. CASE ReadStops("shutdown")
    BY <1>t, <1>33 DEF ReadStops
  <1>34. CASE ReadStops("ended")
    BY <1>t, <1>34 DEF ReadStops
  <1>35. CASE Cancel
    BY <1>t, <1>35 DEF Cancel
  <1>36. CASE Done
    BY <1>t, <1>36 DEF Done, vars
  <1>37. CASE \/ UNCHANGED vars
    BY <1>t, <1>37 DEF vars
  <1> QED
    BY <1>1, <1>2, <1>3, <1>4, <1>5, <1>6, <1>7, <1>8, <1>9, <1>10, <1>11, <1>12, <1>13, <1>14,
       <1>15, <1>16, <1>17, <1>18, <1>19, <1>20, <1>21, <1>22, <1>23, <1>24, <1>25, <1>26,
       <1>27, <1>28, <1>29, <1>30, <1>31, <1>32, <1>33, <1>34, <1>35, <1>36, <1>37 DEF Next,
       DrainStep, FeedStep, StreamStep

LEMMA StepRing ==
  ASSUME TypeOK, HandoffInv, [Next]_vars
  PROVE  /\ \A u \in Threads : \A m \in Nat :
              Holds(u, m)' => Holds(u, m) \/ (m # 0 /\ m = carry /\ u = index)
         /\ \A u \in Threads : RingInv(u)'
  <1>t. /\ item \in [Threads -> Nat] /\ ring \in [Threads -> Seq(Nat)] /\ carry \in Nat
        /\ keyOf \in Seq(Keys \cup {NoKey}) /\ Len(keyOf) \in Nat /\ index \in Threads
    BY KeysLen DEF TypeOK
  <1>i. \A u \in Threads : AtInv(u) /\ RingInv(u)
    BY DEF HandoffInv
  <1>c. CarryInv
    BY DEF HandoffInv
  <1>1. CASE UNCHANGED <<conf, ring, item, keyOf>> /\ carry' \in {carry, 0}
    <2>1. \A t, n : InRing(t, n)' <=> InRing(t, n)
      BY <1>1, SameRings
    <2>2. \A t, n : Holds(t, n)' <=> Holds(t, n)
      BY <1>1, <2>1 DEF Holds
    <2>3. ASSUME NEW u \in Threads PROVE RingInv(u)'
      BY <1>1, <1>i, <2>1, <2>2 DEF RingInv, Holds, Belongs, Ring
    <2> QED BY <2>2, <2>3
  <1>2. ASSUME NEW k \in Keys \cup {NoKey}, Read(k)
        PROVE  /\ \A u \in Threads : \A m \in Nat : Holds(u, m)' => Holds(u, m)
               /\ \A u \in Threads : RingInv(u)'
    <2>0. /\ UNCHANGED <<conf, ring, item>> /\ keyOf' = Append(keyOf, k)
          /\ carry' = Len(keyOf) + 1
      BY <1>2 DEF Read, ringVars, drainVars
    <2>1. \A t, n : InRing(t, n)' <=> InRing(t, n)
      BY <2>0, SameRings
    <2>2. \A t, n : Holds(t, n)' <=> Holds(t, n)
      BY <2>0, <2>1 DEF Holds
    <2>3. Len(keyOf') = Len(keyOf) + 1 /\ \A n \in 1 .. Len(keyOf) : keyOf'[n] = keyOf[n]
      BY <1>t, <2>0
    <2>4. ASSUME NEW u \in Threads PROVE RingInv(u)'
      <3>1. ASSUME NEW n \in Nat, Holds(u, n)
            PROVE  n <= Len(keyOf') /\ n # carry' /\ Belongs(u, n)'
        <4>1. n <= Len(keyOf) /\ Belongs(u, n) /\ n # 0
          BY <1>i, <3>1 DEF RingInv, Holds
        <4>2. n \in 1 .. Len(keyOf) /\ n <= Len(keyOf) + 1 /\ n # Len(keyOf) + 1
          BY <1>t, <4>1
        <4> QED BY <2>0, <2>3, <4>1, <4>2 DEF Belongs
      <3> QED BY <1>i, <2>0, <2>1, <2>2, <3>1 DEF RingInv, Ring
    <2> QED BY <2>2, <2>4
  <1>3. ASSUME NEW t \in Threads, Pop(t), ring[t] # << >>
        PROVE  /\ \A u \in Threads : \A m \in Nat : Holds(u, m)' => Holds(u, m)
               /\ \A u \in Threads : RingInv(u)'
    <2>1. PICK n \in Nat :
           /\ n # 0 /\ InRing(t, n) /\ item[t] = 0
           /\ item' = [item EXCEPT ![t] = n]
           /\ Rising(ring'[t]) /\ Len(ring'[t]) <= Len(ring[t])
           /\ \A m \in Nat : InRing(t, m)' <=> InRing(t, m) /\ m # n
           /\ \A m \in Nat : InRing(t, m)' => n < m
           /\ \A u \in Threads \ {t} : ring'[u] = ring[u]
           /\ \A u \in Threads \ {t} : \A m \in Nat : InRing(u, m)' <=> InRing(u, m)
           /\ UNCHANGED <<conf, keyOf, carry, gone, handled, died>>
      BY <1>3, <1>i, PopEffect
    <2>2. item'[t] = n /\ \A u \in Threads \ {t} : item'[u] = item[u]
      BY <1>t, <2>1
    <2>3. ASSUME NEW u \in Threads, NEW m \in Nat, Holds(u, m)' PROVE Holds(u, m)
      <3>1. CASE u = t
        BY <2>1, <2>2, <2>3, <3>1 DEF Holds
      <3>2. CASE u # t
        BY <2>1, <2>2, <2>3, <3>2 DEF Holds
      <3> QED BY <3>1, <3>2
    <2>4. ASSUME NEW u \in Threads PROVE RingInv(u)'
      <3>1. \A m \in Nat : Holds(u, m)' => m <= Len(keyOf') /\ m # carry' /\ Belongs(u, m)'
        BY <1>i, <2>1, <2>3 DEF RingInv, Belongs
      <3>2. CASE u = t
        <4>1. Len(ring[t]) <= Ring /\ Ring' = Ring /\ Ring \in Nat
          BY <1>i, <2>1, RingAssumption DEF RingInv, Ring, TypeOK
        <4>2. Len(ring[t]) \in Nat /\ Len(ring'[t]) \in Nat
          <5>1. ring[t] \in Seq(Nat) /\ ring'[t] \in Seq(Nat)
            BY StepTypes DEF TypeOK
          <5> QED BY <5>1
        <4>3. Len(ring'[t]) <= Ring'
          BY <2>1, <4>1, <4>2
        <4>4. \A m \in Nat : InRing(u, m)' => m # 0 /\ item'[u] < m
          BY <1>i, <2>1, <2>2, <3>2 DEF RingInv
        <4> QED BY <2>1, <3>1, <3>2, <4>3, <4>4 DEF RingInv
      <3>3. CASE u # t
        BY <1>i, <2>1, <2>2, <3>1, <3>3 DEF RingInv, Ring
      <3> QED BY <3>2, <3>3
    <2> QED BY <2>3, <2>4
  <1>4. ASSUME NEW t \in Threads, Handle(t) \/ Die(t)
        PROVE  /\ \A u \in Threads : \A m \in Nat : Holds(u, m)' => Holds(u, m)
               /\ \A u \in Threads : RingInv(u)'
    <2>0. UNCHANGED <<conf, ring, keyOf, carry>> /\ item' = [item EXCEPT ![t] = 0]
      BY <1>4 DEF Handle, Die, ringVars, loopVars
    <2>1. \A u, n : InRing(u, n)' <=> InRing(u, n)
      BY <2>0, SameRings
    <2>2. item'[t] = 0 /\ \A u \in Threads \ {t} : item'[u] = item[u]
      BY <1>t, <2>0
    <2>3. ASSUME NEW u \in Threads, NEW m \in Nat, Holds(u, m)' PROVE Holds(u, m)
      <3>1. CASE u = t
        BY <2>1, <2>2, <2>3, <3>1 DEF Holds
      <3>2. CASE u # t
        BY <2>1, <2>2, <2>3, <3>2 DEF Holds
      <3> QED BY <3>1, <3>2
    <2>4. ASSUME NEW u \in Threads PROVE RingInv(u)'
      <3>1. \A m \in Nat : Holds(u, m)' => m <= Len(keyOf') /\ m # carry' /\ Belongs(u, m)'
        BY <1>i, <2>0, <2>3 DEF RingInv, Belongs
      <3>2. ASSUME NEW m \in Nat, InRing(u, m)' PROVE m # 0 /\ item'[u] < m
        BY <1>i, <2>1, <2>2, <3>2 DEF RingInv
      <3> QED BY <1>i, <2>0, <3>1, <3>2 DEF RingInv, Ring
    <2> QED BY <2>3, <2>4
  <1>5. CASE (Hand \/ Push) /\ PushTo /\ UNCHANGED <<conf, item, keyOf>>
    <2>0. carry # 0 /\ carry' = 0
      BY <1>5, <1>c DEF Hand, Push, CarryInv, PushTo
    <2>1. PICK x \in Threads, c \in Nat : x = index /\ c = carry
      BY <1>t
    <2>2. /\ Rising(ring'[x]) /\ Len(ring'[x]) <= Ring
          /\ \A m \in Nat : InRing(x, m)' <=> InRing(x, m) \/ m = c
          /\ \A u \in Threads \ {x} : ring'[u] = ring[u]
          /\ \A u \in Threads \ {x} : \A m \in Nat : InRing(u, m)' <=> InRing(u, m)
      BY <1>5, <1>i, <1>c, <2>0, <2>1, PushEffect
    <2>3. ASSUME NEW u \in Threads, NEW m \in Nat, Holds(u, m)'
          PROVE  Holds(u, m) \/ (m # 0 /\ m = carry /\ u = index)
      <3>1. CASE u = x
        BY <1>5, <2>1, <2>2, <2>3, <3>1 DEF Holds
      <3>2. CASE u # x
        BY <1>5, <2>2, <2>3, <3>2 DEF Holds
      <3> QED BY <3>1, <3>2
    <2>4. ASSUME NEW u \in Threads PROVE RingInv(u)'
      <3>1. ASSUME NEW m \in Nat, Holds(u, m)'
            PROVE  m <= Len(keyOf') /\ m # carry' /\ Belongs(u, m)'
        <4>1. CASE Holds(u, m)
          <5>1. m <= Len(keyOf) /\ Belongs(u, m) /\ m # 0
            BY <1>i, <4>1 DEF RingInv, Holds
          <5> QED BY <1>5, <2>0, <5>1 DEF Belongs
        <4>2. CASE m # 0 /\ m = carry /\ u = index
          <5>1. m <= Len(keyOf) /\ Belongs(u, m)
            BY <1>t, <1>c, <4>2 DEF CarryInv
          <5> QED BY <1>5, <2>0, <4>2, <5>1 DEF Belongs
        <4> QED BY <2>3, <3>1, <4>1, <4>2
      <3>2. ASSUME NEW m \in Nat, InRing(u, m)' PROVE m # 0 /\ item'[u] < m
        <4>1. CASE InRing(u, m)
          BY <1>5, <1>i, <4>1 DEF RingInv
        <4>2. CASE ~InRing(u, m)
          <5>1. u = x /\ m = c
            BY <2>2, <3>2, <4>2
          <5>2. CASE item[u] = 0
            BY <1>5, <2>0, <2>1, <5>1, <5>2
          <5>3. CASE item[u] # 0
            <6>1. Holds(u, item[u]) /\ item[u] \in Nat
              BY <1>t, <5>3 DEF Holds
            <6>2. item[u] <= Len(keyOf) /\ item[u] # carry
              BY <1>i, <6>1 DEF RingInv
            <6>3. carry = Len(keyOf)
              BY <1>c, <2>0 DEF CarryInv
            <6> QED BY <1>t, <1>5, <2>0, <2>1, <5>1, <6>1, <6>2, <6>3
          <5> QED BY <5>2, <5>3
        <4> QED BY <4>1, <4>2
      <3>3. Rising(ring'[u]) /\ Len(ring'[u]) <= Ring'
        BY <1>5, <1>i, <2>2 DEF RingInv, Ring
      <3> QED BY <3>1, <3>2, <3>3 DEF RingInv
    <2> QED BY <2>3, <2>4
  <1> QED BY <1>1, <1>2, <1>3, <1>4, <1>5, Moves

LEMMA StepOneHolder ==
  ASSUME TypeOK, HandoffInv, [Next]_vars
  PROVE  OneHolder'
  <1>1. \A u \in Threads : \A m \in Nat :
          Holds(u, m)' => Holds(u, m) \/ (m # 0 /\ m = carry /\ u = index)
    BY StepRing
  <1>2. \A u \in Threads : \A m \in Nat : Holds(u, m) => m # carry
    BY DEF HandoffInv, RingInv
  <1>3. \A t, u \in Threads : \A n \in Nat : Holds(t, n) /\ Holds(u, n) => t = u
    BY DEF HandoffInv, OneHolder
  <1> QED BY <1>1, <1>2, <1>3 DEF OneHolder

LEMMA StepCarry ==
  ASSUME TypeOK, HandoffInv, [Next]_vars
  PROVE  CarryInv'
  <1> USE DEF ringVars, threadVars, drainVars, loopVars, roomVars, history, CarryInv, Keyed,
     Ring
  <1>t. /\ ring \in [Threads -> Seq(Nat)] /\ index \in Threads
        /\ turn \in Threads /\ offset \in Threads
        /\ carry \in Nat /\ keyOf \in Seq(Keys \cup {NoKey}) /\ Len(keyOf) \in Nat
        /\ which \in Threads \cup {ANY} /\ gone \in SUBSET Threads
        /\ item \in [Threads -> Nat] /\ loop \in Loop
    BY KeysLen DEF TypeOK
  <1>a. ANY \notin Threads
    BY RingAssumption DEF ANY, Threads
  <1>r. conf.ring \in Nat
    BY RingAssumption DEF TypeOK
  <1>i. CarryInv /\ \A u \in Threads : AtInv(u) /\ RingInv(u)
    BY DEF HandoffInv
  <1>b. keyOf' = keyOf => \A t, n : Belongs(t, n)' <=> Belongs(t, n)
    BY DEF Belongs
  <1>1. ASSUME NEW t \in Threads, Pop(t)
        PROVE  CarryInv'
    <2>1. CASE ring[t] = << >>
      BY <1>t, <1>i, <1>b, <1>1, <2>1 DEF Pop, Goto
    <2>2. CASE ring[t] # << >>
      <3>1. Len(ring'[t]) <= Len(ring[t]) /\ \A u \in Threads \ {t} : ring'[u] = ring[u]
        BY <1>1, <1>i, <2>2, PopEffect
      <3>2. ring[t] \in Seq(Nat) /\ ring'[t] \in Seq(Nat)
        BY StepTypes DEF TypeOK
      <3>3. Len(ring'[t]) \in Nat /\ Len(ring[t]) \in Nat
        BY <3>2
      <3>4. Len(ring[t]) < conf.ring => Len(ring'[t]) < conf.ring
        BY <1>r, <3>1, <3>3
      <3>5. Len(ring[index]) < conf.ring => Len(ring'[index]) < conf.ring
        BY <1>t, <3>1, <3>4
      <3> QED BY <1>t, <1>i, <1>b, <1>1, <3>5 DEF Pop
    <2> QED BY <2>1, <2>2
  <1>2. ASSUME NEW t \in Threads, Count(t)
        PROVE  CarryInv'
    BY <1>t, <1>a, <1>i, <1>b, <1>2 DEF Count, Goto
  <1>3. ASSUME NEW t \in Threads, Freed(t)
        PROVE  CarryInv'
    BY <1>t, <1>a, <1>i, <1>b, <1>3 DEF Freed, Goto
  <1>4. ASSUME NEW t \in Threads, Claim(t)
        PROVE  CarryInv'
    BY <1>t, <1>a, <1>i, <1>b, <1>4 DEF Claim, Goto
  <1>5. ASSUME NEW t \in Threads, FreedWakes(t)
        PROVE  CarryInv'
    BY <1>t, <1>a, <1>i, <1>b, <1>5 DEF FreedWakes, WakeLoop, Goto
  <1>6. ASSUME NEW t \in Threads, Handle(t)
        PROVE  CarryInv'
    <2>1. Append(handled, item[t]) \in Seq(Nat)
      BY <1>t, <1>i
    <2> QED BY <1>t, <1>i, <1>b, <2>1, <1>6 DEF Handle
  <1>7. ASSUME NEW t \in Threads, CheckAbandoned(t)
        PROVE  CarryInv'
    BY <1>t, <1>a, <1>i, <1>b, <1>7 DEF CheckAbandoned, Goto
  <1>8. ASSUME NEW t \in Threads, LastLook(t)
        PROVE  CarryInv'
    <2>1. loop \in {"close", "done"}
      BY <1>8, <1>i DEF LastLook, AtInv
    <2> QED BY <1>t, <1>i, <1>b, <1>8, <2>1 DEF LastLook, Goto
  <1>9. ASSUME NEW t \in Threads, Leave(t)
        PROVE  CarryInv'
    BY <1>t, <1>a, <1>i, <1>b, <1>9 DEF Leave, Goto
  <1>10. ASSUME NEW t \in Threads, LeaveWakes(t)
         PROVE  CarryInv'
    BY <1>t, <1>a, <1>i, <1>b, <1>10 DEF LeaveWakes, WakeLoop, Goto
  <1>11. ASSUME NEW t \in Threads, Spin(t)
         PROVE  CarryInv'
    BY <1>t, <1>a, <1>i, <1>b, <1>11 DEF Spin, Goto
  <1>12. ASSUME NEW t \in Threads, Register(t)
         PROVE  CarryInv'
    BY <1>t, <1>a, <1>i, <1>b, <1>12 DEF Register, Goto
  <1>13. ASSUME NEW t \in Threads, Flag(t)
         PROVE  CarryInv'
    BY <1>t, <1>a, <1>i, <1>b, <1>13 DEF Flag, Goto
  <1>14. ASSUME NEW t \in Threads, Recheck(t)
         PROVE  CarryInv'
    BY <1>t, <1>a, <1>i, <1>b, <1>14 DEF Recheck, Arrived, Goto
  <1>15. ASSUME NEW t \in Threads, Resume(t)
         PROVE  CarryInv'
    BY <1>t, <1>a, <1>i, <1>b, <1>15 DEF Resume, Goto
  <1>16. ASSUME NEW t \in Threads, Die(t)
         PROVE  CarryInv'
    BY <1>t, <1>a, <1>i, <1>b, <1>16 DEF Die, Goto
  <1>17. ASSUME NEW t \in Threads, OpenFails(t)
         PROVE  CarryInv'
    BY <1>t, <1>a, <1>i, <1>b, <1>17 DEF OpenFails
  <1>18. ASSUME NEW t \in Threads, Open(t)
         PROVE  CarryInv'
    BY <1>t, <1>a, <1>i, <1>b, <1>18 DEF Open, Goto
  <1>19. ASSUME NEW k \in Keys \cup {NoKey}, Read(k)
         PROVE  CarryInv'
    <2>1. /\ keyOf' = Append(keyOf, k) /\ carry' = Len(keyOf) + 1 /\ loop' = "hand"
          /\ UNCHANGED <<abandoned, gone, handled, died>> /\ loop = "read"
          /\ index' = IF ~Keyed THEN index ELSE IF k = NoKey THEN turn ELSE KeyIndex[k]
          /\ (~Keyed => k = NoKey)
      BY <1>19 DEF Read
    <2>2. Len(keyOf') = Len(keyOf) + 1 /\ keyOf'[Len(keyOf) + 1] = k
      BY <1>t, <2>1
    <2>3. carry' # 0 /\ carry' = Len(keyOf')
      BY <1>t, <2>1, <2>2
    <2>4. Belongs(index, carry)'
      BY <2>1, <2>2 DEF Belongs
    <2> QED BY <1>i, <2>1, <2>3, <2>4
  <1>20. CASE Top
    BY <1>t, <1>a, <1>i, <1>b, <1>20 DEF Top, PollRoom
  <1>21. CASE RoomFound
    <2>1. PICK x \in Threads : x = Candidate
      <3>1. turn \in Nat /\ offset \in Nat
        BY <1>t, ThreadNumbers
      <3>2. turn + offset \in Nat
        BY <3>1
      <3> QED BY <1>t, <3>2, ModRange DEF Candidate
    <2>2. /\ loop \in {"pick", "repick"} /\ (x \in gone \/ Len(ring[x]) < conf.ring) /\ index' = x
          /\ loop' = IF x \in gone THEN "letgo" ELSE IF which = ANY THEN "read" ELSE "push"
          /\ UNCHANGED <<conf, ring, gone, carry, keyOf, handled, died, abandoned, which>>
      BY <1>21, <2>1 DEF RoomFound, Usable
    <2>3. which # ANY => x = which
      BY <2>1 DEF Candidate
    <2> QED BY <1>t, <1>a, <1>i, <1>b, <2>2, <2>3 DEF Belongs
  <1>22. CASE RoomFull
    BY <1>t, <1>a, <1>i, <1>b, <1>22 DEF RoomFull
  <1>23. CASE RegisterLoop
    BY <1>t, <1>a, <1>i, <1>b, <1>23 DEF RegisterLoop
  <1>24. CASE FlagLoop
    BY <1>t, <1>a, <1>i, <1>b, <1>24 DEF FlagLoop
  <1>25. CASE ResumeLoop
    BY <1>t, <1>a, <1>i, <1>b, <1>25 DEF ResumeLoop
  <1>26. CASE Hand
    BY <1>t, <1>a, <1>i, <1>b, <1>26 DEF Hand, PushTo
  <1>27. CASE Push
    BY <1>t, <1>a, <1>i, <1>b, <1>27 DEF Push, PollRoom, PushTo
  <1>28. CASE Pushed
    BY <1>t, <1>a, <1>i, <1>b, <1>28 DEF Pushed
  <1>29. CASE PushedWakes
    BY <1>t, <1>a, <1>i, <1>b, <1>29 DEF PushedWakes
  <1>30. CASE LetGo
    BY <1>t, <1>a, <1>i, <1>b, <1>30 DEF LetGo
  <1>31. CASE Close
    BY <1>t, <1>a, <1>i, <1>b, <1>31 DEF Close
  <1>32. CASE ReadFails
    BY <1>t, <1>a, <1>i, <1>b, <1>32 DEF ReadFails
  <1>33. CASE ReadStops("shutdown")
    BY <1>t, <1>a, <1>i, <1>b, <1>33 DEF ReadStops
  <1>34. CASE ReadStops("ended")
    BY <1>t, <1>a, <1>i, <1>b, <1>34 DEF ReadStops
  <1>35. CASE Cancel
    BY <1>t, <1>a, <1>i, <1>b, <1>35 DEF Cancel
  <1>36. CASE Done
    BY <1>t, <1>a, <1>i, <1>b, <1>36 DEF Done, vars
  <1>37. CASE \/ UNCHANGED vars
    BY <1>t, <1>a, <1>i, <1>b, <1>37 DEF vars
  <1> QED
    BY <1>1, <1>2, <1>3, <1>4, <1>5, <1>6, <1>7, <1>8, <1>9, <1>10, <1>11, <1>12, <1>13, <1>14,
       <1>15, <1>16, <1>17, <1>18, <1>19, <1>20, <1>21, <1>22, <1>23, <1>24, <1>25, <1>26,
       <1>27, <1>28, <1>29, <1>30, <1>31, <1>32, <1>33, <1>34, <1>35, <1>36, <1>37 DEF Next,
       DrainStep, FeedStep, StreamStep

LEMMA InitHandoff == Init => HandoffInv
  <1> SUFFICES ASSUME Init PROVE HandoffInv
    OBVIOUS
  <1>1. \A t \in Threads : ring[t] = << >> /\ item[t] = 0 /\ at[t] = "unopened"
    BY DEF Init
  <1>2. Len(<< >>) = 0 /\ << >> \in Seq(Nat) /\ Ring \in Nat
    BY RingAssumption DEF Init, Ring
  <1>3. \A t \in Threads : \A n : ~InRing(t, n)
    BY <1>1, <1>2 DEF InRing
  <1>4. \A t \in Threads : \A n : ~Holds(t, n)
    BY <1>1, <1>3 DEF Holds
  <1>5. ASSUME NEW t \in Threads PROVE AtInv(t) /\ RingInv(t)
    <2>1. Rising(ring[t])
      BY <1>1, <1>2 DEF Rising
    <2>2. Len(ring[t]) <= Ring
      BY <1>1, <1>2
    <2>3. RingInv(t)
      BY <1>3, <1>4, <2>1, <2>2 DEF RingInv
    <2> QED BY <1>1, <2>3 DEF AtInv, InHand, Init
  <1>6. CarryInv
    BY <1>2 DEF Init, CarryInv
  <1> QED BY <1>4, <1>5, <1>6 DEF HandoffInv, OneHolder

LEMMA HandoffInvariant == Safe => []HandoffInv
  <1>1. TypeOK /\ HandoffInv /\ [Next]_vars => HandoffInv'
    <2> SUFFICES ASSUME TypeOK, HandoffInv, [Next]_vars PROVE HandoffInv'
      OBVIOUS
    <2>1. ASSUME NEW u \in Threads PROVE AtInv(u)'
      BY StepAt DEF HandoffInv
    <2>2. \A u \in Threads : RingInv(u)'
      BY StepRing
    <2> QED BY <2>1, <2>2, StepOneHolder, StepCarry DEF HandoffInv
  <1> QED BY <1>1, InitHandoff, Types, PTL DEF Safe

-----------------------------------------------------------------------------
(* The refinement. *)

\* What waits and what runs, where the invariant holds.
WaitingIs ==
  \A n : n \in Waiting <=>
    n \in Nat \ {0} /\ (n = carry \/ \E t \in Threads \ gone : InRing(t, n))
RunningIs == \A n : n \in Running <=> n # 0 /\ \E t \in Threads : item[t] = n

LEMMA WaitingFact == TypeOK /\ HandoffInv => WaitingIs
  <1> SUFFICES ASSUME TypeOK, HandoffInv, NEW n
               PROVE  n \in Waiting <=>
                        n \in Nat \ {0} /\ (n = carry \/ \E t \in Threads \ gone : InRing(t, n))
    BY DEF WaitingIs
  <1>1. Len(keyOf) \in Nat /\ carry \in Nat
    BY KeysLen DEF TypeOK
  <1>2. ASSUME n \in Nat \ {0}, n = carry PROVE n \in 1 .. Len(keyOf)
    BY <1>1, <1>2 DEF HandoffInv, CarryInv
  <1>3. ASSUME n \in Nat \ {0}, NEW t \in Threads, InRing(t, n) PROVE n \in 1 .. Len(keyOf)
    <2>1. Holds(t, n)
      BY <1>3 DEF Holds
    <2>2. n <= Len(keyOf)
      BY <1>3, <2>1 DEF HandoffInv, RingInv
    <2> QED BY <1>1, <1>3, <2>2
  <1>4. n \in 1 .. Len(keyOf) => n \in Nat \ {0}
    BY <1>1
  <1> QED BY <1>2, <1>3, <1>4 DEF Waiting

LEMMA RunningFact == TypeOK => RunningIs
  <1>1. TypeOK => DOMAIN item = Threads
    BY DEF TypeOK
  <1> QED BY <1>1 DEF RunningIs, Running, Range

LEMMA FactsThen ==
  ASSUME TypeOK', HandoffInv'
  PROVE  WaitingIs' /\ RunningIs'
  <1>1. TypeOK' /\ HandoffInv' => WaitingIs'
    BY WaitingFact, PTL
  <1>2. TypeOK' => RunningIs'
    BY RunningFact, PTL
  <1> QED BY <1>1, <1>2

LEMMA Apart == TypeOK /\ HandoffInv => Waiting \cap Running = {}
  <1> SUFFICES ASSUME TypeOK, HandoffInv, NEW n \in Waiting, n \in Running PROVE FALSE
    OBVIOUS
  <1>1. n \in Nat \ {0} /\ (n = carry \/ \E t \in Threads \ gone : InRing(t, n))
    BY WaitingFact DEF WaitingIs
  <1>2. PICK t \in Threads : item[t] = n
    BY RunningFact DEF RunningIs
  <1>3. Holds(t, n) /\ n # carry
    <2>1. Holds(t, n)
      BY <1>1, <1>2 DEF Holds
    <2> QED BY <1>1, <2>1 DEF HandoffInv, RingInv
  <1>4. PICK u \in Threads : InRing(u, n)
    BY <1>1, <1>3
  <1>5. Holds(u, n)
    BY <1>1, <1>4 DEF Holds
  <1>6. u = t
    BY <1>1, <1>3, <1>5 DEF HandoffInv, OneHolder
  <1>7. item[t] < n
    BY <1>1, <1>4, <1>6 DEF HandoffInv, RingInv
  <1> QED BY <1>1, <1>2, <1>7

\* What is read and unfinished has an entry of a ring or a thread's hand to itself.
LEMMA RoomToRead ==
  ASSUME TypeOK, HandoffInv, loop = "read"
  PROVE  Cardinality(Waiting \cup Running) < Limit
  <1> DEFINE S == Waiting \cup Running
             T == Threads \X (0 .. Ring)
             Place(p, n) == \/ p[2] = 0 /\ item[p[1]] = n
                            \/ p[2] # 0 /\ p[2] <= Len(ring[p[1]]) /\ ring[p[1]][p[2]] = n
             Full == <<index, Ring>>
             U == IF Keyed THEN T ELSE T \ {Full}
             f == [n \in S |-> CHOOSE p \in U : Place(p, n)]
  <1>s. /\ ring \in [Threads -> Seq(Nat)] /\ index \in Threads
    BY DEF TypeOK
  <1>n. N \in Nat \ {0}
    BY RingAssumption
  <1>l. \A t \in Threads : Len(ring[t]) \in Nat
    BY <1>s
  <1>t. /\ ring \in [Threads -> Seq(Nat)] /\ index \in Threads /\ N \in Nat \ {0}
        /\ \A t \in Threads : Len(ring[t]) \in Nat
    BY <1>s, <1>n, <1>l
  <1>r. Ring \in Nat \ {0}
    BY RingAssumption DEF TypeOK, Ring
  <1>k. Keyed \in BOOLEAN
    BY RingAssumption DEF TypeOK, Keyed
  <1>i. CarryInv /\ \A t \in Threads : AtInv(t) /\ RingInv(t)
    BY DEF HandoffInv
  <1>1. ASSUME NEW n \in S PROVE \E p \in U : Place(p, n)
    <2>1. CASE n \in Running
      <3>1. PICK t \in Threads : item[t] = n
        BY <2>1, RunningFact DEF RunningIs
      <3>2. <<t, 0>> \in T /\ <<t, 0>>[1] = t /\ <<t, 0>>[2] = 0
        BY <1>r
      <3>3. <<t, 0>> # Full
        BY <1>r
      <3>4. <<t, 0>> \in U
        BY <3>2, <3>3
      <3>5. Place(<<t, 0>>, n)
        BY <3>1, <3>2
      <3> QED BY <3>4, <3>5
    <2>2. CASE n \in Waiting
      <3>1. n \in Nat \ {0} /\ carry = 0
        BY <1>i, <2>2, WaitingFact DEF WaitingIs, CarryInv
      <3>2. PICK t \in Threads : InRing(t, n)
        BY <2>2, <3>1, WaitingFact DEF WaitingIs
      <3>3. PICK i \in 1 .. Len(ring[t]) : ring[t][i] = n
        BY <3>2 DEF InRing
      <3>4. Len(ring[t]) \in Nat /\ Len(ring[t]) <= Ring
        BY <1>t, <1>i DEF RingInv
      <3>5. i \in 0 .. Ring /\ i # 0 /\ i <= Len(ring[t])
        BY <1>r, <3>4
      <3>6. <<t, i>> \in T /\ <<t, i>>[1] = t /\ <<t, i>>[2] = i
        BY <3>5
      <3>7. ~Keyed => <<t, i>> # Full
        <4> SUFFICES ASSUME ~Keyed, t = index, i = Ring PROVE FALSE
          OBVIOUS
        <4>1. Len(ring[t]) < Ring
          BY <1>i DEF CarryInv
        <4> QED BY <1>r, <3>4, <3>5, <4>1
      <3>8. <<t, i>> \in U
        BY <3>6, <3>7
      <3>9. Place(<<t, i>>, n)
        BY <3>3, <3>5, <3>6
      <3> QED BY <3>8, <3>9
    <2> QED BY <2>1, <2>2
  <1>2. \A p, m, n : Place(p, m) /\ Place(p, n) => m = n
    OBVIOUS
  <1> HIDE DEF Place
  <1>3. \A n \in S : f[n] \in U /\ Place(f[n], n)
    BY <1>1
  <1>4. f \in Injection(S, U)
    <2>1. f \in [S -> U]
      BY <1>1
    <2>2. \A m, n \in S : f[m] = f[n] => m = n
      BY <1>2, <1>3
    <2> QED BY <2>1, <2>2 DEF Injection, IsInjective
  <1> HIDE DEF f, S
  <1>5. IsFiniteSet(T) /\ Cardinality(T) = N * (1 + Ring)
    <2>1. IsFiniteSet(Threads) /\ Cardinality(Threads) = N
      <3>1. 0 \in Int /\ N - 1 \in Int /\ ~(0 > N - 1) /\ (N - 1) - 0 + 1 = N
        BY <1>t
      <3> QED BY <3>1, FS_Interval DEF Threads
    <2>2. IsFiniteSet(0 .. Ring) /\ Cardinality(0 .. Ring) = 1 + Ring
      <3>1. 0 \in Int /\ Ring \in Int /\ ~(0 > Ring) /\ Ring - 0 + 1 = 1 + Ring
        BY <1>r
      <3> QED BY <3>1, FS_Interval
    <2> QED BY <2>1, <2>2, FS_Product
  <1>6. Full \in T
    BY <1>t, <1>r
  <1> DEFINE L == N * (1 + Ring)
  <1>7. L \in Nat
    BY <1>t, <1>r
  <1>8. /\ IsFiniteSet(U)
        /\ Keyed => Cardinality(U) = L
        /\ ~Keyed => Cardinality(U) = L - 1
    BY <1>5, <1>6, FS_RemoveElement
  <1>9. IsFiniteSet(S) /\ Cardinality(S) <= Cardinality(U)
    BY <1>4, <1>8, FS_Injection
  <1>10. Cardinality(S) \in Nat
    BY <1>9, FS_CardinalityType
  <1>11. Limit = L + (IF Keyed THEN 1 ELSE 0)
    BY DEF Limit
  <1> HIDE DEF L, U, T
  <1>12. Cardinality(S) < Limit
    BY <1>k, <1>7, <1>8, <1>9, <1>10, <1>11
  <1> QED BY <1>12 DEF S

LEMMA SameCardinality == \A S : D!Cardinality(S) = Cardinality(S)
BY DEF D!Cardinality, Cardinality

\* A delivery goes only with what broke.
LEMMA DropStep ==
  ASSUME died' = TRUE, Waiting' \subseteq Waiting, Running' \subseteq Running,
         Waiting \cap Running = {}, UNCHANGED <<conf, keyOf, handled>>
  PROVE  D!Next
  <1> DEFINE lost == (Waiting \ Waiting') \cup (Running \ Running')
  <1>1. lost \in SUBSET (Waiting \cup Running)
    OBVIOUS
  <1>2. Waiting' = Waiting \ lost /\ Running' = Running \ lost
    OBVIOUS
  <1>3. Limit' = Limit /\ Range(handled)' = Range(handled)
    BY DEF Limit, Ring, Keyed, Range
  <1> HIDE DEF lost
  <1>4. D!Drop(lost)
    BY <1>2, <1>3 DEF D!Drop
  <1> QED BY <1>1, <1>4 DEF D!Next

LEMMA StutterStep ==
  ASSUME UNCHANGED <<conf, keyOf, Waiting, Running, handled, died>>
  PROVE  UNCHANGED D!vars
BY DEF D!vars, Limit, Ring, Keyed, Range

\* Pop: a handler starts, on a delivery that has none of its key before it.
LEMMA PopBegins ==
  ASSUME TypeOK, HandoffInv, TypeOK', HandoffInv', NEW t \in Threads, Pop(t), ring[t] # << >>
  PROVE  D!Next
  <1>i. OneHolder /\ CarryInv /\ \A u \in Threads : AtInv(u) /\ RingInv(u)
    BY DEF HandoffInv
  <1>f. WaitingIs /\ WaitingIs' /\ RunningIs /\ RunningIs'
    BY WaitingFact, RunningFact, FactsThen
  <1>t. item \in [Threads -> Nat] /\ carry \in Nat /\ Len(keyOf) \in Nat
    BY KeysLen DEF TypeOK
  <1>1. PICK n \in Nat :
           /\ n # 0 /\ InRing(t, n) /\ item[t] = 0
           /\ item' = [item EXCEPT ![t] = n]
           /\ \A m \in Nat : InRing(t, m)' <=> InRing(t, m) /\ m # n
           /\ \A m \in Nat : InRing(t, m)' => n < m
           /\ \A u \in Threads \ {t} : \A m \in Nat : InRing(u, m)' <=> InRing(u, m)
           /\ UNCHANGED <<conf, keyOf, carry, gone, handled, died>>
    BY <1>i, PopEffect
  <1>2. Holds(t, n) /\ t \notin gone /\ n # carry /\ n <= Len(keyOf)
    <2>1. Holds(t, n)
      BY <1>1 DEF Holds
    <2>2. t \notin gone
      BY <1>i DEF AtInv, Pop
    <2> QED BY <1>1, <1>i, <2>1, <2>2 DEF RingInv
  <1>3. \A u \in Threads : InRing(u, n) => u = t
    <2> SUFFICES ASSUME NEW u \in Threads, InRing(u, n) PROVE u = t
      OBVIOUS
    <2>1. Holds(u, n)
      BY <1>1 DEF Holds
    <2> QED BY <1>1, <1>2, <1>i, <2>1 DEF OneHolder
  <1>4. n \in Waiting
    BY <1>1, <1>2, <1>f DEF WaitingIs
  <1>5. Waiting' = Waiting \ {n}
    <2>1. ASSUME NEW m \in Nat, m # n
          PROVE  (\E u \in Threads \ gone : InRing(u, m)')
                 <=> \E u \in Threads \ gone : InRing(u, m)
      <3>1. \A u \in Threads : InRing(u, m)' <=> InRing(u, m)
        BY <1>1, <2>1
      <3> QED BY <3>1
    <2>2. \A u \in Threads : ~InRing(u, n)'
      BY <1>1, <1>3
    <2>3. ASSUME NEW m PROVE m \in Waiting' <=> m \in Waiting /\ m # n
      <3>1. m \in Waiting' <=>
              m \in Nat \ {0} /\ (m = carry \/ \E u \in Threads \ gone : InRing(u, m)')
        BY <1>1, <1>f DEF WaitingIs
      <3>2. m \in Waiting <=>
              m \in Nat \ {0} /\ (m = carry \/ \E u \in Threads \ gone : InRing(u, m))
        BY <1>f DEF WaitingIs
      <3>3. CASE m = n
        BY <1>2, <2>2, <3>1, <3>3
      <3>4. CASE m # n
        BY <2>1, <3>1, <3>2, <3>4
      <3> QED BY <3>3, <3>4
    <2> QED BY <2>3
  <1>6. Running' = Running \cup {n}
    <2>1. item'[t] = n /\ \A u \in Threads \ {t} : item'[u] = item[u]
      BY <1>t, <1>1
    <2>2. ASSUME NEW m PROVE m \in Running' <=> m \in Running \/ m = n
      <3>1. m \in Running' <=> m # 0 /\ \E u \in Threads : item'[u] = m
        BY <1>f DEF RunningIs
      <3>2. m \in Running <=> m # 0 /\ \E u \in Threads : item[u] = m
        BY <1>f DEF RunningIs
      <3> QED BY <1>1, <2>1, <3>1, <3>2
    <2> QED BY <2>2
  <1>7. ASSUME keyOf[n] # NoKey, NEW m \in 1 .. n - 1, keyOf[m] = keyOf[n],
               m \in Waiting \/ m \in Running
        PROVE  FALSE
    <2>0. m \in Nat \ {0} /\ m < n /\ m # carry
      <3>1. carry # 0 => carry = Len(keyOf)
        BY <1>i DEF CarryInv
      <3> QED BY <1>t, <1>2, <1>7, <3>1
    <2>1. PICK u \in Threads : Holds(u, m)
      BY <1>7, <1>f, <2>0 DEF WaitingIs, RunningIs, Holds
    <2>2. u = t
      <3>1. Belongs(u, m) /\ Belongs(t, n)
        BY <1>1, <1>2, <1>i, <2>0, <2>1 DEF RingInv
      <3> QED BY <1>7, <3>1 DEF Belongs
    <2>3. InRing(t, m)
      BY <1>1, <2>0, <2>1, <2>2 DEF Holds
    <2>4. n < m
      BY <1>1, <2>0, <2>3
    <2> QED BY <2>0, <2>4
  <1>8. keyOf[n] # NoKey => D!Ahead(n) \cap (Waiting \cup Running) = {}
    BY <1>7 DEF D!Ahead
  <1>9. Limit' = Limit /\ Range(handled)' = Range(handled)
    BY <1>1 DEF Limit, Ring, Keyed, Range
  <1>10. D!Begin(n)
    BY <1>1, <1>4, <1>5, <1>6, <1>8, <1>9 DEF D!Begin
  <1> QED BY <1>4, <1>10 DEF D!Next

LEMMA AppendRange ==
  ASSUME NEW s \in Seq(Nat), NEW n \in Nat
  PROVE  Range(Append(s, n)) = Range(s) \cup {n}
<1> DEFINE q == Append(s, n)  l == Len(s)
<1>1. /\ DOMAIN q = 1 .. l + 1 /\ DOMAIN s = 1 .. l /\ l \in Nat
      /\ \A i \in 1 .. l : q[i] = s[i]
      /\ q[l + 1] = n
  OBVIOUS
<1> HIDE DEF q, l
<1>2. 1 .. l + 1 = (1 .. l) \cup {l + 1}
  BY <1>1
<1>3. Range(q) = Range(s) \cup {n}
  BY <1>1, <1>2 DEF Range
<1> QED BY <1>3 DEF q

\* Handle: it finishes.
LEMMA HandleFinishes ==
  ASSUME TypeOK, HandoffInv, TypeOK', HandoffInv', NEW t \in Threads, Handle(t)
  PROVE  D!Next
  <1>i. OneHolder /\ CarryInv /\ \A u \in Threads : AtInv(u) /\ RingInv(u)
    BY DEF HandoffInv
  <1>f. RunningIs /\ RunningIs'
    BY RunningFact, FactsThen
  <1>t. item \in [Threads -> Nat]
    BY DEF TypeOK
  <1>1. PICK n \in Nat : n = item[t]
    BY <1>t
  <1>2. /\ n # 0 /\ item' = [item EXCEPT ![t] = 0] /\ handled' = Append(handled, n)
        /\ UNCHANGED <<conf, ring, gone, carry, keyOf, died>>
    BY <1>i, <1>1 DEF Handle, AtInv, InHand, ringVars, loopVars
  <1>3. n \in Running
    BY <1>1, <1>2, <1>f DEF RunningIs
  <1>4. ASSUME NEW u \in Threads, item[u] = n PROVE u = t
    <2>1. Holds(u, n) /\ Holds(t, n)
      BY <1>1, <1>2, <1>4 DEF Holds
    <2> QED BY <1>i, <2>1 DEF OneHolder
  <1>5. Running' = Running \ {n}
    <2>1. item'[t] = 0 /\ \A u \in Threads \ {t} : item'[u] = item[u]
      BY <1>t, <1>2
    <2>2. ASSUME NEW m PROVE m \in Running' <=> m \in Running /\ m # n
      <3>1. m \in Running' <=> m # 0 /\ \E u \in Threads : item'[u] = m
        BY <1>f DEF RunningIs
      <3>2. m \in Running <=> m # 0 /\ \E u \in Threads : item[u] = m
        BY <1>f DEF RunningIs
      <3> QED BY <1>1, <1>4, <2>1, <3>1, <3>2
    <2> QED BY <2>2
  <1>6. Waiting' = Waiting /\ Limit' = Limit
    BY <1>2 DEF Waiting, InRing, Limit, Ring, Keyed
  <1>7. Range(handled)' = Range(handled) \cup {n}
    <2>1. handled \in Seq(Nat)
      BY <1>i DEF CarryInv
    <2>2. Range(handled)' = Range(Append(handled, n))
      BY <1>2 DEF Range
    <2> QED BY <2>1, <2>2, AppendRange
  <1>8. D!Finish(n)
    BY <1>2, <1>3, <1>5, <1>6, <1>7 DEF D!Finish
  <1> QED BY <1>3, <1>8 DEF D!Next

\* Read: the loop takes a delivery, within the limit.
LEMMA ReadTakes ==
  ASSUME TypeOK, HandoffInv, TypeOK', HandoffInv', NEW k \in Keys \cup {NoKey}, Read(k)
  PROVE  D!Next
  <1>f. WaitingIs /\ WaitingIs'
    BY WaitingFact, FactsThen
  <1>t. Len(keyOf) \in Nat
    BY KeysLen
  <1>1. /\ loop = "read" /\ keyOf' = Append(keyOf, k) /\ carry' = Len(keyOf) + 1
        /\ UNCHANGED <<conf, ring, gone, item, handled, died>>
    BY DEF Read, ringVars, drainVars
  <1>2. carry = 0
    BY <1>1 DEF HandoffInv, CarryInv
  <1>3. \A u, n : InRing(u, n)' <=> InRing(u, n)
    BY <1>1, SameRings
  <1>4. Waiting' = Waiting \cup {Len(keyOf) + 1}
    <2>1. ASSUME NEW m PROVE m \in Waiting' <=> m \in Waiting \/ m = Len(keyOf) + 1
      <3>1. m \in Waiting' <=>
              m \in Nat \ {0} /\ (m = Len(keyOf) + 1 \/ \E u \in Threads \ gone : InRing(u, m))
        BY <1>1, <1>3, <1>f DEF WaitingIs
      <3>2. m \in Waiting <=>
              m \in Nat \ {0} /\ \E u \in Threads \ gone : InRing(u, m)
        BY <1>2, <1>f DEF WaitingIs
      <3>3. m = Len(keyOf) + 1 => m \in Nat \ {0}
        BY <1>t
      <3> QED BY <3>1, <3>2, <3>3
    <2> QED BY <2>1
  <1>5. Running' = Running /\ Limit' = Limit /\ Range(handled)' = Range(handled)
    BY <1>1 DEF Running, Limit, Ring, Keyed, Range
  <1>6. D!Cardinality(Waiting \cup Running) < Limit
    BY <1>1, RoomToRead, SameCardinality
  <1>7. D!Take(k)
    BY <1>1, <1>4, <1>5, <1>6 DEF D!Take
  <1> QED BY <1>7 DEF D!Next

\* A push puts the delivery where it keeps waiting, unless the thread of the ring died.
LEMMA PushKeeps ==
  ASSUME TypeOK, HandoffInv, TypeOK', HandoffInv', Hand \/ Push, PushTo
  PROVE  [D!Next]_(D!vars)
  <1>i. OneHolder /\ CarryInv /\ \A u \in Threads : AtInv(u) /\ RingInv(u)
    BY DEF HandoffInv
  <1>f. WaitingIs /\ WaitingIs'
    BY WaitingFact, FactsThen
  <1>1. /\ loop \in {"hand", "push"} /\ carry' = 0
        /\ UNCHANGED <<conf, gone, item, keyOf, handled, died>>
    BY DEF Hand, Push, PushTo, drainVars, history
  <1>2. carry # 0
    BY <1>1, <1>i DEF CarryInv
  <1>3. PICK x \in Threads, c \in Nat : x = index /\ c = carry
    BY DEF TypeOK
  <1>4. /\ \A m \in Nat : InRing(x, m)' <=> InRing(x, m) \/ m = c
        /\ \A u \in Threads \ {x} : \A m \in Nat : InRing(u, m)' <=> InRing(u, m)
    BY <1>i, <1>2, <1>3, PushEffect
  <1>5. Running' = Running
    BY <1>1 DEF Running
  <1>6. CASE x \notin gone
    <2>1. ASSUME NEW m PROVE m \in Waiting' <=> m \in Waiting
      <3>1. m \in Waiting' <=> m \in Nat \ {0} /\ (m = 0 \/ \E u \in Threads \ gone : InRing(u, m)')
        BY <1>1, <1>f DEF WaitingIs
      <3>2. m \in Waiting <=>
              m \in Nat \ {0} /\ (m = c \/ \E u \in Threads \ gone : InRing(u, m))
        BY <1>3, <1>f DEF WaitingIs
      <3>3. m \in Nat => ((\E u \in Threads \ gone : InRing(u, m)') <=>
                            (m = c \/ \E u \in Threads \ gone : InRing(u, m)))
        BY <1>4, <1>6
      <3> QED BY <3>1, <3>2, <3>3
    <2>2. Waiting' = Waiting
      BY <2>1
    <2> QED BY <1>1, <1>5, <2>2, StutterStep
  <1>7. CASE x \in gone
    <2>1. died' = TRUE
      BY <1>1, <1>7, <1>i DEF CarryInv
    <2>2. Waiting' \subseteq Waiting
      <3>1. ASSUME NEW m \in Waiting' PROVE m \in Waiting
        <4>1. m \in Nat \ {0} /\ \E u \in Threads \ gone : InRing(u, m)'
          BY <1>1, <1>f DEF WaitingIs
        <4>2. \E u \in Threads \ gone : InRing(u, m)
          BY <1>4, <1>7, <4>1
        <4> QED BY <1>f, <4>1, <4>2 DEF WaitingIs
      <3> QED BY <3>1
    <2> QED BY <1>1, <1>5, <2>1, <2>2, Apart, DropStep
  <1> QED BY <1>6, <1>7

LEMMA DieDrops ==
  ASSUME TypeOK, HandoffInv, NEW t \in Threads, Die(t)
  PROVE  D!Next
  <1>1. /\ item' = [item EXCEPT ![t] = 0] /\ gone' = gone \cup {t} /\ died' = TRUE
        /\ UNCHANGED <<conf, ring, carry, keyOf, handled>>
    BY DEF Die, loopVars
  <1>2. Waiting' \subseteq Waiting
    BY <1>1 DEF Waiting, InRing
  <1>3. Running' \subseteq Running
    <2>1. item \in [Threads -> Nat]
      BY DEF TypeOK
    <2>2. \A u \in Threads : item'[u] = 0 \/ item'[u] = item[u]
      BY <1>1, <2>1
    <2>3. DOMAIN item' = Threads /\ DOMAIN item = Threads
      BY <1>1, <2>1
    <2> QED BY <2>2, <2>3 DEF Running, Range
  <1> QED BY <1>1, <1>2, <1>3, Apart, DropStep

\* LastLook, OpenFails and LetGo: a thread that finds its ring empty, or that never started, and
\* the loop's end take nothing along, unless a thread died.
LEMMA EndsKeep ==
  ASSUME TypeOK, HandoffInv, TypeOK', HandoffInv',
         LetGo \/ \E t \in Threads : LastLook(t) \/ OpenFails(t)
  PROVE  [D!Next]_(D!vars)
  <1>c. CarryInv
    BY DEF HandoffInv
  <1>1. ASSUME NEW t \in Threads, LastLook(t) PROVE UNCHANGED D!vars
    <2>1. /\ UNCHANGED <<conf, ring, carry, keyOf, item, handled, died>>
          /\ gone' = gone \/ (gone' = gone \cup {t} /\ ring[t] = << >>)
      BY <1>1 DEF LastLook, loopVars, history
    <2>2. ring[t] = << >> => \A n : ~InRing(t, n)
      <3>1. Len(<< >>) = 0
        OBVIOUS
      <3> QED BY <3>1 DEF InRing
    <2>3. Waiting' = Waiting
      <3>1. CASE gone' = gone
        BY <2>1, <3>1 DEF Waiting, InRing
      <3>2. CASE gone' = gone \cup {t} /\ ring[t] = << >>
        <4>1. \A u, n : InRing(u, n)' <=> InRing(u, n)
          BY <2>1, SameRings
        <4>2. \A n : (\E u \in Threads \ gone' : InRing(u, n)') <=>
                       \E u \in Threads \ gone : InRing(u, n)
          BY <2>2, <3>2, <4>1
        <4> QED BY <2>1, <4>2 DEF Waiting
      <3> QED BY <2>1, <3>1, <3>2
    <2>4. Running' = Running
      BY <2>1 DEF Running
    <2> QED BY <2>1, <2>3, <2>4, StutterStep
  <1>2. ASSUME NEW t \in Threads, OpenFails(t) PROVE UNCHANGED D!vars
    <2>1. UNCHANGED <<conf, ring, carry, keyOf, item, handled, died>> /\ loop = "open"
      BY <1>2 DEF OpenFails, history
    <2>2. Waiting = {} /\ Waiting' = {}
      <3>1. keyOf = << >> /\ keyOf' = << >>
        BY <1>c, <2>1 DEF CarryInv
      <3>2. Len(keyOf) = 0 /\ Len(keyOf') = 0
        BY <3>1
      <3>3. 1 .. 0 = {}
        OBVIOUS
      <3> QED BY <3>2, <3>3 DEF Waiting
    <2>3. Running' = Running
      BY <2>1 DEF Running
    <2> QED BY <2>1, <2>2, <2>3, StutterStep
  <1>3. CASE LetGo
    <2>1. UNCHANGED <<conf, ring, gone, keyOf, item, handled, died>> /\ carry' = 0
          /\ loop = "letgo"
      BY <1>3 DEF LetGo, drainVars, history
    <2>2. Running' = Running
      BY <2>1 DEF Running
    <2>3. CASE carry = 0
      <3>1. Waiting' = Waiting
        BY <2>1, <2>3 DEF Waiting, InRing
      <3> QED BY <2>1, <2>2, <3>1, StutterStep
    <2>4. CASE carry # 0
      <3>1. died' = TRUE
        BY <1>c, <2>1, <2>4 DEF CarryInv
      <3>2. Waiting' \subseteq Waiting
        <4>1. 0 \notin 1 .. Len(keyOf)
          OBVIOUS
        <4>2. \A u, n : InRing(u, n)' <=> InRing(u, n)
          BY <2>1, SameRings
        <4> QED BY <2>1, <4>1, <4>2 DEF Waiting
      <3> QED BY <2>1, <2>2, <3>1, <3>2, Apart, DropStep
    <2> QED BY <2>3, <2>4
  <1> QED BY <1>1, <1>2, <1>3

LEMMA QuietStep ==
  ASSUME UNCHANGED <<conf, ring, gone, carry, item, keyOf, handled, died>>
  PROVE  UNCHANGED D!vars
  <1>1. Waiting' = Waiting /\ Running' = Running
    BY DEF Waiting, InRing, Running
  <1> QED BY <1>1, StutterStep

\* Every step of the hand-off is a step of the dispatch, or none.
LEMMA Simulates ==
  ASSUME TypeOK, HandoffInv, TypeOK', HandoffInv', [Next]_vars
  PROVE  [D!Next]_(D!vars)
  <1> USE DEF ringVars, threadVars, drainVars, loopVars, roomVars, history
  <1>1. ASSUME NEW t \in Threads, Pop(t)
        PROVE  [D!Next]_(D!vars)
    <2>1. CASE ring[t] # << >>
      BY <1>1, <2>1, PopBegins
    <2>2. CASE ring[t] = << >>
      <3>1. UNCHANGED <<conf, ring, gone, carry, item, keyOf, handled, died>>
        BY <1>1, <2>2 DEF Pop
      <3> QED BY <3>1, QuietStep
    <2> QED BY <2>1, <2>2
  <1>2. ASSUME NEW t \in Threads, Handle(t)
        PROVE  [D!Next]_(D!vars)
    BY <1>2, HandleFinishes
  <1>3. ASSUME NEW t \in Threads, LastLook(t)
        PROVE  [D!Next]_(D!vars)
    BY <1>3, EndsKeep
  <1>4. ASSUME NEW t \in Threads, Die(t)
        PROVE  [D!Next]_(D!vars)
    BY <1>4, DieDrops
  <1>5. ASSUME NEW t \in Threads, OpenFails(t)
        PROVE  [D!Next]_(D!vars)
    BY <1>5, EndsKeep
  <1>6. ASSUME NEW k \in Keys \cup {NoKey}, Read(k)
        PROVE  [D!Next]_(D!vars)
    BY <1>6, ReadTakes
  <1>7. CASE Hand
    <2>1. CASE PushTo
      BY <1>7, <2>1, PushKeeps
    <2>2. CASE ~PushTo
      <3>1. UNCHANGED <<conf, ring, gone, carry, item, keyOf, handled, died>>
        BY <1>7, <2>2 DEF Hand
      <3> QED BY <3>1, QuietStep
    <2> QED BY <2>1, <2>2
  <1>8. CASE Push
    <2>1. CASE PushTo
      BY <1>8, <2>1, PushKeeps
    <2>2. CASE ~PushTo
      <3>1. UNCHANGED <<conf, ring, gone, carry, item, keyOf, handled, died>>
        BY <1>8, <2>2 DEF Push
      <3> QED BY <3>1, QuietStep
    <2> QED BY <2>1, <2>2
  <1>9. CASE LetGo
    BY <1>9, EndsKeep
  <1>10. ASSUME NEW t \in Threads,
                Count(t) \/ Freed(t) \/ Claim(t) \/ FreedWakes(t) \/
                CheckAbandoned(t) \/ Leave(t) \/ LeaveWakes(t) \/ Spin(t) \/
                Register(t) \/ Flag(t) \/ Recheck(t) \/ Resume(t) \/ Open(t)
         PROVE  [D!Next]_(D!vars)
    <2>1. UNCHANGED <<conf, ring, gone, carry, item, keyOf, handled, died>>
      BY <1>10 DEF Count, Freed, Claim, FreedWakes, CheckAbandoned, Leave, LeaveWakes, Spin,
         Register, Flag, Recheck, Resume, Open, Goto, WakeLoop, Arrived
    <2> QED BY <2>1, QuietStep
  <1>11. CASE \/ Top \/ RoomFound \/ RoomFull \/ RegisterLoop \/ FlagLoop \/ ResumeLoop \/ Pushed
              \/ PushedWakes \/ Close \/ ReadFails \/ ReadStops("shutdown") \/ ReadStops("ended")
              \/ Cancel \/ Done \/ UNCHANGED vars
    <2>1. UNCHANGED <<conf, ring, gone, carry, item, keyOf, handled, died>>
      BY <1>11 DEF Top, RoomFound, RoomFull, RegisterLoop, FlagLoop, ResumeLoop, Pushed,
         PushedWakes, Close, ReadFails, ReadStops, Cancel, Done, PollRoom, vars
    <2> QED BY <2>1, QuietStep
  <1> QED
    BY <1>1, <1>2, <1>3, <1>4, <1>5, <1>6, <1>7, <1>8, <1>9, <1>10, <1>11 DEF Next, DrainStep,
       FeedStep, StreamStep

\* The ring hand-off implements Dispatch, for any number of threads, any ring size and any keys:
\* nothing read is started twice or dropped while no thread died, the deliveries of a key run one
\* after another in reading order, and the loop reads no further ahead than rings and hands hold.
THEOREM RingsDispatch == Safe => ImplementsDispatch
  <1>1. Init => D!Init
    <2> SUFFICES ASSUME Init PROVE D!Init
      OBVIOUS
    <2>1. Limit \in Nat
      <3>1. N \in Nat /\ Ring \in Nat
        BY RingAssumption DEF Init, Ring
      <3>2. N * (1 + Ring) \in Nat
        BY <3>1
      <3> QED BY <3>2 DEF Limit
    <2>2. Waiting = {}
      <3>1. Len(keyOf) = 0 /\ 1 .. 0 = {}
        BY DEF Init
      <3> QED BY <3>1 DEF Waiting
    <2>3. Running = {} /\ Range(handled) = {}
      BY DEF Init, Running, Range
    <2> QED BY <2>1, <2>2, <2>3 DEF Init, D!Init
  <1>2. TypeOK /\ HandoffInv /\ TypeOK' /\ HandoffInv' /\ [Next]_vars => [D!Next]_(D!vars)
    BY Simulates
  <1> QED BY <1>1, <1>2, Types, HandoffInvariant, PTL DEF Safe, ImplementsDispatch, D!Spec
=============================================================================
