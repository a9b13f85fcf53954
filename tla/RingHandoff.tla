----------------------------- MODULE RingHandoff -----------------------------
(***************************************************************************)
(* The ring hand-off of a threads(n) subscription                          *)
(* (crates/runtime/src/dispatch/rings.rs): one loop reads the stream and   *)
(* pushes each delivery to one of N bounded rings; behind each ring a      *)
(* thread pops and handles.  Neither side takes a lock: a thread parks on  *)
(* its empty ring behind a flag the loop reads after a push, the loop      *)
(* waits for room behind a word the threads read after a pop.              *)
(*                                                                         *)
(* Every atomic operation is a step of its own, in the order the code      *)
(* issues them.  The model is sequentially consistent: each flag store and *)
(* ring load of the handshakes has a SeqCst fence between them in the      *)
(* code.  Where two operations are one step, the second is the only one    *)
(* another thread can tell.  A delivery is its number in reading order.    *)
(***************************************************************************)
EXTENDS Integers, Sequences, FiniteSets, Functions

CONSTANTS
  N,         \* the threads, and rings, of the subscription
  Confs,     \* the subscriptions considered: [keyed, ring, items]
  Keys,      \* the partition keys
  NoKey,     \* a delivery without a key
  KeyIndex   \* key_index: the ring of each key (external: DefaultHasher)

Threads == 0 .. N - 1
ANY == N + 1

ASSUME RingAssumption ==
  /\ N \in Nat \ {0}
  /\ Confs \subseteq [keyed : BOOLEAN, ring : Nat \ {0}, items : Nat]
  /\ NoKey \notin Keys
  /\ KeyIndex \in [Keys -> Threads]

VARIABLES
  conf,         \* the subscription, never changed
  ring,         \* per ring: the deliveries it holds
  abandoned,    \* the loop dropped the producers
  gone,         \* threads whose consumer is dropped
  parked,       \* Signals::parked
  armed,        \* Signals::wakers[i] holds the thread's waker
  woken,        \* the thread's task is scheduled again
  at,           \* where each thread is in Drain::work
  item,         \* the delivery a thread has in hand, or 0
  held,         \* ring.slots() as a thread read it, until freed has used it
  saw,          \* loop_waiting as a thread read it, until freed has used it
  loop,         \* where the loop is in Feed::read
  which,        \* what the loop waits on: a ring, or ANY
  offset,       \* how far poll_room has looked, from the ring in turn
  turn,         \* the next ring in turn
  index,        \* the ring picked for the next delivery
  carry,        \* the delivery the loop has in hand, or 0
  loop_waiting, \* Signals::loop_waiting: 0, a ring plus one, or ANY
  loop_armed,   \* Signals::loop_waker holds the loop's waker
  loop_woken,   \* the loop's task is scheduled again
  cancelled,    \* shutdown
  \* History, for the properties only.
  keyOf,        \* the key of each delivery read
  handled,      \* the deliveries handled, in the order their handlers finished
  died          \* a thread's work ended early

Keyed == conf.keyed  \* by_key: a delivery's key fixes its ring
Ring == conf.ring    \* RING: the entries of each ring

ringVars   == <<conf, ring, abandoned, gone>>
threadVars == <<parked, armed, woken>>
drainVars  == <<at, item, held, saw>>
loopVars   == <<loop, which, offset, turn, index, carry>>
roomVars   == <<loop_waiting, loop_armed, loop_woken>>
history    == <<keyOf, handled, died>>
vars == <<conf, ring, abandoned, gone, parked, armed, woken, at, item, held, saw,
          loop, which, offset, turn, index, carry, loop_waiting, loop_armed, loop_woken,
          cancelled, keyOf, handled, died>>

Init ==
  /\ conf \in Confs
  /\ ring = [t \in Threads |-> << >>] /\ abandoned = FALSE /\ gone = {}
  /\ parked = [t \in Threads |-> FALSE]
  /\ armed = [t \in Threads |-> FALSE]
  /\ woken = [t \in Threads |-> FALSE]
  /\ at = [t \in Threads |-> "unopened"]
  /\ item = [t \in Threads |-> 0]
  /\ held = [t \in Threads |-> 0]
  /\ saw = [t \in Threads |-> 0]
  /\ loop = "open" /\ which = ANY /\ offset = 0 /\ turn = 0 /\ index = 0 /\ carry = 0
  /\ loop_waiting = 0 /\ loop_armed = FALSE /\ loop_woken = FALSE
  /\ cancelled = FALSE
  /\ keyOf = << >> /\ handled = << >> /\ died = FALSE

Goto(t, there) == at' = [at EXCEPT ![t] = there]

-----------------------------------------------------------------------------
(* Drain::work, one thread. *)

\* ring.pop()
Pop(t) ==
  /\ at[t] = "look"
  /\ IF ring[t] = << >>
     THEN Goto(t, "empty") /\ UNCHANGED <<ring, item>>
     ELSE /\ item' = [item EXCEPT ![t] = Head(ring[t])]
          /\ ring' = [ring EXCEPT ![t] = Tail(@)]
          /\ Goto(t, "popped")
  /\ UNCHANGED <<conf, abandoned, gone, threadVars, held, saw, loopVars, roomVars, cancelled, history>>

\* ring.slots(), read before the fence of freed.
Count(t) ==
  /\ at[t] = "popped"
  /\ held' = [held EXCEPT ![t] = Len(ring[t])]
  /\ Goto(t, "counted")
  /\ UNCHANGED <<ringVars, threadVars, item, saw, loopVars, roomVars, cancelled, history>>

\* Signals::freed: whether the loop waits on this ring, or on any and this one is half empty.
WakesLoop(t) == loop_waiting = t + 1 \/ (loop_waiting = ANY /\ held[t] <= Ring \div 2)

Freed(t) ==
  /\ at[t] = "counted"
  /\ saw' = [saw EXCEPT ![t] = IF WakesLoop(t) THEN loop_waiting ELSE 0]
  /\ held' = [held EXCEPT ![t] = 0]
  /\ Goto(t, IF WakesLoop(t) THEN "seen" ELSE "handle")
  /\ UNCHANGED <<ringVars, threadVars, item, loopVars, roomVars, cancelled, history>>

\* The compare-exchange of freed: of the threads that saw the loop wait, one wakes it.
Claim(t) ==
  /\ at[t] = "seen"
  /\ IF loop_waiting = saw[t]
     THEN loop_waiting' = 0 /\ Goto(t, "wakeloop")
     ELSE UNCHANGED loop_waiting /\ Goto(t, "handle")
  /\ saw' = [saw EXCEPT ![t] = 0]
  /\ UNCHANGED <<ringVars, threadVars, item, held, loopVars, loop_armed, loop_woken,
                 cancelled, history>>

WakeLoop ==
  /\ loop_woken' = (loop_woken \/ loop_armed)
  /\ loop_armed' = FALSE

FreedWakes(t) ==
  /\ at[t] = "wakeloop"
  /\ WakeLoop
  /\ Goto(t, "handle")
  /\ UNCHANGED <<ringVars, threadVars, item, held, saw, loopVars, loop_waiting, cancelled,
                 history>>

Handle(t) ==
  /\ at[t] = "handle"
  /\ handled' = Append(handled, item[t])
  /\ item' = [item EXCEPT ![t] = 0]
  /\ Goto(t, "look")
  /\ UNCHANGED <<ringVars, threadVars, held, saw, loopVars, roomVars, cancelled, keyOf, died>>

\* A panic outside the handler's own catch: the consumer is dropped before the Leaving guard.
Die(t) ==
  /\ at[t] = "handle"
  /\ item' = [item EXCEPT ![t] = 0]
  /\ gone' = gone \cup {t}
  /\ died' = TRUE
  /\ Goto(t, "leaving")
  /\ UNCHANGED <<conf, ring, abandoned, threadVars, held, saw, loopVars, roomVars, cancelled,
                 keyOf, handled>>

\* The ring was found empty: is the producer gone?
CheckAbandoned(t) ==
  /\ at[t] = "empty"
  /\ Goto(t, IF abandoned THEN "last" ELSE "spin")
  /\ UNCHANGED <<ringVars, threadVars, item, held, saw, loopVars, roomVars, cancelled, history>>

\* An abandoned ring is looked at once more before the work ends.
LastLook(t) ==
  /\ at[t] = "last"
  /\ IF ring[t] = << >>
     THEN gone' = gone \cup {t} /\ Goto(t, "leaving")
     ELSE UNCHANGED gone /\ Goto(t, "look")
  /\ UNCHANGED <<conf, ring, abandoned, threadVars, item, held, saw, loopVars, roomVars, cancelled,
                 history>>

\* Leaving::drop: the loop stops waiting, whatever it waits on, and is woken.
Leave(t) ==
  /\ at[t] = "leaving"
  /\ loop_waiting' = 0
  /\ Goto(t, "left")
  /\ UNCHANGED <<ringVars, threadVars, item, held, saw, loopVars, loop_armed, loop_woken,
                 cancelled, history>>

LeaveWakes(t) ==
  /\ at[t] = "left"
  /\ WakeLoop
  /\ Goto(t, "ended")
  /\ UNCHANGED <<ringVars, threadVars, item, held, saw, loopVars, loop_waiting, cancelled,
                 history>>

Arrived(t) == ring[t] # << >> \/ abandoned

\* arrives: the last look of the spin before the thread parks.
Spin(t) ==
  /\ at[t] = "spin"
  /\ Goto(t, IF Arrived(t) THEN "look" ELSE "register")
  /\ UNCHANGED <<ringVars, threadVars, item, held, saw, loopVars, roomVars, cancelled, history>>

\* One poll of the park: register the waker, raise the flag, look again, and only then wait.
Register(t) ==
  /\ at[t] = "register"
  /\ armed' = [armed EXCEPT ![t] = TRUE]
  /\ Goto(t, "flag")
  /\ UNCHANGED <<ringVars, parked, woken, item, held, saw, loopVars, roomVars, cancelled,
                 history>>

\* Mutant: the thread waits without looking at the ring again behind its flag.
FlagAndWait(t) ==
  /\ at[t] = "flag"
  /\ parked' = [parked EXCEPT ![t] = TRUE]
  /\ Goto(t, "pending")
  /\ UNCHANGED <<ringVars, armed, woken, item, held, saw, loopVars, roomVars, cancelled,
                 history>>

Flag(t) ==
  /\ at[t] = "flag"
  /\ parked' = [parked EXCEPT ![t] = TRUE]
  /\ Goto(t, "recheck")
  /\ UNCHANGED <<ringVars, armed, woken, item, held, saw, loopVars, roomVars, cancelled,
                 history>>

Recheck(t) ==
  /\ at[t] = "recheck"
  /\ IF Arrived(t)
     THEN parked' = [parked EXCEPT ![t] = FALSE] /\ Goto(t, "look")
     ELSE UNCHANGED parked /\ Goto(t, "pending")
  /\ UNCHANGED <<ringVars, armed, woken, item, held, saw, loopVars, roomVars, cancelled,
                 history>>

Resume(t) ==
  /\ at[t] = "pending"
  /\ woken[t]
  /\ woken' = [woken EXCEPT ![t] = FALSE]
  /\ Goto(t, "register")
  /\ UNCHANGED <<ringVars, parked, armed, item, held, saw, loopVars, roomVars, cancelled,
                 history>>

-----------------------------------------------------------------------------
(* open, Feed::read and Feed::let_go: the loop. *)

\* open starts the threads in ring order.
Open(t) ==
  /\ loop = "open"
  /\ at[t] = "unopened" /\ \A u \in 0 .. t - 1 : at[u] # "unopened"
  /\ Goto(t, "look")
  /\ loop' = IF t = N - 1 THEN "top" ELSE "open"
  /\ UNCHANGED <<ringVars, threadVars, item, held, saw, which, offset, turn, index, carry,
                 roomVars, cancelled, history>>

\* A thread that cannot start ends the opening: the rings opened so far are let go of.
OpenFails(t) ==
  /\ loop = "open"
  /\ at[t] = "unopened" /\ \A u \in 0 .. t - 1 : at[u] # "unopened"
  /\ at' = [u \in Threads |-> IF u >= t THEN "ended" ELSE at[u]]
  /\ gone' = gone \cup {u \in Threads : u >= t}
  /\ loop' = "letgo"
  /\ UNCHANGED <<conf, ring, abandoned, threadVars, item, held, saw, which, offset, turn, index,
                 carry, roomVars, cancelled, history>>

PollRoom(on) == loop' = "pick" /\ which' = on /\ offset' = 0

\* The top of the loop of read: a pool looks for a ring before it reads, by_key does not.
Top ==
  /\ loop = "top"
  /\ \/ cancelled /\ loop' = "letgo" /\ UNCHANGED <<which, offset>>
     \/ ~cancelled /\ Keyed /\ loop' = "read" /\ UNCHANGED <<which, offset>>
     \/ ~cancelled /\ ~Keyed /\ PollRoom(ANY)
  /\ UNCHANGED <<ringVars, threadVars, drainVars, turn, index, carry, roomVars, cancelled,
                 history>>

\* The ring poll_room looks at now, and the looks it makes at most.
Candidate == IF which = ANY THEN (turn + offset) % N ELSE which
Looks == IF which = ANY THEN N ELSE 1

\* A ring poll_room stops at: one with room, or one whose thread is gone.
Usable(t) == t \in gone \/ Len(ring[t]) < Ring

\* poll_room found a ring, on its first or second look: its thread is gone and the loop
\* stops, or the next delivery goes to it.
RoomFound ==
  /\ loop \in {"pick", "repick"}
  /\ Usable(Candidate)
  /\ loop_waiting' = IF loop = "repick" THEN 0 ELSE loop_waiting
  /\ index' = Candidate
  /\ loop' = IF Candidate \in gone THEN "letgo"
             ELSE IF which = ANY THEN "read" ELSE "push"
  /\ UNCHANGED <<ringVars, threadVars, drainVars, which, offset, turn, carry, loop_armed,
                 loop_woken, cancelled, history>>

\* A full ring: the next one in turn; with none left the first round registers the waker, the
\* second waits, unless shutdown ends the wait of a pool.
RoomFull ==
  /\ loop \in {"pick", "repick"}
  /\ ~Usable(Candidate)
  /\ IF offset + 1 < Looks
     THEN offset' = offset + 1 /\ UNCHANGED loop
     ELSE /\ offset' = 0
          /\ loop' = IF loop = "pick" THEN "register"
                     ELSE IF which = ANY /\ cancelled THEN "letgo" ELSE "wait"
  /\ UNCHANGED <<ringVars, threadVars, drainVars, which, turn, index, carry, roomVars,
                 cancelled, history>>

RegisterLoop ==
  /\ loop = "register"
  /\ loop_armed' = TRUE
  /\ loop' = "flag"
  /\ UNCHANGED <<ringVars, threadVars, drainVars, which, offset, turn, index, carry,
                 loop_waiting, loop_woken, cancelled, history>>

\* Mutant: the loop waits without looking for room again behind its flag.
FlagLoopAndWait ==
  /\ loop = "flag"
  /\ loop_waiting' = IF which = ANY THEN ANY ELSE which + 1
  /\ loop' = "wait"
  /\ UNCHANGED <<ringVars, threadVars, drainVars, which, offset, turn, index, carry,
                 loop_armed, loop_woken, cancelled, history>>

FlagLoop ==
  /\ loop = "flag"
  /\ loop_waiting' = IF which = ANY THEN ANY ELSE which + 1
  /\ loop' = "repick"
  /\ UNCHANGED <<ringVars, threadVars, drainVars, which, offset, turn, index, carry,
                 loop_armed, loop_woken, cancelled, history>>

ResumeLoop ==
  /\ loop = "wait"
  /\ loop_woken
  /\ loop_woken' = FALSE
  /\ loop' = "pick"
  /\ UNCHANGED <<ringVars, threadVars, drainVars, which, offset, turn, index, carry,
                 loop_waiting, loop_armed, cancelled, history>>

\* The stream has a delivery: a pool has its ring already, a key names its ring, and a
\* delivery without one takes the ring in turn.
Read(k) ==
  /\ loop = "read"
  /\ Len(keyOf) < conf.items
  /\ ~Keyed => k = NoKey
  /\ keyOf' = Append(keyOf, k)
  /\ carry' = Len(keyOf) + 1
  /\ index' = IF ~Keyed THEN index ELSE IF k = NoKey THEN turn ELSE KeyIndex[k]
  /\ turn' = IF Keyed /\ k # NoKey THEN turn ELSE (index' + 1) % N
  /\ loop' = "hand"
  /\ UNCHANGED <<ringVars, threadVars, drainVars, which, offset, roomVars, cancelled,
                 handled, died>>

\* The stream errs: the loop goes on.
ReadFails ==
  /\ loop = "read"
  /\ loop' = "top"
  /\ UNCHANGED <<ringVars, threadVars, drainVars, which, offset, turn, index, carry, roomVars,
                 cancelled, history>>

\* The stream ends, or is pending while shutdown fires.
ReadStops(why) ==
  /\ loop = "read"
  /\ why = "shutdown" => cancelled
  /\ loop' = "letgo"
  /\ UNCHANGED <<ringVars, threadVars, drainVars, which, offset, turn, index, carry, roomVars,
                 cancelled, history>>

\* Producer::push of a ring with room.
PushTo ==
  /\ Len(ring[index]) < Ring
  /\ ring' = [ring EXCEPT ![index] = Append(@, carry)]
  /\ carry' = 0
  /\ loop' = "pushed"
  /\ UNCHANGED <<which, offset, turn, index>>

\* The first push of a delivery.  by_key checks that the thread is there; a ring that is full
\* is waited on by hand_over_when_room.
Hand ==
  /\ loop = "hand"
  /\ \/ /\ Keyed /\ index \in gone
        /\ loop' = "letgo"
        /\ UNCHANGED <<ring, which, offset, turn, index, carry>>
     \/ ~(Keyed /\ index \in gone) /\ PushTo
     \/ /\ ~(Keyed /\ index \in gone) /\ Len(ring[index]) = Ring
        /\ loop' = "push"
        /\ UNCHANGED <<ring, which, offset, turn, index, carry>>
  /\ UNCHANGED <<conf, abandoned, gone, threadVars, drainVars, roomVars, cancelled, history>>

\* Mutant: a full ring sends the delivery to any other with room.
PushAnywhere ==
  /\ loop = "push"
  /\ \/ PushTo
     \/ /\ Len(ring[index]) = Ring
        /\ index' = (index + 1) % N
        /\ UNCHANGED <<ring, loop, which, offset, turn, carry>>
  /\ UNCHANGED <<conf, abandoned, gone, threadVars, drainVars, roomVars, cancelled, history>>

\* hand_over_when_room: push, or wait for room in this ring.
Push ==
  /\ loop = "push"
  /\ \/ PushTo
     \/ /\ Len(ring[index]) = Ring
        /\ PollRoom(index)
        /\ UNCHANGED <<ring, turn, index, carry>>
  /\ UNCHANGED <<conf, abandoned, gone, threadVars, drainVars, roomVars, cancelled, history>>

\* Signals::pushed: claim the flag of a parked thread, and wake it.
Pushed ==
  /\ loop = "pushed"
  /\ parked' = [parked EXCEPT ![index] = FALSE]
  /\ loop' = IF parked[index] THEN "wake" ELSE "top"
  /\ UNCHANGED <<ringVars, armed, woken, drainVars, which, offset, turn, index, carry,
                 roomVars, cancelled, history>>

PushedWakes ==
  /\ loop = "wake"
  /\ woken' = [woken EXCEPT ![index] = @ \/ armed[index]]
  /\ armed' = [armed EXCEPT ![index] = FALSE]
  /\ loop' = "top"
  /\ UNCHANGED <<ringVars, parked, drainVars, which, offset, turn, index, carry, roomVars,
                 cancelled, history>>

\* let_go drops the producers, a delivery the loop could not hand on with them, ...
LetGo ==
  /\ loop = "letgo"
  /\ abandoned' = TRUE
  /\ carry' = 0
  /\ loop' = "close"
  /\ UNCHANGED <<conf, ring, gone, threadVars, drainVars, which, offset, turn, index, roomVars,
                 cancelled, history>>

\* ... and then wakes every thread.
Close ==
  /\ loop = "close"
  /\ woken' = [t \in Threads |-> woken[t] \/ armed[t]]
  /\ armed' = [t \in Threads |-> FALSE]
  /\ loop' = "done"
  /\ UNCHANGED <<ringVars, parked, drainVars, which, offset, turn, index, carry, roomVars,
                 cancelled, history>>

\* Shutdown, at any time.  It wakes the loop where the loop listens to it.
Cancel ==
  /\ ~cancelled
  /\ cancelled' = TRUE
  /\ loop_woken' = (loop_woken \/ (loop = "wait" /\ which = ANY))
  /\ UNCHANGED <<ringVars, threadVars, drainVars, loopVars, loop_waiting, loop_armed, history>>

AllEnded == loop = "done" /\ \A t \in Threads : at[t] = "ended"

Done == AllEnded /\ UNCHANGED vars

-----------------------------------------------------------------------------
DrainStep(t) ==
  \/ Pop(t) \/ Count(t) \/ Freed(t) \/ Claim(t) \/ FreedWakes(t) \/ Handle(t)
  \/ CheckAbandoned(t) \/ LastLook(t) \/ Leave(t) \/ LeaveWakes(t)
  \/ Spin(t) \/ Register(t) \/ Flag(t) \/ Recheck(t) \/ Resume(t)

\* The steps of the loop that wait for nobody outside it.
FeedStep ==
  \/ \E t \in Threads : Open(t)
  \/ Top \/ RoomFound \/ RoomFull \/ RegisterLoop \/ FlagLoop \/ ResumeLoop
  \/ Hand \/ Push \/ Pushed \/ PushedWakes \/ LetGo \/ Close \/ ReadStops("shutdown")

StreamStep == (\E k \in Keys \cup {NoKey} : Read(k)) \/ ReadFails \/ ReadStops("ended")

Next ==
  \/ \E t \in Threads : DrainStep(t) \/ Die(t) \/ OpenFails(t)
  \/ FeedStep \/ StreamStep \/ Cancel \/ Done

Safe == Init /\ [][Next]_vars

\* The operating system runs every thread, the executor polls a loop that was woken, and a
\* handler returns.  Nothing forces the stream, a panic or shutdown.
Spec == Safe /\ WF_vars(FeedStep) /\ \A t \in Threads : WF_vars(DrainStep(t))

-----------------------------------------------------------------------------
(* Properties. *)

\* A thread that waits and was not woken has an empty ring, unless the loop is between its push
\* and the wake; and its producer is there, unless the loop is between the drop of the
\* producers and the wake.  ("the loop wakes it only when it is flagged parked".)
NoLostThreadWakeup ==
  \A t \in Threads : at[t] = "pending" /\ ~woken[t] =>
    /\ armed[t]
    /\ ring[t] # << >> => loop \in {"pushed", "wake"} /\ index = t
    /\ abandoned => loop = "close"

\* Some thread claimed the loop's wait, or is leaving, and is about to wake it.
WakeInFlight == \E t \in Threads : at[t] \in {"wakeloop", "left"}

\* A loop that waits for room and was not woken waits for good reason: each ring it waits on has
\* its thread and no room (a pool: more than half its entries taken), or its thread is on its
\* way from the pop, or from the drop of its end, to the wake.
NoLostLoopWakeup ==
  loop = "wait" /\ ~loop_woken =>
    /\ loop_armed
    /\ \/ WakeInFlight
       \/ \A t \in (IF which = ANY THEN Threads ELSE {which}) :
            \/ at[t] \in {"popped", "counted", "seen", "leaving"}
            \/ /\ t \notin gone
               /\ Len(ring[t]) > (IF which = ANY THEN Ring \div 2 ELSE Ring - 1)

InRing(t, n) == \E i \in 1 .. Len(ring[t]) : ring[t][i] = n

\* What the hand-off does, as a dispatch: a delivery waits in the loop's hand or in the ring of a
\* thread that is there, and runs from the pop on.  Read ahead are at most one delivery in each
\* thread's hand, a full ring each, and, by key, the one the loop holds while it waits.
Waiting ==
  {n \in 1 .. Len(keyOf) : n = carry \/ \E t \in Threads \ gone : InRing(t, n)}
Running == Range(item) \ {0}

Limit == N * (1 + Ring) + (IF Keyed THEN 1 ELSE 0)

D == INSTANCE Dispatch WITH
  limit   <- Limit,
  waiting <- Waiting,
  running <- Running,
  done    <- Range(handled),
  broken  <- died

\* The ring hand-off implements the dispatch: shutdown, the wait for room, a ring that could not
\* open and the last look at an abandoned ring drop nothing while no thread dies; nothing is
\* started twice; the deliveries of a key run in order though several threads run; and the loop
\* reads no further ahead than the rings and the threads hold.
ImplementsDispatch == D!Spec
=============================================================================
