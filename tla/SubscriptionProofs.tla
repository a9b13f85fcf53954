------------------------- MODULE SubscriptionProofs -------------------------
(* Theorems of MemorySubscription and their proofs. *)
EXTENDS MemorySubscription, SequenceTheorems, WellFoundedInduction, TLAPS

-----------------------------------------------------------------------------
(* The publish log. *)

\* A bounded, nonempty set of naturals has a least element.
LEMMA LeastElement ==
  ASSUME NEW n \in Nat, NEW T, T \subseteq 0 .. n, T # {}
  PROVE  \E x \in T : \A y \in T : x <= y
<1> DEFINE less == {ss \in Nat \X Nat : ss[1] < ss[2]}
<1>1. OpToRel(<, Nat) = less
  BY DEF OpToRel
<1>2. T \subseteq Nat
  OBVIOUS
<1>3. IsWellFoundedOn(less, Nat)
  BY <1>1, NatLessThanWellFounded
<1>4. PICK x \in T : \A y \in T : ~(<<y, x>> \in less)
  <2> HIDE DEF less
  <2> QED BY <1>2, <1>3, WFMin
<1>5. ASSUME NEW y \in T, y < x PROVE <<y, x>> \in less
  <2>1. <<y, x>> \in Nat \X Nat /\ <<y, x>>[1] < <<y, x>>[2]
    BY <1>2, <1>5
  <2> QED BY <2>1, Zenon
<1>6. ASSUME NEW y \in T PROVE x <= y
  <2> HIDE DEF less
  <2>1. ~(y < x)
    BY <1>4, <1>5, Zenon
  <2> QED BY <1>2, <2>1
<1> QED BY <1>6

\* NameLog::push never evicts the message it appends.
LEMMA EvictionsBounded ==
  ASSUME NEW l, l.entries \in Seq(Sizes), l.entries # << >>
  PROVE  Evictions(Retention, l) \in 0 .. Len(l.entries) - 1
<1> DEFINE n == Len(l.entries) - 1
           T == {k \in 0 .. n : StopsAt(Retention, l, k)}
<1>1. n \in Nat
  BY EmptySeq, LenProperties
<1>2. n \in T
  BY <1>1 DEF StopsAt
<1>3. PICK x \in T : \A y \in T : x <= y
  <2> HIDE DEF T
  <2>1. T \subseteq 0 .. n
    BY DEF T
  <2> HIDE DEF n
  <2> QED BY <1>1, <1>2, <2>1, LeastElement
<1>4. \A j \in 0 .. x - 1 : ~StopsAt(Retention, l, j)
  BY <1>1, <1>3
<1>5. \E k \in 0 .. n : StopsAt(Retention, l, k) /\ \A j \in 0 .. k - 1 : ~StopsAt(Retention, l, j)
  BY <1>3, <1>4
<1> QED BY <1>5 DEF Evictions

\* A publish takes the next position, moves the oldest one forward only, and stays retained.
LEMMA PushProperties ==
  ASSUME NEW l, l.entries \in Seq(Sizes), l.first_seq \in Nat, NEW size \in Sizes,
         NEW p, p = Push(Retention, l, size)
  PROVE  /\ p.entries \in Seq(Sizes)
         /\ p.first_seq \in Nat
         /\ NextSeq(p) = NextSeq(l) + 1
         /\ p.first_seq >= l.first_seq
         /\ p.first_seq <= NextSeq(l)
<1> DEFINE a == Appended(l, size)
           k == Evictions(Retention, a)
<1>1. /\ a.entries = Append(l.entries, size)
      /\ a.first_seq = l.first_seq
  BY DEF Appended
<1>2. /\ a.entries \in Seq(Sizes)
      /\ Len(a.entries) = Len(l.entries) + 1
      /\ a.entries # << >>
  BY <1>1, AppendProperties, LenProperties
<1>3. /\ p.entries = SubSeq(a.entries, k + 1, Len(a.entries))
      /\ p.first_seq = a.first_seq + k
  BY DEF Push, Evict
<1> HIDE DEF a
<1>4. k \in 0 .. Len(a.entries) - 1
  BY <1>2, EvictionsBounded
<1> HIDE DEF k
<1>5. Len(l.entries) \in Nat
  BY LenProperties
<1>6. k + 1 \in 1 .. Len(a.entries) /\ Len(a.entries) \in Nat
  BY <1>2, <1>4, <1>5
<1>7. /\ p.entries \in Seq(Sizes)
      /\ Len(p.entries) = Len(a.entries) - k
  BY <1>2, <1>3, <1>4, <1>6, SubSeqProperties
<1>8. p.first_seq = l.first_seq + k
  BY <1>1, <1>3
<1>9. Len(p.entries) = (Len(l.entries) + 1) - k
  BY <1>2, <1>7, Zenon
<1>10. k \in Nat /\ k <= Len(l.entries)
  BY <1>2, <1>4, <1>5
<1> DEFINE m == Len(l.entries)
<1>11. /\ p.first_seq \in Nat
       /\ p.first_seq + ((m + 1) - k) = (l.first_seq + m) + 1
       /\ p.first_seq >= l.first_seq
       /\ p.first_seq <= l.first_seq + m
  <2>1. m \in Nat /\ k <= m
    BY <1>5, <1>10
  <2> HIDE DEF m
  <2> QED BY <1>8, <1>10, <2>1
<1> QED
  BY <1>7, <1>9, <1>11, Zenon DEF NextSeq

-----------------------------------------------------------------------------
(* Types. *)

USE SubscriptionAssumption

\* A replay starts at the target, or at the oldest retained message when that is later.
LEMMA StartProperties ==
  ASSUME NEW target \in Nat, log.entries \in Seq(Sizes), log.first_seq \in Nat
  PROVE  /\ ReplayStart(log, target) \in Nat
         /\ ReplayStart(log, target) >= target /\ ReplayStart(log, target) >= log.first_seq
         /\ ReplayStart(log, target) = target \/ ReplayStart(log, target) = log.first_seq
         /\ log.first_seq <= NextSeq(log)
BY SMTT(30), LenProperties DEF NextSeq, ReplayStart

\* A position resolves to one between the oldest retained message and the tip.
LEMMA ResolveProperties ==
  ASSUME NEW to \in Positions(MaxPublish), log.entries \in Seq(Sizes), log.first_seq \in Nat,
         ~Evicted(to, log)
  PROVE  Resolve(to, log) \in Nat /\ Resolve(to, log) <= NextSeq(log)
BY SMTT(30), LenProperties DEF Positions, Resolve, NextSeq

LEMMA TypeInit == Init => TypeOK
BY EmptySeq DEF Init, TypeOK, EmptyLog, Free, Hands

\* A sequence of deliveries that grows by one at its end or loses its head.
LEMMA QueueSteps ==
  ASSUME NEW q \in Seq(Deliveries), NEW d \in Deliveries
  PROVE  /\ Append(q, d) \in Seq(Deliveries)
         /\ Len(q) \in Nat /\ Len(Append(q, d)) = Len(q) + 1
         /\ \A i \in 1 .. Len(q) : Append(q, d)[i] = q[i] /\ q[i] \in Deliveries
         /\ Append(q, d)[Len(q) + 1] = d
         /\ q # << >> => /\ Tail(q) \in Seq(Deliveries)
                        /\ Head(q) = q[1] /\ Head(q) \in Deliveries
                        /\ Len(q) \in Nat \ {0} /\ Len(Tail(q)) = Len(q) - 1
                        /\ \A i \in 1 .. Len(Tail(q)) : Tail(q)[i] = q[i + 1]
BY AppendProperties, HeadTailProperties, LenProperties, EmptySeq

LEMMA TypeStep == TypeOK /\ [Next]_vars => TypeOK'
<1> SUFFICES ASSUME TypeOK, [Next]_vars PROVE TypeOK'
  OBVIOUS
<1> USE DEF busVars, pollVars, seekVars, historyVars
<1> DEFINE Seekers == [at : {"idle", "stored", "recorded"}, target : Nat]
<1>a. /\ queue \in [Subs -> Seq(Deliveries)]
      /\ hand \in [Subs -> [Slots -> Hands]]
      /\ \A s \in Subs, k \in Slots : hand[s][k] \in Hands
  BY DEF TypeOK
<1>b. /\ seeker \in [Subs -> Seekers]
      /\ landed \in [Subs -> Landings \cup {None}]
      /\ floor \in [Subs -> Nat]
  BY DEF TypeOK
<1>d. ASSUME NEW s \in Subs, NEW k \in Slots, Release(s, k)
      PROVE  hand' \in [Subs -> [Slots -> Hands]]
  <2>1. Free \in Hands
    BY DEF Free, Hands
  <2> QED BY <1>a, <1>d, <2>1 DEF Release
<1>e. ASSUME NEW s \in Subs, NEW k \in Slots, hand[s][k].deliveries < MaxDeliveries
      PROVE  Redelivered(HandDelivery(s, k)) \in Deliveries
  <2> DEFINE n == hand[s][k].seq
             c == hand[s][k].deliveries
  <2>1. n \in Nat /\ c \in 1 .. MaxDeliveries
    BY <1>a DEF Hands
  <2>2. Redelivered(HandDelivery(s, k)) = [seq |-> n, deliveries |-> c + 1]
    BY DEF Redelivered, HandDelivery
  <2>3. c + 1 \in 1 .. MaxDeliveries
    BY <1>e, <2>1
  <2> QED BY <2>1, <2>2, <2>3 DEF Deliveries
<1>f. ASSUME NEW s \in Subs, NEW d \in Deliveries, SendBack(s, d)
      PROVE  queue' \in [Subs -> Seq(Deliveries)] /\ woken' \in [Subs -> BOOLEAN]
  <2>1. Append(queue[s], d) \in Seq(Deliveries)
    BY <1>a, AppendProperties
  <2>2. woken \in [Subs -> BOOLEAN]
    BY DEF TypeOK
  <2> QED BY <1>a, <1>f, <2>1, <2>2 DEF SendBack
<1>1. ASSUME NEW s \in Subs, Subscribe(s) PROVE TypeOK'
  BY <1>1 DEF Subscribe, TypeOK
<1>2. ASSUME NEW s \in Subs, Unsubscribe(s) PROVE TypeOK'
  BY <1>2, EmptySeq DEF Unsubscribe, TypeOK
<1>3. ASSUME NEW size \in Sizes, Publish(size) PROVE TypeOK'
  <2>1. /\ log'.entries \in Seq(Sizes) /\ log'.first_seq \in Nat
        /\ NextSeq(log) \in Nat
    <3>1. log.entries \in Seq(Sizes) /\ log.first_seq \in Nat
      BY DEF TypeOK
    <3>2. log' = Push(Retention, log, size)
      BY <1>3 DEF Publish
    <3>3. NextSeq(log) \in Nat
      BY <3>1, LenProperties DEF NextSeq
    <3> QED BY <3>1, <3>2, <3>3, PushProperties
  <2>2. [seq |-> NextSeq(log), deliveries |-> 1] \in Deliveries
    BY <2>1 DEF Deliveries
  <2>3. queue' \in [Subs -> Seq(Deliveries)]
    BY <1>3, <1>a, <2>2, QueueSteps DEF Publish
  <2>4. owed' \in [Subs -> SUBSET Nat]
    BY <1>3, <2>1 DEF Publish, TypeOK
  <2>5. woken' \in [Subs -> BOOLEAN]
    BY <1>3 DEF Publish, TypeOK
  <2> QED BY <1>3, <2>1, <2>3, <2>4, <2>5 DEF Publish, TypeOK
<1>4. ASSUME Shutdown PROVE TypeOK'
  BY <1>4 DEF Shutdown, TypeOK
<1>5. ASSUME Connect PROVE TypeOK'
  BY <1>5 DEF Connect, TypeOK
<1>6. ASSUME NEW s \in Subs, NEW to \in Positions(MaxPublish), SeekStore(s, to) PROVE TypeOK'
  <2>1. Resolve(to, log) \in Nat
    BY <1>6, ResolveProperties DEF SeekStore, TypeOK
  <2>2. floor' \in [Subs -> Nat]
    BY <1>6, <1>b, <2>1 DEF SeekStore, Higher
  <2>3. seeker' \in [Subs -> Seekers]
    BY <1>6, <1>b, <2>1 DEF SeekStore, InHand
  <2> QED BY <1>6, <2>1, <2>2, <2>3 DEF SeekStore, TypeOK
<1>7. ASSUME NEW s \in Subs, SeekRecord(s) PROVE TypeOK'
  <2>1. /\ seeker[s] \in Seekers
        /\ [seeker[s] EXCEPT !.at = "recorded"] \in Seekers
    BY <1>b
  <2>2. seeker' \in [Subs -> Seekers]
    BY <1>7, <1>b, <2>1 DEF SeekRecord
  <2>3. landed' \in [Subs -> Landings \cup {None}]
    BY <1>7, <1>b, <2>1 DEF SeekRecord, Recorded, Landings
  <2>4. pending' \in [Subs -> Nat \cup {None}]
    BY <1>7, <2>1 DEF SeekRecord, TypeOK
  <2> QED BY <1>7, <2>2, <2>3, <2>4 DEF SeekRecord, TypeOK
<1>8. ASSUME NEW s \in Subs, SeekReturn(s) PROVE TypeOK'
  <2>1. /\ seeker[s] \in Seekers
        /\ [seeker[s] EXCEPT !.at = "idle"] \in Seekers
    BY <1>b
  <2>2. seeker' \in [Subs -> Seekers]
    BY <1>8, <1>b, <2>1 DEF SeekReturn
  <2>3. \A l \in Landings : [l EXCEPT !.returned = TRUE] \in Landings
    BY DEF Landings
  <2>4. landed' \in [Subs -> Landings \cup {None}]
    BY <1>8, <1>b, <2>3 DEF SeekReturn
  <2>5. armed' \in [Subs -> BOOLEAN] /\ woken' \in [Subs -> BOOLEAN]
    BY <1>8 DEF SeekReturn, TypeOK
  <2> QED BY <1>8, <2>2, <2>4, <2>5 DEF SeekReturn, TypeOK
<1>9. ASSUME NEW s \in Subs, BeginPoll(s) PROVE TypeOK'
  <2>1. \A l \in Landings : [l EXCEPT !.repolled = TRUE] \in Landings
    BY DEF Landings
  <2>2. landed' \in [Subs -> Landings \cup {None}]
    BY <1>9, <1>b, <2>1 DEF BeginPoll
  <2> QED BY <1>9, <2>2 DEF BeginPoll, TypeOK
<1>10. ASSUME NEW s \in Subs, TakeSeek(s) PROVE TypeOK'
  <2>1. \A l \in Landings, b \in BOOLEAN : [l EXCEPT !.taken = b] \in Landings
    BY DEF Landings
  <2>2. (landed[s].taken \/ pending[s] # None) \in BOOLEAN
    OBVIOUS
  <2>3. landed' \in [Subs -> Landings \cup {None}]
    BY <1>10, <1>b, <2>1, <2>2 DEF TakeSeek
  <2> QED BY <1>10, <2>3 DEF TakeSeek, TypeOK
<1>11. ASSUME NEW s \in Subs, ReplayDrain(s) PROVE TypeOK'
  <2>1. taken[s] \in Nat
    BY <1>11 DEF ReplayDrain, TypeOK
  <2> DEFINE start == ReplayStart(log, taken[s])
  <2>2. start \in Nat /\ log.first_seq \in Nat
    BY <2>1, StartProperties DEF TypeOK
  <2> HIDE DEF start
  <2>3. queue' \in [Subs -> Seq(Deliveries)]
    BY <1>11, <1>a, EmptySeq DEF ReplayDrain
  <2>4. floor' \in [Subs -> Nat]
    BY <1>11, <1>b, <2>2 DEF ReplayDrain, Higher
  <2>5. \A l \in Landings : [l EXCEPT !.from = start] \in Landings
    BY <2>2 DEF Landings
  <2>6. landed' \in [Subs -> Landings \cup {None}]
    BY <1>11, <1>b, <2>5 DEF ReplayDrain, Applying, start
  <2>7. /\ taken' \in [Subs -> Nat \cup {None}]
        /\ poll' \in [Subs -> {"idle", "begun", "replay", "refill", "fresh", "parked"}]
        /\ \A x \in Subs : poll'[x] \in {"replay", "refill"} => taken'[x] # None
    BY <1>11, <2>2 DEF ReplayDrain, TypeOK, start
  <2> QED BY <1>11, <2>3, <2>4, <2>6, <2>7 DEF ReplayDrain, TypeOK
<1>20. ASSUME NEW s \in Subs, ReplayRefused(s) PROVE TypeOK'
  BY <1>20 DEF ReplayRefused, TypeOK
<1>21. ASSUME NEW s \in Subs, ReplaySend(s) PROVE TypeOK'
  <2>1. taken[s] \in Nat
    BY <1>21 DEF ReplaySend, TypeOK
  <2>2. [seq |-> taken[s], deliveries |-> 1] \in Deliveries
    BY <2>1 DEF Deliveries
  <2>3. queue' \in [Subs -> Seq(Deliveries)]
    BY <1>21, <1>a, <2>2, QueueSteps DEF ReplaySend
  <2>4. taken' \in [Subs -> Nat \cup {None}] /\ taken'[s] \in Nat
    <3>1. taken \in [Subs -> Nat \cup {None}] /\ taken' = [taken EXCEPT ![s] = taken[s] + 1]
      BY <1>21 DEF ReplaySend, TypeOK
    <3>2. taken[s] + 1 \in Nat
      BY <2>1
    <3> QED BY <3>1, <3>2
  <2>5. \A x \in Subs : poll'[x] \in {"replay", "refill"} => taken'[x] # None
    BY <1>21, <2>4 DEF ReplaySend, TypeOK
  <2> QED BY <1>21, <2>3, <2>4, <2>5 DEF ReplaySend, TypeOK
<1>22. ASSUME NEW s \in Subs, ReplayEnd(s) PROVE TypeOK'
  BY <1>22 DEF ReplayEnd, TypeOK
<1>12. ASSUME NEW s \in Subs, DropStale(s) PROVE TypeOK'
  <2>1. queue' \in [Subs -> Seq(Deliveries)]
    BY <1>12, <1>a, HeadTailProperties DEF DropStale
  <2> QED BY <1>12, <2>1 DEF DropStale, TypeOK
<1>13. ASSUME NEW s \in Subs, NEW k \in Slots, Yield(s, k) PROVE TypeOK'
  <2>1. Head(queue[s]) \in Deliveries /\ Tail(queue[s]) \in Seq(Deliveries)
    BY <1>13, <1>a, HeadTailProperties DEF Yield
  <2>2. Held("held", Head(queue[s])) \in Hands
    BY <2>1 DEF Held, Hands, Deliveries
  <2>3. hand' \in [Subs -> [Slots -> Hands]]
    BY <1>13, <1>a, <2>2 DEF Yield
  <2>4. queue' \in [Subs -> Seq(Deliveries)]
    BY <1>13, <1>a, <2>1 DEF Yield
  <2>5. filled \in [Subs -> 0 .. BatchLimit - 1]
    BY DEF TypeOK
  <2>6. filled' \in [Subs -> 0 .. BatchLimit - 1]
    BY <1>13, <2>5 DEF Yield
  <2>7. landed' \in [Subs -> Landings \cup {None}]
    <3>1. \A l \in Landings : [l EXCEPT !.returned = FALSE] \in Landings
      BY DEF Landings
    <3> QED BY <1>13, <1>b, <3>1 DEF Yield, Yielded
  <2>8. /\ poll' \in [Subs -> {"idle", "begun", "replay", "refill", "fresh", "parked"}]
        /\ \A r \in Subs : poll'[r] \in {"replay", "refill"} => taken'[r] # None
    BY <1>13 DEF Yield, TypeOK
  <2> QED BY <1>13, <2>3, <2>4, <2>6, <2>7, <2>8 DEF Yield, TypeOK
<1>14. ASSUME NEW s \in Subs, Drained(s) PROVE TypeOK'
  <2>1. filled' \in [Subs -> 0 .. BatchLimit - 1]
    BY <1>14 DEF Drained, TypeOK
  <2>2. /\ poll' \in [Subs -> {"idle", "begun", "replay", "refill", "fresh", "parked"}]
        /\ \A r \in Subs : poll'[r] \in {"replay", "refill"} => taken'[r] # None
    BY <1>14 DEF Drained, TypeOK
  <2> QED BY <1>14, <2>1, <2>2 DEF Drained, TypeOK
<1>15. ASSUME NEW s \in Subs, NEW k \in Slots, Settle(s, k) PROVE TypeOK'
  <2>1. hand[s][k].seq \in Nat
    BY <1>a DEF Hands
  <2>2. settled' \in [Subs -> SUBSET Nat]
    BY <1>15, <2>1 DEF Settle, TypeOK
  <2>3. hand' \in [Subs -> [Slots -> Hands]]
    BY <1>15, <1>d DEF Settle
  <2> QED BY <1>15, <2>2, <2>3 DEF Settle, TypeOK
<1>16. ASSUME NEW s \in Subs, NEW k \in Slots, Requeue(s, k) PROVE TypeOK'
  <2>1. /\ queue' \in [Subs -> Seq(Deliveries)] /\ woken' \in [Subs -> BOOLEAN]
        /\ hand' \in [Subs -> [Slots -> Hands]]
    BY <1>d, <1>e, <1>f, <1>16 DEF Requeue
  <2> QED BY <1>16, <2>1 DEF Requeue, TypeOK
<1>17. ASSUME NEW s \in Subs, NEW k \in Slots, NackAfter(s, k) PROVE TypeOK'
  <2>1. Redelivered(HandDelivery(s, k)) \in Deliveries
    BY <1>e, <1>17 DEF NackAfter
  <2>2. Held("delayed", Redelivered(HandDelivery(s, k))) \in Hands
    BY <2>1 DEF Held, Hands, Deliveries
  <2>3. hand' \in [Subs -> [Slots -> Hands]]
    BY <1>17, <1>a, <2>2 DEF NackAfter
  <2> QED BY <1>17, <2>3 DEF NackAfter, TypeOK
<1>18. ASSUME NEW s \in Subs, NEW k \in Slots, TimerFires(s, k) PROVE TypeOK'
  <2>1. HandDelivery(s, k) \in Deliveries
    BY <1>a DEF HandDelivery, Hands, Deliveries
  <2>2. /\ queue' \in [Subs -> Seq(Deliveries)] /\ woken' \in [Subs -> BOOLEAN]
        /\ hand' \in [Subs -> [Slots -> Hands]]
    BY <1>d, <1>f, <1>18, <2>1 DEF TimerFires
  <2> QED BY <1>18, <2>2 DEF TimerFires, TypeOK
<1>19. CASE UNCHANGED vars
  BY <1>19 DEF vars, TypeOK
<1> QED
  BY <1>1, <1>2, <1>3, <1>4, <1>5, <1>6, <1>7, <1>8, <1>9, <1>10, <1>11, <1>12, <1>13, <1>14,
     <1>15, <1>16, <1>17, <1>18, <1>19, <1>20, <1>21, <1>22
  DEF Next, BusStep, SeekStep, PollStep, SettleStep

\* The types hold in every state of every instance: delivery counts stay between one and the
\* bound, a poll about to replay has a target, a batch never outgrows its limit.
THEOREM TypeCorrect == Safe => []TypeOK
<1> QED BY TypeInit, TypeStep, PTL DEF Safe

-----------------------------------------------------------------------------
(* No lost wakeup. *)

\* What makes NoLostWakeup inductive.  From the moment a poll registered the seek waker until
\* it is over, the waker is registered or a wake is already on its way; once the poll has read
\* the pending target, a target that is pending belongs to a seek that has still to wake.
WakeInv ==
  \A s \in Subs :
    /\ poll[s] # "idle" => armed[s] \/ woken[s]
    /\ poll[s] \in {"replay", "refill", "fresh", "parked"} /\ ~woken[s] /\ pending[s] # None
         => seeker[s].at = "recorded"
    /\ poll[s] = "parked" /\ ~woken[s] => queue[s] = << >>

LEMMA WakeStep == TypeOK /\ WakeInv /\ [Next]_vars => WakeInv'
<1> SUFFICES ASSUME TypeOK, WakeInv, [Next]_vars PROVE WakeInv'
  OBVIOUS
<1> USE DEF busVars, pollVars, seekVars, historyVars, WakeInv
<1>a. /\ poll \in [Subs -> {"idle", "begun", "replay", "refill", "fresh", "parked"}]
      /\ armed \in [Subs -> BOOLEAN] /\ woken \in [Subs -> BOOLEAN]
      /\ pending \in [Subs -> Nat \cup {None}]
      /\ queue \in [Subs -> Seq(Deliveries)]
      /\ seeker \in [Subs -> [at : {"idle", "stored", "recorded"}, target : Nat]]
  BY DEF TypeOK
<1>b. ASSUME NEW s \in Subs, NEW d, SendBack(s, d),
             UNCHANGED <<pollVars, seekVars>>
      PROVE  WakeInv'
  BY ZenonT(30), <1>a, <1>b DEF SendBack
<1>1. ASSUME NEW s \in Subs, Subscribe(s) PROVE WakeInv'
  BY <1>1 DEF Subscribe
<1>2. ASSUME NEW s \in Subs, Unsubscribe(s) PROVE WakeInv'
  BY <1>a, <1>2 DEF Unsubscribe
<1>3. ASSUME NEW size \in Sizes, Publish(size) PROVE WakeInv'
  BY <1>a, <1>3 DEF Publish
<1>4. ASSUME Shutdown PROVE WakeInv'
  BY <1>4 DEF Shutdown
<1>5. ASSUME Connect PROVE WakeInv'
  BY <1>5 DEF Connect
<1>6. ASSUME NEW s \in Subs, NEW to \in Positions(MaxPublish), SeekStore(s, to) PROVE WakeInv'
  BY <1>a, <1>6 DEF SeekStore
<1>7. ASSUME NEW s \in Subs, SeekRecord(s) PROVE WakeInv'
  BY <1>a, <1>7 DEF SeekRecord
<1>8. ASSUME NEW s \in Subs, SeekReturn(s) PROVE WakeInv'
  BY <1>a, <1>8 DEF SeekReturn
<1>9. ASSUME NEW s \in Subs, BeginPoll(s) PROVE WakeInv'
  BY <1>a, <1>9 DEF BeginPoll
<1>10. ASSUME NEW s \in Subs, TakeSeek(s) PROVE WakeInv'
  BY <1>a, <1>10 DEF TakeSeek
<1>11. ASSUME NEW s \in Subs, ReplayDrain(s) PROVE WakeInv'
  BY <1>a, <1>11 DEF ReplayDrain
<1>20. ASSUME NEW s \in Subs, ReplayRefused(s) PROVE WakeInv'
  BY <1>a, <1>20 DEF ReplayRefused
<1>21. ASSUME NEW s \in Subs, ReplaySend(s) PROVE WakeInv'
  BY <1>a, <1>21 DEF ReplaySend
<1>22. ASSUME NEW s \in Subs, ReplayEnd(s) PROVE WakeInv'
  BY <1>a, <1>22 DEF ReplayEnd
<1>12. ASSUME NEW s \in Subs, DropStale(s) PROVE WakeInv'
  BY <1>a, <1>12 DEF DropStale
<1>13. ASSUME NEW s \in Subs, NEW k \in Slots, Yield(s, k) PROVE WakeInv'
  BY <1>a, <1>13 DEF Yield
<1>14. ASSUME NEW s \in Subs, Drained(s) PROVE WakeInv'
  BY <1>a, <1>14 DEF Drained
<1>15. ASSUME NEW s \in Subs, NEW k \in Slots, Settle(s, k) PROVE WakeInv'
  BY <1>15 DEF Settle
<1>16. ASSUME NEW s \in Subs, NEW k \in Slots, Requeue(s, k) PROVE WakeInv'
  BY <1>b, <1>16 DEF Requeue
<1>17. ASSUME NEW s \in Subs, NEW k \in Slots, NackAfter(s, k) PROVE WakeInv'
  BY <1>17 DEF NackAfter
<1>18. ASSUME NEW s \in Subs, NEW k \in Slots, TimerFires(s, k) PROVE WakeInv'
  BY <1>b, <1>18 DEF TimerFires
<1>19. CASE UNCHANGED vars
  BY <1>19 DEF vars
<1> QED
  BY <1>1, <1>2, <1>3, <1>4, <1>5, <1>6, <1>7, <1>8, <1>9, <1>10, <1>11, <1>12, <1>13, <1>14,
     <1>15, <1>16, <1>17, <1>18, <1>19, <1>20, <1>21, <1>22
  DEF Next, BusStep, SeekStep, PollStep, SettleStep

\* A stream that is parked and not woken has an empty queue and no pending seek but one whose
\* seeker is about to wake it, for any number of subscriptions, messages and seeks.
THEOREM WakeupNeverLost == Safe => []NoLostWakeup
<1>1. Init => WakeInv
  BY DEF Init, WakeInv
<1>2. WakeInv => NoLostWakeup
  BY DEF WakeInv, NoLostWakeup
<1> QED BY <1>1, <1>2, TypeCorrect, WakeStep, PTL DEF Safe

-----------------------------------------------------------------------------
(* The messages of a subscription. *)

\* Nothing is queued, held, owed or settled that the log has not reached, no watermark is past
\* its tip, and a push leaves at least the message it appended.
BoundInv ==
  /\ NextSeq(log) = 0 \/ log.first_seq < NextSeq(log)
  /\ \A s \in Subs :
       /\ \A i \in 1 .. Len(queue[s]) : queue[s][i].seq < NextSeq(log)
       /\ \A k \in Slots : hand[s][k].st # "free" => hand[s][k].seq < NextSeq(log)
       /\ \A n \in owed[s] \cup settled[s] : n < NextSeq(log)
       /\ watermark[s] <= NextSeq(log)

\* First deliveries are queued in order; what a timer holds is no first delivery.
InOrder(q) ==
  \A i, j \in 1 .. Len(q) :
    i < j /\ q[i].deliveries = 1 /\ q[j].deliveries = 1 => q[i].seq < q[j].seq

\* What a replay has still to enqueue is past every first delivery that is queued.
Behind(s) ==
  poll[s] = "refill" =>
    \A i \in 1 .. Len(queue[s]) : queue[s][i].deliveries = 1 => queue[s][i].seq < taken[s]

FreshInv ==
  \A s \in Subs :
    /\ InOrder(queue[s]) /\ Behind(s)
    /\ \A k \in Slots : hand[s][k].st = "delayed" => hand[s][k].deliveries >= 2

\* Wherever a seek has got to, its target is not above the floor.
FloorInv ==
  \A s \in Subs :
    /\ watermark[s] <= floor[s]
    /\ pending[s] # None => pending[s] <= floor[s]
    /\ poll[s] = "replay" => taken[s] <= floor[s]
    /\ seeker[s].at = "stored" => seeker[s].target <= floor[s]
    /\ s \notin opened => owed[s] = {}

\* Without a seek nothing is pending and nothing is replayed.
UnsoughtInv ==
  \A s \in Subs : ~sought[s] => pending[s] = None /\ taken[s] = None /\ seeker[s].at = "idle"

\* The first delivery of q that is no redelivery is the one at position f.
FirstFresh(q, f) ==
  \E i \in 1 .. Len(q) :
    /\ q[i].deliveries = 1 /\ q[i].seq = f
    /\ \A j \in 1 .. i - 1 : q[j].deliveries # 1
NoFresh(q) == \A i \in 1 .. Len(q) : q[i].deliveries # 1

\* A seek was applied: the first message of its replay is queued, about to be enqueued, or not
\* published yet.
Applied(s, f) ==
  \/ FirstFresh(queue[s], f)
  \/ /\ NoFresh(queue[s])
     /\ poll[s] = "refill" => taken[s] = f
     /\ s \in registered /\ poll[s] # "refill" => NextSeq(log) = f

\* A recorded seek whose replay has yielded nothing is pending, taken by the poll about to
\* replay it, or applied.
Landing(s) ==
  LET l == landed[s]
  IN  /\ live /\ watermark[s] = l.target /\ s \in opened /\ seeker[s].at # "stored"
      /\ \/ /\ l.from = None /\ ~l.taken
            /\ pending[s] = l.target /\ (l.repolled => poll[s] = "begun")
         \/ /\ l.from = None /\ l.taken
            /\ pending[s] = None /\ poll[s] = "replay" /\ taken[s] = l.target
         \/ /\ l.from # None /\ l.from >= l.target /\ l.from <= NextSeq(log)
            /\ pending[s] = None /\ poll[s] # "replay" /\ (Receiving(s) => Applied(s, l.from))

Lands(s) ==
  /\ poll[s] \notin {"idle", "parked"} => Receiving(s)
  /\ seeker[s].at = "stored" => live /\ watermark[s] = seeker[s].target /\ s \in opened
  /\ landed[s] # None => Landing(s)

LandInv == \A s \in Subs : Lands(s)

\* Where a message that was sent to a subscription may be, unless a replay is to enqueue it.
Kept(s, n) == Queued(s, n) \/ InHand(s, n) \/ n \in settled[s] \/ n < floor[s]

\* The parts of OneCopyWithoutSeek.
Distinct(q) == \A i, j \in 1 .. Len(q) : i # j => q[i].seq # q[j].seq
OneHand(s) ==
  \A k, l \in Slots :
    hand[s][k].st # "free" /\ hand[s][l].st # "free" /\ k # l => hand[s][k].seq # hand[s][l].seq
Seqs(q) == {q[i].seq : i \in 1 .. Len(q)}
Apart(s) == \A k \in Slots : hand[s][k].st # "free" => hand[s][k].seq \notin Seqs(queue[s])
Gone(s) ==
  \A n \in settled[s] :
    /\ n \notin Seqs(queue[s])
    /\ \A k \in Slots : hand[s][k].st # "free" => hand[s][k].seq # n
OneCopy(s) == Distinct(queue[s]) /\ OneHand(s) /\ Apart(s) /\ Gone(s)

\* A queue that takes a delivery at its end, and one that gives its head away.
Grows(q, p, d) ==
  /\ Len(p) = Len(q) + 1
  /\ \A i \in 1 .. Len(q) : p[i] = q[i]
  /\ p[Len(q) + 1] = d

Shrinks(q, p) ==
  /\ Len(q) > 0 /\ Len(p) = Len(q) - 1
  /\ \A i \in 1 .. Len(p) : p[i] = q[i + 1]

LEMMA GrowsOnly ==
  ASSUME NEW q, NEW p, NEW d, Len(q) \in Nat, Grows(q, p, d)
  PROVE  /\ Len(p) \in Nat
         /\ \A i \in 1 .. Len(p) : \/ i \in 1 .. Len(q) /\ p[i] = q[i]
                                   \/ i = Len(q) + 1 /\ p[i] = d
         /\ \A i \in 1 .. Len(q) : i \in 1 .. Len(p) /\ p[i] = q[i]
         /\ Len(q) + 1 \in 1 .. Len(p) /\ p[Len(q) + 1] = d
BY DEF Grows

LEMMA ShrinksOnly ==
  ASSUME NEW q, NEW p, Len(q) \in Nat, Shrinks(q, p)
  PROVE  /\ Len(p) \in Nat /\ 1 \in 1 .. Len(q)
         /\ \A i \in 1 .. Len(p) : i + 1 \in 1 .. Len(q) /\ p[i] = q[i + 1]
         /\ \A i \in 1 .. Len(q) : i = 1 \/ (i - 1 \in 1 .. Len(p) /\ p[i - 1] = q[i])
<1>1. Len(p) = Len(q) - 1 /\ Len(q) > 0 /\ Len(p) \in Nat
  BY DEF Shrinks
<1>2. \A i \in 1 .. Len(p) : i + 1 \in 1 .. Len(q) /\ p[i] = q[i + 1]
  BY <1>1 DEF Shrinks
<1>3. ASSUME NEW i \in 1 .. Len(q), i # 1
      PROVE  i - 1 \in 1 .. Len(p) /\ p[i - 1] = q[i]
  <2>1. i - 1 \in 1 .. Len(p) /\ (i - 1) + 1 = i
    BY <1>1, <1>3
  <2>2. p[i - 1] = q[(i - 1) + 1]
    BY <1>2, <2>1
  <2> QED BY <2>1, <2>2
<1> QED BY <1>1, <1>2, <1>3

LEMMA QueueMoves ==
  ASSUME NEW q \in Seq(Deliveries), NEW d \in Deliveries
  PROVE  /\ Len(q) \in Nat
         /\ \A i \in 1 .. Len(q) : q[i] \in Deliveries
         /\ Grows(q, Append(q, d), d)
         /\ q # << >> => Shrinks(q, Tail(q)) /\ Head(q) = q[1]
BY QueueSteps DEF Grows, Shrinks

\* What TypeOK says of the numbers in the state.
LEMMA Numbers ==
  ASSUME TypeOK
  PROVE  /\ NextSeq(log) \in Nat /\ log.first_seq \in Nat
         /\ \A s \in Subs : /\ Len(queue[s]) \in Nat
                            /\ \A i \in 1 .. Len(queue[s]) : /\ queue[s][i].seq \in Nat
                                                             /\ queue[s][i].deliveries \in Nat
                            /\ \A n \in owed[s] \cup settled[s] : n \in Nat
                            /\ watermark[s] \in Nat
         /\ \A s \in Subs, k \in Slots : /\ hand[s][k].seq \in Nat
                                         /\ hand[s][k].deliveries \in Nat
<1>1. NextSeq(log) \in Nat /\ log.first_seq \in Nat
  BY LenProperties DEF TypeOK, NextSeq
<1>2. ASSUME NEW s \in Subs
      PROVE  /\ Len(queue[s]) \in Nat
             /\ \A i \in 1 .. Len(queue[s]) : queue[s][i] \in Deliveries
  <2>1. queue[s] \in Seq(Deliveries)
    BY DEF TypeOK
  <2> QED BY <2>1, LenProperties, ElementOfSeq
<1>3. \A d \in Deliveries : d.seq \in Nat /\ d.deliveries \in Nat
  BY DEF Deliveries
<1>4. \A s \in Subs : /\ \A n \in owed[s] \cup settled[s] : n \in Nat
                      /\ watermark[s] \in Nat
  BY DEF TypeOK
<1>5. \A s \in Subs, k \in Slots : /\ hand[s][k].seq \in Nat
                                   /\ hand[s][k].deliveries \in Nat
  BY SMTT(30) DEF TypeOK, Hands
<1> QED BY <1>1, <1>2, <1>3, <1>4, <1>5

\* What the steps that touch a queue or a hand do to them.
LEMMA PublishFacts ==
  ASSUME TypeOK, NEW size \in Sizes, Publish(size)
  PROVE  /\ NextSeq(log) \in Nat /\ NextSeq(log') = NextSeq(log) + 1
         /\ log'.first_seq >= log.first_seq /\ log'.first_seq < NextSeq(log')
         /\ log'.first_seq \in Nat /\ log.first_seq \in Nat
         /\ [seq |-> NextSeq(log), deliveries |-> 1] \in Deliveries
         /\ \A r \in Subs :
              \/ /\ r \in registered /\ Receiving(r)
                 /\ Grows(queue[r], queue'[r], [seq |-> NextSeq(log), deliveries |-> 1])
                 /\ owed'[r] = owed[r] \cup {NextSeq(log)}
              \/ /\ ~(r \in registered /\ Receiving(r))
                 /\ queue'[r] = queue[r] /\ owed'[r] = owed[r]
<1>1. log.entries \in Seq(Sizes) /\ log.first_seq \in Nat
  BY DEF TypeOK
<1>2. log' = Push(Retention, log, size)
  BY DEF Publish
<1>3. NextSeq(log) \in Nat
  BY <1>1, LenProperties DEF NextSeq
<1>4. /\ NextSeq(log') = NextSeq(log) + 1 /\ log'.first_seq \in Nat
      /\ log'.first_seq >= log.first_seq /\ log'.first_seq <= NextSeq(log)
  BY <1>1, <1>2, PushProperties
<1> DEFINE d == [seq |-> NextSeq(log), deliveries |-> 1]
<1>5. d \in Deliveries
  BY <1>3 DEF Deliveries
<1>6. \A r \in Subs : Grows(queue[r], Append(queue[r], d), d)
  BY <1>5, QueueMoves DEF TypeOK
<1>7. ASSUME NEW r \in Subs
      PROVE  \/ /\ r \in registered /\ Receiving(r)
                /\ queue'[r] = Append(queue[r], d)
                /\ owed'[r] = owed[r] \cup {NextSeq(log)}
             \/ /\ ~(r \in registered /\ Receiving(r))
                /\ queue'[r] = queue[r] /\ owed'[r] = owed[r]
  BY DEF Publish
<1>8. log'.first_seq < NextSeq(log')
  BY <1>3, <1>4
<1>9. \A r \in Subs :
        \/ /\ r \in registered /\ Receiving(r)
           /\ Grows(queue[r], queue'[r], d)
           /\ owed'[r] = owed[r] \cup {NextSeq(log)}
        \/ /\ ~(r \in registered /\ Receiving(r))
           /\ queue'[r] = queue[r] /\ owed'[r] = owed[r]
  <2> HIDE DEF d
  <2> QED BY <1>6, <1>7
<1> QED BY <1>1, <1>3, <1>4, <1>5, <1>8, <1>9

LEMMA YieldFacts ==
  ASSUME TypeOK, NEW s \in Subs, NEW k \in Slots, Yield(s, k)
  PROVE  /\ Shrinks(queue[s], queue'[s]) /\ queue[s][1] \in Deliveries
         /\ queue[s][1].seq >= watermark[s]
         /\ hand[s][k].st = "free"
         /\ hand'[s][k].st = "held" /\ hand'[s][k].seq = queue[s][1].seq
         /\ hand'[s][k].deliveries = queue[s][1].deliveries
         /\ \A l \in Slots \ {k} : hand'[s][l] = hand[s][l]
         /\ \A r \in Subs \ {s} : queue'[r] = queue[r] /\ hand'[r] = hand[r]
<1>1. queue \in [Subs -> Seq(Deliveries)] /\ hand \in [Subs -> [Slots -> Hands]]
  BY DEF TypeOK
<1>2. queue[s] # << >> /\ queue' = [queue EXCEPT ![s] = Tail(@)]
  BY DEF Yield
<1>3. Shrinks(queue[s], Tail(queue[s])) /\ Head(queue[s]) = queue[s][1]
      /\ queue[s][1] \in Deliveries
  <2>1. queue[s] \in Seq(Deliveries) /\ Head(queue[s]) \in Deliveries
    BY <1>1, <1>2, HeadTailProperties
  <2> QED BY <1>2, <2>1, QueueMoves
<1>4. Shrinks(queue[s], queue'[s]) /\ \A r \in Subs \ {s} : queue'[r] = queue[r]
  BY <1>1, <1>2, <1>3
<1>5. hand' = [hand EXCEPT ![s][k] = Held("held", queue[s][1])] /\ hand[s][k].st = "free"
  BY <1>3 DEF Yield, FreeSlots
<1>6. queue[s][1].seq >= watermark[s]
  <2>1. ~(queue[s][1].seq < watermark[s])
    BY <1>3 DEF Yield, Stale
  <2>2. queue[s][1].seq \in Nat /\ watermark[s] \in Nat
    BY <1>3 DEF Deliveries, TypeOK
  <2> QED BY <2>1, <2>2
<1>7. /\ hand'[s][k] = Held("held", queue[s][1])
      /\ \A l \in Slots \ {k} : hand'[s][l] = hand[s][l]
      /\ \A r \in Subs \ {s} : hand'[r] = hand[r]
  BY <1>1, <1>5
<1> QED BY <1>3, <1>4, <1>5, <1>6, <1>7 DEF Held

LEMMA DropFacts ==
  ASSUME TypeOK, NEW s \in Subs, DropStale(s)
  PROVE  /\ Shrinks(queue[s], queue'[s]) /\ queue[s][1].seq < watermark[s]
         /\ queue[s][1] \in Deliveries
         /\ \A r \in Subs \ {s} : queue'[r] = queue[r]
<1>1. queue \in [Subs -> Seq(Deliveries)]
  BY DEF TypeOK
<1>2. queue[s] # << >> /\ queue' = [queue EXCEPT ![s] = Tail(@)]
  BY DEF DropStale
<1>3. Shrinks(queue[s], Tail(queue[s])) /\ Head(queue[s]) = queue[s][1]
      /\ queue[s][1] \in Deliveries
  <2>1. queue[s] \in Seq(Deliveries) /\ Head(queue[s]) \in Deliveries
    BY <1>1, <1>2, HeadTailProperties
  <2> QED BY <1>2, <2>1, QueueMoves
<1> QED BY <1>1, <1>2, <1>3 DEF DropStale, Stale

\* What goes back is a delivery in hand, counted twice or more where the timer kept the count.
LEMMA BackFacts ==
  ASSUME TypeOK, NEW s \in Subs, NEW k \in Slots, Requeue(s, k) \/ TimerFires(s, k)
  PROVE  \E d \in Deliveries :
           /\ d.seq = hand[s][k].seq /\ hand[s][k].st # "free"
           /\ \/ d.deliveries >= 2
              \/ hand[s][k].st = "delayed" /\ d.deliveries = hand[s][k].deliveries
           /\ \/ Receiving(s) /\ Grows(queue[s], queue'[s], d)
              \/ ~Receiving(s) /\ queue'[s] = queue[s]
           /\ hand'[s][k].st = "free"
           /\ \A l \in Slots \ {k} : hand'[s][l] = hand[s][l]
           /\ \A r \in Subs \ {s} : queue'[r] = queue[r] /\ hand'[r] = hand[r]
<1>1. queue \in [Subs -> Seq(Deliveries)] /\ hand \in [Subs -> [Slots -> Hands]]
  BY DEF TypeOK
<1>2. /\ hand'[s][k].st = "free"
      /\ \A l \in Slots \ {k} : hand'[s][l] = hand[s][l]
      /\ \A r \in Subs \ {s} : hand'[r] = hand[r]
  BY <1>1 DEF Requeue, TimerFires, Release, Free
<1>3. hand[s][k].seq \in Nat /\ hand[s][k].deliveries \in 1 .. MaxDeliveries
  BY <1>1 DEF Hands
<1> DEFINE Back(d) ==
             /\ d.seq = hand[s][k].seq /\ hand[s][k].st # "free"
             /\ \/ d.deliveries >= 2
                \/ hand[s][k].st = "delayed" /\ d.deliveries = hand[s][k].deliveries
             /\ SendBack(s, d)
<1>4. \E d \in Deliveries : Back(d)
  <2>1. CASE Requeue(s, k)
    <3> DEFINE d == [seq |-> hand[s][k].seq, deliveries |-> hand[s][k].deliveries + 1]
    <3>1. d = Redelivered(HandDelivery(s, k))
      BY DEF Redelivered, HandDelivery
    <3>2. d \in Deliveries /\ d.deliveries >= 2
      BY <1>3, <2>1 DEF Requeue, Deliveries
    <3>3. SendBack(s, d) /\ hand[s][k].st # "free"
      BY <2>1, <3>1 DEF Requeue
    <3> QED BY <3>2, <3>3
  <2>2. CASE TimerFires(s, k)
    <3>1. HandDelivery(s, k) \in Deliveries
      BY <1>3 DEF HandDelivery, Deliveries
    <3>2. Back(HandDelivery(s, k))
      BY <2>2 DEF TimerFires, HandDelivery
    <3> QED BY <3>1, <3>2
  <2> QED BY <2>1, <2>2
<1>5. PICK d \in Deliveries : Back(d)
  BY <1>4
<1>6. Grows(queue[s], Append(queue[s], d), d)
  BY <1>1, QueueMoves
<1>7. /\ \/ Receiving(s) /\ queue'[s] = Append(queue[s], d)
         \/ ~Receiving(s) /\ queue'[s] = queue[s]
      /\ \A r \in Subs \ {s} : queue'[r] = queue[r]
  BY <1>1, <1>5 DEF SendBack
<1> QED BY <1>2, <1>5, <1>6, <1>7

LEMMA HandFacts ==
  ASSUME TypeOK, NEW s \in Subs, NEW k \in Slots, Settle(s, k) \/ NackAfter(s, k)
  PROVE  /\ hand[s][k].st = "held"
         /\ Settle(s, k) => hand'[s][k].st = "free"
         /\ NackAfter(s, k) => /\ hand'[s][k].st = "delayed" /\ hand'[s][k].seq = hand[s][k].seq
                               /\ hand'[s][k].deliveries >= 2
         /\ \A l \in Slots \ {k} : hand'[s][l] = hand[s][l]
         /\ \A r \in Subs \ {s} : hand'[r] = hand[r]
         /\ queue' = queue
<1>1. hand \in [Subs -> [Slots -> Hands]]
  BY DEF TypeOK
<1>2. hand[s][k].seq \in Nat /\ hand[s][k].deliveries \in 1 .. MaxDeliveries
  BY <1>1 DEF Hands
<1>3. CASE Settle(s, k)
  <2>1. hand' = [hand EXCEPT ![s][k] = Free] /\ queue' = queue /\ hand[s][k].st = "held"
    BY <1>3 DEF Settle, Release
  <2>2. ~NackAfter(s, k)
    <3>1. hand'[s][k] = Free
      BY <1>1, <2>1
    <3>2. NackAfter(s, k) => hand'[s][k].st = "delayed"
      BY <1>1 DEF NackAfter, Held
    <3> QED BY <3>1, <3>2 DEF Free
  <2> QED BY <1>1, <2>1, <2>2 DEF Free
<1>4. CASE NackAfter(s, k)
  <2> DEFINE h == [st |-> "delayed", seq |-> hand[s][k].seq,
                   deliveries |-> hand[s][k].deliveries + 1]
  <2>1. h = Held("delayed", Redelivered(HandDelivery(s, k)))
    BY DEF Held, Redelivered, HandDelivery
  <2>2. hand' = [hand EXCEPT ![s][k] = h] /\ queue' = queue /\ hand[s][k].st = "held"
    BY <1>4, <2>1 DEF NackAfter
  <2>3. /\ hand'[s][k] = h
        /\ \A l \in Slots \ {k} : hand'[s][l] = hand[s][l]
        /\ \A r \in Subs \ {s} : hand'[r] = hand[r]
    <3> HIDE DEF h
    <3> QED BY <1>1, <2>2
  <2>4. ~Settle(s, k)
    <3>1. Settle(s, k) => hand'[s][k].st = "free"
      BY <1>1 DEF Settle, Release, Free
    <3> QED BY <2>3, <3>1
  <2> QED BY <1>2, <2>2, <2>3, <2>4
<1> QED BY <1>3, <1>4

LEMMA ReplayDrainFacts ==
  ASSUME TypeOK, NEW s \in Subs, ReplayDrain(s)
  PROVE  /\ taken[s] \in Nat /\ poll[s] = "replay" /\ live
         /\ poll'[s] = "refill" /\ taken'[s] = ReplayStart(log, taken[s])
         /\ queue'[s] = << >> /\ Len(queue'[s]) = 0
         /\ \A r \in Subs \ {s} : /\ queue'[r] = queue[r] /\ poll'[r] = poll[r]
                                  /\ taken'[r] = taken[r]
         /\ UNCHANGED <<log, hand>>
<1>1. taken[s] \in Nat
  BY DEF ReplayDrain, TypeOK
<1>2. queue \in [Subs -> Seq(Deliveries)] /\ DOMAIN poll = Subs /\ DOMAIN taken = Subs
  BY DEF TypeOK
<1> QED BY <1>1, <1>2, EmptySeq DEF ReplayDrain, TypeOK, busVars

LEMMA ReplaySendFacts ==
  ASSUME TypeOK, NEW s \in Subs, ReplaySend(s)
  PROVE  \E d \in Deliveries :
           /\ d.seq = taken[s] /\ d.deliveries = 1 /\ taken[s] \in Nat
           /\ taken[s] < NextSeq(log) /\ poll[s] = "refill" /\ poll' = poll
           /\ taken'[s] = taken[s] + 1 /\ Grows(queue[s], queue'[s], d)
           /\ \A r \in Subs \ {s} : queue'[r] = queue[r] /\ taken'[r] = taken[r]
           /\ UNCHANGED <<log, hand>>
<1> DEFINE d == [seq |-> taken[s], deliveries |-> 1]
<1>1. taken[s] \in Nat
  BY DEF ReplaySend, TypeOK
<1>2. d \in Deliveries /\ d.seq = taken[s] /\ d.deliveries = 1
  BY <1>1 DEF Deliveries
<1>3. queue \in [Subs -> Seq(Deliveries)] /\ taken \in [Subs -> Nat \cup {None}]
  BY DEF TypeOK
<1>4. queue' = [queue EXCEPT ![s] = Append(@, d)]
  BY DEF ReplaySend
<1>5. /\ taken[s] < NextSeq(log) /\ poll[s] = "refill"
      /\ taken' = [taken EXCEPT ![s] = @ + 1] /\ UNCHANGED <<poll, log, hand>>
  BY DEF ReplaySend, busVars
<1> HIDE DEF d
<1>6. Grows(queue[s], Append(queue[s], d), d)
  BY <1>2, <1>3, QueueMoves
<1> QED BY <1>1, <1>2, <1>3, <1>4, <1>5, <1>6

LEMMA BoundStep ==
  ASSUME TypeOK, BoundInv, [Next]_vars
  PROVE  BoundInv'
  <1> USE DEF busVars, pollVars, seekVars, historyVars, BoundInv
  <1>t. /\ queue \in [Subs -> Seq(Deliveries)] /\ hand \in [Subs -> [Slots -> Hands]]
        /\ watermark \in [Subs -> Nat]
        /\ owed \in [Subs -> SUBSET Nat] /\ settled \in [Subs -> SUBSET Nat]
    BY DEF TypeOK
  <1>n. /\ NextSeq(log) \in Nat /\ log.first_seq \in Nat
        /\ \A s \in Subs : watermark[s] \in Nat
    BY Numbers
  <1>q. \A s \in Subs : /\ Len(queue[s]) \in Nat
                        /\ \A i \in 1 .. Len(queue[s]) : queue[s][i].seq \in Nat
                        /\ \A n \in owed[s] \cup settled[s] : n \in Nat
    BY Numbers
  <1>h. \A s \in Subs, k \in Slots : hand[s][k].seq \in Nat /\ hand[s][k].deliveries \in Nat
    BY Numbers
  <1>1. ASSUME NEW s \in Subs, Unsubscribe(s)
        PROVE  BoundInv'
    <2>1. queue'[s] = << >> /\ \A r \in Subs \ {s} : queue'[r] = queue[r]
      BY <1>t, <1>1 DEF Unsubscribe
    <2>2. Len(queue'[s]) = 0
      BY <2>1, EmptySeq
    <2>3. UNCHANGED <<log, hand, owed, settled, watermark>>
      BY <1>1 DEF Unsubscribe
    <2> QED BY <1>n, <2>1, <2>2, <2>3
  <1>2. ASSUME NEW size \in Sizes, Publish(size)
        PROVE  BoundInv'
    <2> DEFINE n == NextSeq(log)
               m == NextSeq(log')
    <2>1. UNCHANGED <<hand, settled, watermark>>
      BY <1>2 DEF Publish
    <2>2. n \in Nat /\ m = n + 1 /\ log'.first_seq < m
      BY <1>2, PublishFacts
    <2>3. \A r \in Subs : /\ \A i \in 1 .. Len(queue'[r]) : queue'[r][i].seq < m
                          /\ \A x \in owed'[r] : x < m
      <3> TAKE r \in Subs
      <3>1. /\ \A i \in 1 .. Len(queue[r]) : queue[r][i].seq < m
            /\ \A x \in owed[r] : x < m
        BY <1>t, <1>q, <2>2
      <3>2. CASE /\ Grows(queue[r], queue'[r], [seq |-> n, deliveries |-> 1])
                 /\ owed'[r] = owed[r] \cup {n}
        <4>1. /\ Len(queue'[r]) = Len(queue[r]) + 1
              /\ \A i \in 1 .. Len(queue[r]) : queue'[r][i].seq < m
              /\ queue'[r][Len(queue[r]) + 1].seq < m
          BY SMTT(30), <2>2, <3>1, <3>2 DEF Grows
        <4> HIDE DEF n, m
        <4> QED BY <1>q, <2>2, <3>1, <3>2, <4>1
      <3>3. CASE queue'[r] = queue[r] /\ owed'[r] = owed[r]
        BY <3>1, <3>3
      <3> QED BY <1>2, <3>2, <3>3, PublishFacts
    <2> HIDE DEF n, m
    <2>4. \A r \in Subs : /\ \A k \in Slots : hand[r][k].st # "free" => hand[r][k].seq < m
                          /\ \A x \in settled[r] : x < m
                          /\ watermark[r] <= m
      BY <1>t, <1>h, <2>2 DEF n
    <2> QED BY <2>1, <2>2, <2>3, <2>4 DEF m
  <1>3. ASSUME NEW s \in Subs, NEW to \in Positions(MaxPublish), SeekStore(s, to)
        PROVE  BoundInv'
    <2>1. Resolve(to, log) \in Nat /\ Resolve(to, log) <= NextSeq(log)
      BY <1>3, ResolveProperties DEF SeekStore, TypeOK
    <2> QED BY <1>t, <2>1, <1>3 DEF SeekStore
  <1>4. ASSUME NEW s \in Subs, ReplayDrain(s) \/ ReplaySend(s)
        PROVE  BoundInv'
    <2>1. UNCHANGED <<log, hand, owed, settled, watermark>>
      BY <1>4 DEF ReplayDrain, ReplaySend
    <2>2. CASE ReplayDrain(s)
      BY <2>1, <2>2, ReplayDrainFacts
    <2>3. CASE ReplaySend(s)
      <3>1. PICK d \in Deliveries :
              /\ d.seq = taken[s] /\ taken[s] < NextSeq(log) /\ Grows(queue[s], queue'[s], d)
              /\ \A r \in Subs \ {s} : queue'[r] = queue[r]
        BY <2>3, ReplaySendFacts
      <3>2. \A i \in 1 .. Len(queue'[s]) : queue'[s][i].seq < NextSeq(log)
        BY SMTT(30), <1>q, <3>1 DEF Grows
      <3> QED BY <2>1, <3>1, <3>2
    <2> QED BY <1>4, <2>2, <2>3
  <1>5. ASSUME NEW s \in Subs, DropStale(s)
        PROVE  BoundInv'
    <2>1. UNCHANGED <<log, hand, owed, settled, watermark>>
      BY <1>5 DEF DropStale
    <2>2. \A i \in 1 .. Len(queue'[s]) : queue'[s][i].seq < NextSeq(log)
      <3>1. Shrinks(queue[s], queue'[s])
        BY <1>5, DropFacts
      <3>2. \A i \in 1 .. Len(queue'[s]) :
              i + 1 \in 1 .. Len(queue[s]) /\ queue'[s][i] = queue[s][i + 1]
        BY <1>q, <3>1, ShrinksOnly
      <3> QED BY <3>2
    <2> QED BY <2>1, <2>2, <1>5, DropFacts
  <1>6. ASSUME NEW s \in Subs, NEW k \in Slots, Yield(s, k)
        PROVE  BoundInv'
    <2>1. UNCHANGED <<log, owed, settled, watermark>>
      BY <1>6 DEF Yield
    <2>2. \A i \in 1 .. Len(queue'[s]) : queue'[s][i].seq < NextSeq(log)
      BY SMTT(30), <1>q, <1>6, YieldFacts, ShrinksOnly
    <2>3. queue[s][1].seq < NextSeq(log)
      BY <1>q, <1>6, YieldFacts, ShrinksOnly
    <2>4. \A r \in Subs, l \in Slots : hand'[r][l].st # "free" => hand'[r][l].seq < NextSeq(log)
      BY <2>3, <1>6, YieldFacts
    <2> QED BY <2>1, <2>2, <2>4, <1>6, YieldFacts
  <1>7. ASSUME NEW s \in Subs, NEW k \in Slots, Settle(s, k)
        PROVE  BoundInv'
    <2>1. UNCHANGED <<log, queue, owed, watermark>>
      BY <1>7 DEF Settle
    <2>2. /\ settled'[s] = settled[s] \cup {hand[s][k].seq}
          /\ \A r \in Subs \ {s} : settled'[r] = settled[r]
      BY <1>t, <1>7 DEF Settle
    <2>3. \A r \in Subs, l \in Slots : hand'[r][l].st # "free" => hand'[r][l].seq < NextSeq(log)
      BY <1>7, HandFacts
    <2> QED BY <2>1, <2>2, <2>3, <1>7, HandFacts
  <1>8. ASSUME NEW s \in Subs, NEW k \in Slots, Requeue(s, k)
        PROVE  BoundInv'
    <2>1. UNCHANGED <<log, owed, settled, watermark>>
      BY <1>8 DEF Requeue
    <2>2. PICK d \in Deliveries :
            /\ d.seq = hand[s][k].seq /\ hand[s][k].st # "free"
            /\ Grows(queue[s], queue'[s], d) \/ queue'[s] = queue[s]
      BY <1>8, BackFacts
    <2>3. \A i \in 1 .. Len(queue'[s]) : queue'[s][i].seq < NextSeq(log)
      BY SMTT(30), <1>q, <2>2 DEF Grows
    <2>4. /\ \A r \in Subs \ {s} : queue'[r] = queue[r]
          /\ \A r \in Subs, l \in Slots : hand'[r][l].st # "free" => hand'[r][l] = hand[r][l]
      BY <1>8, BackFacts
    <2> QED BY <2>1, <2>3, <2>4
  <1>9. ASSUME NEW s \in Subs, NEW k \in Slots, NackAfter(s, k)
        PROVE  BoundInv'
    <2>1. UNCHANGED <<log, queue, owed, settled, watermark>>
      BY <1>9 DEF NackAfter
    <2>2. \A r \in Subs, l \in Slots : hand'[r][l].st # "free" => hand'[r][l].seq < NextSeq(log)
      BY <1>9, HandFacts
    <2> QED BY <2>1, <2>2
  <1>10. ASSUME NEW s \in Subs, NEW k \in Slots, TimerFires(s, k)
         PROVE  BoundInv'
    <2>1. UNCHANGED <<log, owed, settled, watermark>>
      BY <1>10 DEF TimerFires
    <2>2. PICK d \in Deliveries :
            /\ d.seq = hand[s][k].seq /\ hand[s][k].st # "free"
            /\ Grows(queue[s], queue'[s], d) \/ queue'[s] = queue[s]
      BY <1>10, BackFacts
    <2>3. \A i \in 1 .. Len(queue'[s]) : queue'[s][i].seq < NextSeq(log)
      BY SMTT(30), <1>q, <2>2 DEF Grows
    <2>4. /\ \A r \in Subs \ {s} : queue'[r] = queue[r]
          /\ \A r \in Subs, l \in Slots : hand'[r][l].st # "free" => hand'[r][l] = hand[r][l]
      BY <1>10, BackFacts
    <2> QED BY <2>1, <2>3, <2>4
  <1>11. ASSUME NEW s \in Subs,
                Subscribe(s) \/ SeekRecord(s) \/ SeekReturn(s) \/ BeginPoll(s)
                \/ TakeSeek(s) \/ ReplayRefused(s) \/ ReplayEnd(s) \/ Drained(s)
         PROVE  BoundInv'
    BY <1>11 DEF Subscribe, SeekRecord, SeekReturn, BeginPoll, TakeSeek, ReplayRefused,
       ReplayEnd, Drained
  <1>12. CASE \/ Shutdown \/ Connect \/ UNCHANGED vars
    BY <1>12 DEF Shutdown, Connect, vars
  <1> QED
    BY <1>1, <1>2, <1>3, <1>4, <1>5, <1>6, <1>7, <1>8, <1>9, <1>10, <1>11, <1>12 DEF Next,
       BusStep, SeekStep, PollStep, SettleStep

\* A queue in order stays so when it loses its head, and when it takes a redelivery or a message
\* past all it holds.
LEMMA OrderKept ==
  ASSUME NEW q, NEW p, Len(q) \in Nat, InOrder(q), Shrinks(q, p)
  PROVE  InOrder(p)
<1>1. ASSUME NEW i \in 1 .. Len(p), NEW j \in 1 .. Len(p), i < j,
             p[i].deliveries = 1, p[j].deliveries = 1
      PROVE  p[i].seq < p[j].seq
  <2>1. i + 1 \in 1 .. Len(q) /\ j + 1 \in 1 .. Len(q) /\ p[i] = q[i + 1] /\ p[j] = q[j + 1]
    BY ShrinksOnly
  <2>2. i + 1 < j + 1
    BY <1>1, ShrinksOnly
  <2> QED BY <1>1, <2>1, <2>2 DEF InOrder
<1> QED BY <1>1 DEF InOrder

LEMMA OrderGrows ==
  ASSUME NEW q, NEW p, NEW d, Len(q) \in Nat, InOrder(q), Grows(q, p, d),
         d.deliveries # 1 \/ \A i \in 1 .. Len(q) : q[i].deliveries = 1 => q[i].seq < d.seq
  PROVE  InOrder(p)
<1>1. ASSUME NEW i \in 1 .. Len(p), NEW j \in 1 .. Len(p), i < j,
             p[i].deliveries = 1, p[j].deliveries = 1
      PROVE  p[i].seq < p[j].seq
  <2>1. i \in 1 .. Len(q) /\ p[i] = q[i]
    BY <1>1, GrowsOnly DEF Grows
  <2>2. CASE j \in 1 .. Len(q) /\ p[j] = q[j]
    BY <1>1, <2>1, <2>2 DEF InOrder
  <2>3. CASE p[j] = d
    BY <1>1, <2>1, <2>3
  <2> QED BY <2>2, <2>3, GrowsOnly
<1> QED BY <1>1 DEF InOrder

\* A delivery that is no first one may join a queue a replay is filling.
LEMMA BehindKept ==
  ASSUME NEW s \in Subs, Behind(s), Len(queue[s]) \in Nat,
         poll'[s] = "refill" => poll[s] = "refill" /\ taken'[s] = taken[s],
         \/ queue'[s] = queue[s]
         \/ \E d : Grows(queue[s], queue'[s], d) /\ d.deliveries # 1
         \/ Len(queue'[s]) = 0
  PROVE  Behind(s)'
<1>1. CASE queue'[s] = queue[s]
  BY <1>1 DEF Behind
<1>2. CASE Len(queue'[s]) = 0
  BY <1>2 DEF Behind
<1>3. ASSUME NEW d, Grows(queue[s], queue'[s], d), d.deliveries # 1 PROVE Behind(s)'
  <2>1. \A i \in 1 .. Len(queue'[s]) :
          \/ i \in 1 .. Len(queue[s]) /\ queue'[s][i] = queue[s][i]
          \/ queue'[s][i] = d
    BY <1>3, GrowsOnly
  <2> QED BY <1>3, <2>1 DEF Behind
<1> QED BY <1>1, <1>2, <1>3

LEMMA FreshStep ==
  ASSUME TypeOK, BoundInv, FreshInv, [Next]_vars
  PROVE  FreshInv'
  <1> USE DEF busVars, pollVars, seekVars, historyVars
  <1> DEFINE Old(h) == \A r \in Subs, l \in Slots :
                         h[r][l].st = "delayed" => h[r][l].deliveries >= 2
  <1>k. /\ \A s \in Subs : InOrder(queue[s]) /\ Behind(s)
        /\ Old(hand)
    BY DEF FreshInv
  <1>q. \A s \in Subs : Len(queue[s]) \in Nat
    BY Numbers
  <1>t. /\ poll \in [Subs -> {"idle", "begun", "replay", "refill", "fresh", "parked"}]
        /\ taken \in [Subs -> Nat \cup {None}]
    BY DEF TypeOK
  <1>s. ASSUME \A s \in Subs : InOrder(queue'[s]) /\ Behind(s)', Old(hand')
        PROVE  FreshInv'
    BY <1>s DEF FreshInv
  <1> HIDE DEF Old
  <1>b. ASSUME UNCHANGED <<poll, taken>>, NEW r \in Subs,
               \/ queue'[r] = queue[r]
               \/ \E d : Grows(queue[r], queue'[r], d) /\ d.deliveries # 1
               \/ Len(queue'[r]) = 0
        PROVE  Behind(r)'
    BY <1>b, <1>k, <1>q, BehindKept
  <1>u. ASSUME UNCHANGED queue, Old(hand'),
               \A r \in Subs : poll'[r] = "refill" => poll[r] = "refill" /\ taken'[r] = taken[r]
        PROVE  FreshInv'
    <2>1. \A r \in Subs : Behind(r)'
      BY <1>k, <1>q, <1>u, BehindKept
    <2> QED BY <1>k, <1>s, <1>u, <2>1
  <1>1. ASSUME NEW s \in Subs, Unsubscribe(s)
        PROVE  FreshInv'
    <2>1. queue'[s] = << >> /\ \A r \in Subs \ {s} : queue'[r] = queue[r]
      BY <1>1 DEF Unsubscribe, TypeOK
    <2>2. InOrder(queue'[s]) /\ Len(queue'[s]) = 0
      BY <2>1, EmptySeq DEF InOrder
    <2>3. hand' = hand
      BY <1>1 DEF Unsubscribe
    <2>4. \A r \in Subs : poll'[r] = "refill" => poll[r] = "refill" /\ taken'[r] = taken[r]
      BY <1>t, <1>1 DEF Unsubscribe
    <2>5. \A r \in Subs : Behind(r)'
      BY <1>k, <1>q, <2>1, <2>2, <2>4, BehindKept
    <2> QED BY <1>k, <1>s, <2>1, <2>2, <2>3, <2>5
  <1>2. ASSUME NEW size \in Sizes, Publish(size)
        PROVE  FreshInv'
    <2>1. hand' = hand /\ poll' = poll
      BY <1>2 DEF Publish
    <2>2. ASSUME NEW r \in Subs PROVE InOrder(queue'[r])
      <3> DEFINE d == [seq |-> NextSeq(log), deliveries |-> 1]
      <3>1. Grows(queue[r], queue'[r], d) \/ queue'[r] = queue[r]
        BY <1>2, PublishFacts
      <3>2. \A i \in 1 .. Len(queue[r]) : queue[r][i].seq < d.seq
        BY DEF BoundInv
      <3> HIDE DEF d
      <3>3. InOrder(queue[r])
        BY <1>k
      <3> QED BY <1>q, <3>1, <3>2, <3>3, OrderGrows
    <2>3. \A r \in Subs : poll[r] # "refill"
      BY <1>2 DEF Publish, BusLocked
    <2>4. \A r \in Subs : Behind(r)'
      BY <2>1, <2>3 DEF Behind
    <2> QED BY <1>k, <1>s, <2>1, <2>2, <2>4
  <1>3. ASSUME NEW s \in Subs, ReplayDrain(s)
        PROVE  FreshInv'
    <2>1. hand' = hand /\ Len(queue'[s]) = 0
      BY <1>3, ReplayDrainFacts
    <2>2. InOrder(queue'[s]) /\ Behind(s)'
      BY <2>1 DEF InOrder, Behind
    <2>3. ASSUME NEW r \in Subs \ {s} PROVE InOrder(queue'[r]) /\ Behind(r)'
      <3>1. queue'[r] = queue[r] /\ poll'[r] = poll[r] /\ taken'[r] = taken[r]
        BY <1>3, ReplayDrainFacts
      <3> QED BY <1>k, <3>1 DEF Behind
    <2> QED BY <1>k, <1>s, <2>1, <2>2, <2>3
  <1>4. ASSUME NEW s \in Subs, DropStale(s)
        PROVE  FreshInv'
    <2>1. UNCHANGED <<hand, poll, taken>> /\ poll[s] = "fresh"
      BY <1>4 DEF DropStale
    <2>2. InOrder(queue'[s])
      <3>1. Shrinks(queue[s], queue'[s])
        BY <1>4, DropFacts
      <3> QED BY <1>k, <1>q, <3>1, OrderKept
    <2>3. Behind(s)'
      BY <2>1 DEF Behind
    <2>4. \A r \in Subs \ {s} : queue'[r] = queue[r]
      BY <1>4, DropFacts
    <2> QED BY <1>b, <1>k, <1>s, <2>1, <2>2, <2>3, <2>4
  <1>5. ASSUME NEW s \in Subs, NEW k \in Slots, Yield(s, k)
        PROVE  FreshInv'
    <2>1. InOrder(queue'[s])
      <3>1. Shrinks(queue[s], queue'[s])
        BY <1>5, YieldFacts
      <3> QED BY <1>k, <1>q, <3>1, OrderKept
    <2>2. /\ \A r \in Subs : poll'[r] = "refill" => poll[r] = "refill" /\ taken'[r] = taken[r]
          /\ poll'[s] # "refill"
      BY <1>t, <1>5 DEF Yield
    <2>3. Old(hand')
      <3>1. \A r \in Subs, l \in Slots : hand'[r][l].st = "delayed" => hand'[r][l] = hand[r][l]
        BY <1>5, YieldFacts
      <3> QED BY <1>k, <3>1 DEF Old
    <2>4. Behind(s)'
      BY <2>2 DEF Behind
    <2>5. \A r \in Subs \ {s} : queue'[r] = queue[r]
      BY <1>5, YieldFacts
    <2>6. \A r \in Subs \ {s} : Behind(r)'
      BY <1>k, <1>q, <2>2, <2>5, BehindKept
    <2> QED BY <1>k, <1>s, <2>1, <2>3, <2>4, <2>5, <2>6
  <1>6. ASSUME NEW s \in Subs, NEW k \in Slots, Settle(s, k) \/ NackAfter(s, k)
        PROVE  FreshInv'
    <2>1. \A r \in Subs, l \in Slots :
            hand'[r][l].st = "delayed" => hand'[r][l] = hand[r][l] \/ hand'[r][l].deliveries >= 2
      BY <1>6, HandFacts
    <2>2. Old(hand')
      BY <1>k, <2>1 DEF Old
    <2>3. UNCHANGED <<queue, poll, taken>>
      BY <1>6 DEF Settle, NackAfter
    <2> QED BY <1>u, <2>2, <2>3
  <1>7. ASSUME NEW s \in Subs, NEW k \in Slots, Requeue(s, k) \/ TimerFires(s, k)
        PROVE  FreshInv'
    <2>1. PICK d \in Deliveries :
            /\ \/ d.deliveries >= 2
               \/ hand[s][k].st = "delayed" /\ d.deliveries = hand[s][k].deliveries
            /\ Grows(queue[s], queue'[s], d) \/ queue'[s] = queue[s]
      BY <1>7, BackFacts
    <2>2. d.deliveries # 1
      BY <1>k, <2>1 DEF Old
    <2>3. InOrder(queue'[s])
      BY <1>k, <1>q, <2>1, <2>2, OrderGrows
    <2>4. /\ \A r \in Subs \ {s} : queue'[r] = queue[r]
          /\ \A r \in Subs, l \in Slots : hand'[r][l].st # "free" => hand'[r][l] = hand[r][l]
      BY <1>7, BackFacts
    <2>5. Old(hand')
      BY <1>k, <2>4 DEF Old
    <2>6. UNCHANGED <<poll, taken>>
      BY <1>7 DEF Requeue, TimerFires
    <2>7. \A r \in Subs : Behind(r)'
      BY <1>b, <2>1, <2>2, <2>4, <2>6
    <2> QED BY <1>k, <1>s, <2>3, <2>4, <2>5, <2>7
  <1>8. ASSUME NEW s \in Subs, ReplaySend(s)
        PROVE  FreshInv'
    <2>1. PICK d \in Deliveries :
            /\ d.seq = taken[s] /\ taken[s] \in Nat
            /\ poll[s] = "refill" /\ poll' = poll /\ hand' = hand
            /\ taken'[s] = taken[s] + 1 /\ Grows(queue[s], queue'[s], d)
            /\ \A r \in Subs \ {s} : queue'[r] = queue[r] /\ taken'[r] = taken[r]
      BY <1>8, ReplaySendFacts
    <2>2. \A i \in 1 .. Len(queue[s]) : /\ queue[s][i].deliveries = 1 => queue[s][i].seq < d.seq
                                        /\ queue[s][i].seq \in Nat
      BY <1>k, <2>1, Numbers DEF Behind
    <2>3. InOrder(queue'[s])
      BY <1>k, <1>q, <2>1, <2>2, OrderGrows
    <2>4. Behind(s)'
      <3>1. ASSUME NEW i \in 1 .. Len(queue'[s]), queue'[s][i].deliveries = 1
            PROVE  queue'[s][i].seq < taken[s] + 1
        <4>1. CASE i \in 1 .. Len(queue[s]) /\ queue'[s][i] = queue[s][i]
          <5>1. queue[s][i].seq < taken[s] /\ queue[s][i].seq \in Nat
            BY <2>1, <2>2, <3>1, <4>1
          <5> QED BY <2>1, <4>1, <5>1
        <4>2. CASE queue'[s][i] = d
          BY <2>1, <4>2
        <4> QED BY <1>q, <2>1, <4>1, <4>2, GrowsOnly
      <3> QED BY <2>1, <3>1 DEF Behind
    <2>5. \A r \in Subs \ {s} : Behind(r)'
      BY <1>k, <1>q, <2>1, BehindKept
    <2> QED BY <1>k, <1>s, <2>1, <2>3, <2>4, <2>5
  <1>9. ASSUME NEW s \in Subs, ReplayRefused(s) \/ ReplayEnd(s)
        PROVE  FreshInv'
    <2>1. /\ UNCHANGED <<queue, hand>>
          /\ \A r \in Subs : poll'[r] = "refill" => poll[r] = "refill" /\ taken'[r] = taken[r]
      BY <1>t, <1>9 DEF ReplayRefused, ReplayEnd
    <2> QED BY <1>k, <1>u, <2>1
  <1>10. ASSUME NEW s \in Subs,
                Subscribe(s) \/ SeekRecord(s) \/ SeekReturn(s) \/ BeginPoll(s)
                \/ TakeSeek(s) \/ Drained(s)
         PROVE  FreshInv'
    <2>1. /\ UNCHANGED <<queue, hand>>
          /\ \A r \in Subs : poll'[r] = "refill" => poll[r] = "refill" /\ taken'[r] = taken[r]
      BY <1>t, <1>10 DEF Subscribe, SeekRecord, SeekReturn, BeginPoll, TakeSeek, Drained
    <2> QED BY <1>k, <1>u, <2>1
  <1>11. ASSUME NEW s \in Subs, NEW to \in Positions(MaxPublish),
                SeekStore(s, to)
         PROVE  FreshInv'
    <2>1. UNCHANGED <<queue, hand, poll, taken>>
      BY <1>11 DEF SeekStore
    <2> QED BY <1>k, <1>u, <2>1
  <1>12. CASE \/ Shutdown \/ Connect \/ UNCHANGED vars
    <2>1. UNCHANGED <<queue, hand, poll, taken>>
      BY <1>12 DEF Shutdown, Connect, vars
    <2> QED BY <1>k, <1>u, <2>1
  <1> QED
    BY <1>1, <1>2, <1>3, <1>4, <1>5, <1>6, <1>7, <1>8, <1>9, <1>10, <1>11, <1>12 DEF Next,
       BusStep, SeekStep, PollStep, SettleStep

LEMMA FloorStep ==
  ASSUME TypeOK, BoundInv, FloorInv, [Next]_vars
  PROVE  FloorInv'
  <1> USE DEF busVars, pollVars, seekVars, historyVars, FloorInv
  <1>t. /\ watermark \in [Subs -> Nat] /\ floor \in [Subs -> Nat]
        /\ pending \in [Subs -> Nat \cup {None}] /\ taken \in [Subs -> Nat \cup {None}]
        /\ seeker \in [Subs -> [at : {"idle", "stored", "recorded"}, target : Nat]]
        /\ owed \in [Subs -> SUBSET Nat]
        /\ poll \in [Subs -> {"idle", "begun", "replay", "refill", "fresh", "parked"}]
        /\ \A s \in Subs : poll[s] = "replay" => taken[s] # None
    BY DEF TypeOK
  <1>n. log.first_seq \in Nat
    BY DEF TypeOK
  <1>1. ASSUME NEW s \in Subs, Subscribe(s)
        PROVE  FloorInv'
    BY <1>t, <1>n, <1>1 DEF Subscribe
  <1>2. ASSUME NEW size \in Sizes, Publish(size)
        PROVE  FloorInv'
    <2>1. \A r \in Subs : r \notin opened => owed'[r] = owed[r]
      BY <1>2, PublishFacts DEF Receiving
    <2> QED BY <2>1, <1>2 DEF Publish
  <1>3. ASSUME NEW s \in Subs, NEW to \in Positions(MaxPublish), SeekStore(s, to)
        PROVE  FloorInv'
    <2>1. Resolve(to, log) \in Nat
      BY <1>3, ResolveProperties DEF SeekStore, TypeOK
    <2>2. /\ floor'[s] = Higher(floor[s], Resolve(to, log))
          /\ watermark'[s] = Resolve(to, log)
          /\ seeker'[s].target = Resolve(to, log)
          /\ \A r \in Subs \ {s} : floor'[r] = floor[r] /\ watermark'[r] = watermark[r]
                                  /\ seeker'[r] = seeker[r]
          /\ UNCHANGED <<pending, taken, poll, owed, opened>>
      BY <1>t, <1>3 DEF SeekStore
    <2>3. floor'[s] >= floor[s] /\ floor'[s] >= Resolve(to, log) /\ floor'[s] \in Nat
      BY <1>t, <2>1, <2>2 DEF Higher
    <2> QED BY <1>t, <2>1, <2>2, <2>3
  <1>4. ASSUME NEW s \in Subs, SeekRecord(s)
        PROVE  FloorInv'
    BY <1>t, <1>n, <1>4 DEF SeekRecord
  <1>5. ASSUME NEW s \in Subs, SeekReturn(s)
        PROVE  FloorInv'
    BY <1>t, <1>n, <1>5 DEF SeekReturn
  <1>6. ASSUME NEW s \in Subs, TakeSeek(s)
        PROVE  FloorInv'
    BY <1>t, <1>n, <1>6 DEF TakeSeek
  <1>7. ASSUME NEW s \in Subs,
               ReplayDrain(s) \/ ReplayRefused(s) \/ ReplaySend(s) \/ ReplayEnd(s)
        PROVE  FloorInv'
    <2>1. \A r \in Subs : floor'[r] \in Nat /\ floor'[r] >= floor[r]
      <3>1. CASE ReplayDrain(s)
        <4>1. floor' = [floor EXCEPT ![s] = Higher(@, log.first_seq)]
          BY <3>1 DEF ReplayDrain
        <4>2. \A a, b \in Nat : Higher(a, b) \in Nat /\ Higher(a, b) >= a
          BY DEF Higher
        <4>3. \A a \in Nat : a >= a
          OBVIOUS
        <4> QED BY <1>t, <1>n, <4>1, <4>2, <4>3
      <3>2. CASE floor' = floor
        BY <1>t, <3>2
      <3> QED BY <1>7, <3>1, <3>2 DEF ReplayRefused, ReplaySend, ReplayEnd
    <2>2. \A r \in Subs : poll'[r] = "replay" => poll[r] = "replay" /\ taken'[r] = taken[r]
      BY <1>t, <1>7 DEF ReplayDrain, ReplayRefused, ReplaySend, ReplayEnd
    <2>3. UNCHANGED <<watermark, pending, seeker, opened, owed>>
      BY <1>7 DEF ReplayDrain, ReplayRefused, ReplaySend, ReplayEnd
    <2> QED BY <1>t, <2>1, <2>2, <2>3
  <1>8. ASSUME NEW s \in Subs,
               Unsubscribe(s) \/ BeginPoll(s) \/ DropStale(s) \/ Drained(s)
        PROVE  FloorInv'
    BY <1>t, <1>8 DEF Unsubscribe, BeginPoll, DropStale, Drained
  <1>9. ASSUME NEW s \in Subs, NEW k \in Slots,
               Yield(s, k) \/ Settle(s, k) \/ Requeue(s, k) \/ NackAfter(s, k) \/
               TimerFires(s, k)
        PROVE  FloorInv'
    BY <1>t, <1>9 DEF Yield, Settle, Requeue, NackAfter, TimerFires
  <1>10. CASE \/ Shutdown \/ Connect \/ UNCHANGED vars
    BY <1>10 DEF Shutdown, Connect, vars
  <1> QED
    BY <1>1, <1>2, <1>3, <1>4, <1>5, <1>6, <1>7, <1>8, <1>9, <1>10 DEF Next, BusStep, SeekStep,
       PollStep, SettleStep

LEMMA UnsoughtStep ==
  ASSUME TypeOK, UnsoughtInv, [Next]_vars
  PROVE  UnsoughtInv'
  <1> USE DEF busVars, pollVars, seekVars, historyVars, UnsoughtInv
  <1>t. /\ sought \in [Subs -> BOOLEAN]
        /\ pending \in [Subs -> Nat \cup {None}] /\ taken \in [Subs -> Nat \cup {None}]
        /\ seeker \in [Subs -> [at : {"idle", "stored", "recorded"}, target : Nat]]
    BY DEF TypeOK
  <1>1. ASSUME NEW s \in Subs, NEW to \in Positions(MaxPublish), SeekStore(s, to)
        PROVE  UnsoughtInv'
    BY <1>t, <1>1 DEF SeekStore
  <1>2. ASSUME NEW s \in Subs, SeekRecord(s)
        PROVE  UnsoughtInv'
    BY <1>t, <1>2 DEF SeekRecord
  <1>3. ASSUME NEW s \in Subs, SeekReturn(s)
        PROVE  UnsoughtInv'
    BY <1>t, <1>3 DEF SeekReturn
  <1>4. ASSUME NEW s \in Subs, TakeSeek(s)
        PROVE  UnsoughtInv'
    BY <1>t, <1>4 DEF TakeSeek
  <1>5. ASSUME NEW s \in Subs,
               ReplayDrain(s) \/ ReplayRefused(s) \/ ReplaySend(s) \/ ReplayEnd(s)
        PROVE  UnsoughtInv'
    <2>1. taken[s] # None
      BY <1>5 DEF ReplayDrain, ReplayRefused, ReplaySend, ReplayEnd, TypeOK
    <2>2. sought[s] /\ UNCHANGED <<sought, pending, seeker>>
      BY <1>t, <1>5, <2>1 DEF ReplayDrain, ReplayRefused, ReplaySend, ReplayEnd
    <2>3. \A x \in Subs \ {s} : taken'[x] = taken[x]
      BY <1>t, <1>5 DEF ReplayDrain, ReplayRefused, ReplaySend, ReplayEnd
    <2> QED BY <2>2, <2>3
  <1>6. ASSUME NEW s \in Subs,
               Subscribe(s) \/ Unsubscribe(s) \/ BeginPoll(s) \/ DropStale(s) \/
               Drained(s)
        PROVE  UnsoughtInv'
    BY <1>t, <1>6 DEF Subscribe, Unsubscribe, BeginPoll, DropStale, Drained
  <1>7. ASSUME NEW size \in Sizes,
               Publish(size)
        PROVE  UnsoughtInv'
    BY <1>t, <1>7 DEF Publish
  <1>8. ASSUME NEW s \in Subs, NEW k \in Slots,
               Yield(s, k) \/ Settle(s, k) \/ Requeue(s, k) \/ NackAfter(s, k) \/
               TimerFires(s, k)
        PROVE  UnsoughtInv'
    BY <1>t, <1>8 DEF Yield, Settle, Requeue, NackAfter, TimerFires
  <1>9. CASE \/ Shutdown \/ Connect \/ UNCHANGED vars
    BY <1>t, <1>9 DEF Shutdown, Connect, vars
  <1> QED
    BY <1>1, <1>2, <1>3, <1>4, <1>5, <1>6, <1>7, <1>8, <1>9 DEF Next, BusStep, SeekStep,
       PollStep, SettleStep

\* What a replay has still to enqueue, it enqueues.
LEMMA RefillStep ==
  ASSUME TypeOK, [Next]_vars, NEW r \in Subs, NEW n \in Nat, Replaying(r, n), n < NextSeq(log)
  PROVE  Replaying(r, n)' \/ Queued(r, n)'
  <1> USE DEF busVars, pollVars, seekVars, historyVars
  <1>r. poll[r] = "refill" /\ n >= taken[r] /\ taken[r] \in Nat
    BY DEF Replaying, TypeOK
  <1>t. /\ poll \in [Subs -> {"idle", "begun", "replay", "refill", "fresh", "parked"}]
        /\ taken \in [Subs -> Nat \cup {None}]
        /\ Len(queue[r]) \in Nat /\ NextSeq(log) \in Nat
    BY Numbers DEF TypeOK
  <1>1. ASSUME poll'[r] = poll[r], taken'[r] = taken[r] PROVE Replaying(r, n)'
    BY <1>1, <1>r DEF Replaying
  <1>2. ASSUME NEW s \in Subs,
               \/ Unsubscribe(s) \/ BeginPoll(s) \/ TakeSeek(s) \/ Drained(s)
               \/ ReplayDrain(s) \/ ReplayRefused(s) \/ \E k \in Slots : Yield(s, k)
        PROVE  Replaying(r, n)'
    <2>1. s # r
      BY <1>r, <1>2 DEF Unsubscribe, BeginPoll, TakeSeek, Drained, ReplayDrain, ReplayRefused,
         Yield
    <2>2. poll'[r] = poll[r] /\ taken'[r] = taken[r]
      BY <1>t, <1>2, <2>1 DEF Unsubscribe, BeginPoll, TakeSeek, Drained, ReplayDrain,
         ReplayRefused, Yield
    <2> QED BY <1>1, <2>2
  <1>3. ASSUME NEW s \in Subs, ReplaySend(s) PROVE Replaying(r, n)' \/ Queued(r, n)'
    <2>1. PICK d \in Deliveries :
            /\ d.seq = taken[s] /\ poll' = poll
            /\ taken'[s] = taken[s] + 1 /\ Grows(queue[s], queue'[s], d)
            /\ \A x \in Subs \ {s} : taken'[x] = taken[x]
      BY <1>3, ReplaySendFacts
    <2>2. CASE s # r
      BY <1>1, <2>1, <2>2
    <2>3. CASE s = r /\ n = taken[r]
      <3>1. Len(queue[r]) + 1 \in 1 .. Len(queue'[r]) /\ queue'[r][Len(queue[r]) + 1] = d
        BY <1>t, <2>1, <2>3, GrowsOnly
      <3> QED BY <2>1, <2>3, <3>1 DEF Queued
    <2>4. CASE s = r /\ n # taken[r]
      BY <1>r, <2>1, <2>4 DEF Replaying
    <2> QED BY <2>2, <2>3, <2>4
  <1>4. ASSUME NEW s \in Subs, ReplayEnd(s) PROVE Replaying(r, n)'
    <2>1. s # r
      BY <1>r, <1>t, <1>4 DEF ReplayEnd
    <2>2. poll'[r] = poll[r] /\ taken'[r] = taken[r]
      BY <1>t, <1>4, <2>1 DEF ReplayEnd
    <2> QED BY <1>1, <2>2
  <1>5. CASE UNCHANGED <<poll, taken>>
    BY <1>1, <1>5
  <1> QED
    BY <1>2, <1>3, <1>4, <1>5 DEF Next, BusStep, SeekStep, PollStep, SettleStep, Subscribe,
       Publish, Shutdown, Connect, SeekStore, SeekRecord, SeekReturn, DropStale, Settle, Requeue,
       NackAfter, TimerFires, vars

LEMMA KeptStep ==
  ASSUME TypeOK, BoundInv, FloorInv, NothingLost, [Next]_vars
  PROVE  NothingLost'
  <1> USE DEF busVars, pollVars, seekVars, historyVars
  <1> SUFFICES ASSUME NEW r \in Subs, Receiving(r)', NEW n \in owed'[r]
               PROVE  Kept(r, n)' \/ Replaying(r, n)'
    BY DEF NothingLost, Kept
  <1>a. CASE n \in owed[r] /\ Replaying(r, n)
    <2>1. n \in Nat /\ n < NextSeq(log)
      BY <1>a, Numbers DEF BoundInv
    <2> QED BY <1>a, <2>1, RefillStep DEF Kept
  <1> SUFFICES ASSUME ~(n \in owed[r] /\ Replaying(r, n))
               PROVE  Kept(r, n)' \/ Replaying(r, n)'
    BY <1>a
  <1>k. Receiving(r) /\ n \in owed[r] => Kept(r, n)
    BY DEF NothingLost, Kept
  <1>q. /\ Len(queue[r]) \in Nat /\ floor[r] \in Nat /\ log.first_seq \in Nat
        /\ \A x \in owed[r] : x \in Nat /\ x < NextSeq(log)
    BY Numbers DEF TypeOK, BoundInv
  <1>1. ASSUME NEW s \in Subs, Subscribe(s)
        PROVE  Kept(r, n)'
    <2>1. UNCHANGED <<queue, hand, settled, floor, owed, closed>> /\ opened' = opened \cup {s}
      BY <1>1 DEF Subscribe
    <2>2. s \notin opened
      BY <1>1 DEF Subscribe
    <2>3. r # s
      BY <2>1, <2>2 DEF FloorInv
    <2>4. Receiving(r)
      BY <2>1, <2>3 DEF Receiving
    <2> QED BY <1>k, <2>1, <2>4 DEF Kept, Queued, InHand
  <1>2. ASSUME NEW s \in Subs, Unsubscribe(s)
        PROVE  Kept(r, n)'
    <2>1. UNCHANGED <<hand, settled, floor, owed, opened>> /\ closed' = closed \cup {s}
      BY <1>2 DEF Unsubscribe
    <2>2. r # s /\ Receiving(r)
      BY <2>1 DEF Receiving
    <2>3. queue'[r] = queue[r]
      BY <2>2, <1>2 DEF Unsubscribe, TypeOK
    <2> QED BY <1>k, <2>1, <2>2, <2>3 DEF Kept, Queued, InHand
  <1>3. ASSUME NEW size \in Sizes, Publish(size)
        PROVE  Kept(r, n)'
    <2>1. UNCHANGED <<hand, settled, floor, opened, closed>>
      BY <1>3 DEF Publish
    <2>2. Receiving(r)
      BY <2>1 DEF Receiving
    <2>3. CASE /\ Grows(queue[r], queue'[r], [seq |-> NextSeq(log), deliveries |-> 1])
               /\ owed'[r] = owed[r] \cup {NextSeq(log)}
      <3> DEFINE d == [seq |-> NextSeq(log), deliveries |-> 1]
      <3>1. /\ \A i \in 1 .. Len(queue[r]) : i \in 1 .. Len(queue'[r]) /\ queue'[r][i] = queue[r][i]
            /\ Len(queue[r]) + 1 \in 1 .. Len(queue'[r]) /\ queue'[r][Len(queue[r]) + 1] = d
        <4>1. Grows(queue[r], queue'[r], d)
          BY <2>3
        <4> HIDE DEF d
        <4> QED BY <1>q, <4>1, GrowsOnly
      <3>2. Queued(r, n) => Queued(r, n)'
        BY <3>1 DEF Queued
      <3>3. n = d.seq => Queued(r, n)'
        BY <3>1 DEF Queued
      <3>4. n \in owed[r] \/ n = d.seq
        BY <2>3
      <3> QED BY <1>k, <2>1, <2>2, <3>2, <3>3, <3>4 DEF Kept, InHand
    <2>4. CASE queue'[r] = queue[r] /\ owed'[r] = owed[r]
      BY <1>k, <2>1, <2>2, <2>4 DEF Kept, Queued, InHand
    <2> QED BY <2>3, <2>4, <1>3, PublishFacts
  <1>4. ASSUME NEW s \in Subs, NEW to \in Positions(MaxPublish), SeekStore(s, to)
        PROVE  Kept(r, n)'
    <2>1. UNCHANGED <<queue, hand, settled, owed, opened, closed>>
      BY <1>4 DEF SeekStore
    <2>2. Resolve(to, log) \in Nat
      BY <1>4, ResolveProperties DEF SeekStore, TypeOK
    <2>3. floor'[r] \in Nat /\ floor'[r] >= floor[r]
      <3>1. floor'[r] = floor[r] \/ floor'[r] = Higher(floor[r], Resolve(to, log))
        BY <1>4 DEF SeekStore, TypeOK
      <3> QED BY <1>q, <2>2, <3>1 DEF Higher
    <2>4. n \in Nat
      BY <1>q, <2>1
    <2> QED BY <1>k, <1>q, <2>1, <2>3, <2>4 DEF Receiving, Kept, Queued, InHand
  <1>5. ASSUME NEW s \in Subs, ReplayDrain(s)
        PROVE  Kept(r, n)' \/ Replaying(r, n)'
    <2>1. UNCHANGED <<hand, settled, owed, opened, closed>>
      BY <1>5 DEF ReplayDrain
    <2>2. Kept(r, n) /\ n \in Nat /\ n < NextSeq(log)
      BY <1>k, <1>q, <2>1 DEF Receiving
    <2>3. CASE r = s
      <3>1. /\ taken[r] \in Nat /\ poll[r] = "replay" /\ poll'[r] = "refill"
            /\ taken'[r] = ReplayStart(log, taken[r])
        BY <2>3, <1>5, ReplayDrainFacts
      <3>2. floor'[r] = Higher(floor[r], log.first_seq)
        BY <2>3, <1>5 DEF ReplayDrain, TypeOK
      <3>3. taken[r] <= floor[r]
        BY <3>1 DEF FloorInv
      <3>4. CASE n < floor'[r]
        BY <3>4 DEF Kept
      <3>5. CASE ~(n < floor'[r])
        <4>1. n >= taken[r] /\ n >= log.first_seq
          BY <1>q, <2>2, <3>1, <3>2, <3>3, <3>5 DEF Higher
        <4>2. ReplayStart(log, taken[r]) = taken[r] \/ ReplayStart(log, taken[r]) = log.first_seq
          BY <3>1, StartProperties DEF TypeOK
        <4> QED BY <3>1, <4>1, <4>2 DEF Replaying
      <3> QED BY <3>4, <3>5
    <2>4. CASE r # s
      <3>1. queue'[r] = queue[r] /\ floor'[r] = floor[r]
        BY <2>4, <1>5, ReplayDrainFacts DEF ReplayDrain, TypeOK
      <3> QED BY <2>1, <2>2, <3>1 DEF Kept, Queued, InHand
    <2> QED BY <2>3, <2>4
  <1>14. ASSUME NEW s \in Subs, ReplaySend(s)
         PROVE  Kept(r, n)'
    <2>1. UNCHANGED <<hand, settled, floor, owed, opened, closed>>
      BY <1>14 DEF ReplaySend
    <2>2. Kept(r, n)
      BY <1>k, <2>1 DEF Receiving
    <2>3. Queued(r, n) => Queued(r, n)'
      <3>1. queue'[r] = queue[r] \/ \E d : Grows(queue[r], queue'[r], d)
        BY <1>14, ReplaySendFacts
      <3> QED BY <1>q, <3>1, GrowsOnly DEF Queued
    <2> QED BY <2>1, <2>2, <2>3 DEF Kept, InHand
  <1>6. ASSUME NEW s \in Subs, DropStale(s)
        PROVE  Kept(r, n)'
    <2>1. UNCHANGED <<hand, settled, floor, owed, opened, closed>>
      BY <1>6 DEF DropStale
    <2>2. Kept(r, n)
      BY <1>k, <2>1 DEF Receiving
    <2>3. CASE r = s
      <3>1. Shrinks(queue[r], queue'[r]) /\ queue[r][1].seq < watermark[r]
        BY <2>3, <1>6, DropFacts
      <3>2. queue[r][1].seq < floor[r]
        <4>1. queue[r][1].seq \in Nat /\ watermark[r] \in Nat
          BY <1>q, <3>1, Numbers, ShrinksOnly
        <4>2. watermark[r] <= floor[r]
          BY DEF FloorInv
        <4> QED BY <1>q, <3>1, <4>1, <4>2
      <3>3. \A i \in 1 .. Len(queue[r]) :
              i = 1 \/ (i - 1 \in 1 .. Len(queue'[r]) /\ queue'[r][i - 1] = queue[r][i])
        BY <1>q, <3>1, ShrinksOnly
      <3>4. Queued(r, n) => Queued(r, n)' \/ n < floor[r]
        BY <3>2, <3>3 DEF Queued
      <3> QED BY <2>1, <2>2, <3>4 DEF Kept, InHand
    <2>4. CASE r # s
      BY <2>1, <2>2, <2>4, <1>6, DropFacts DEF Kept, Queued, InHand
    <2> QED BY <2>3, <2>4
  <1>7. ASSUME NEW s \in Subs, NEW k \in Slots, Yield(s, k)
        PROVE  Kept(r, n)'
    <2>1. UNCHANGED <<settled, floor, owed, opened, closed>>
      BY <1>7 DEF Yield
    <2>2. Kept(r, n)
      BY <1>k, <2>1 DEF Receiving
    <2>3. CASE r = s
      <3>1. \A i \in 1 .. Len(queue[r]) :
              i = 1 \/ (i - 1 \in 1 .. Len(queue'[r]) /\ queue'[r][i - 1] = queue[r][i])
        <4>1. Shrinks(queue[r], queue'[r])
          BY <2>3, <1>7, YieldFacts
        <4> QED BY <1>q, <4>1, ShrinksOnly
      <3>2. n = queue[r][1].seq => InHand(r, n)'
        BY <2>3, <1>7, YieldFacts DEF InHand
      <3>3. Queued(r, n) => Queued(r, n)' \/ InHand(r, n)'
        BY <3>1, <3>2 DEF Queued
      <3>4. InHand(r, n) => InHand(r, n)'
        BY <2>3, <1>7, YieldFacts DEF InHand
      <3> QED BY <2>1, <2>2, <3>3, <3>4 DEF Kept
    <2>4. CASE r # s
      BY <2>1, <2>2, <2>4, <1>7, YieldFacts DEF Kept, Queued, InHand
    <2> QED BY <2>3, <2>4
  <1>8. ASSUME NEW s \in Subs, NEW k \in Slots, Settle(s, k)
        PROVE  Kept(r, n)'
    <2>1. UNCHANGED <<queue, floor, owed, opened, closed>>
      BY <1>8 DEF Settle
    <2>2. Kept(r, n)
      BY <1>k, <2>1 DEF Receiving
    <2>3. /\ settled'[s] = settled[s] \cup {hand[s][k].seq}
          /\ r # s => settled'[r] = settled[r]
      BY <1>8 DEF Settle, TypeOK
    <2>4. InHand(r, n) => InHand(r, n)' \/ n \in settled'[r]
      BY <2>3, <1>8, HandFacts DEF InHand
    <2>5. n \in settled[r] => n \in settled'[r]
      BY <2>3
    <2> QED BY <2>1, <2>2, <2>4, <2>5 DEF Kept, Queued
  <1>9. ASSUME NEW s \in Subs, NEW k \in Slots, Requeue(s, k)
        PROVE  Kept(r, n)'
    <2>1. UNCHANGED <<settled, floor, owed, opened, closed>>
      BY <1>9 DEF Requeue
    <2>2. Kept(r, n) /\ Receiving(r)
      BY <1>k, <2>1 DEF Receiving
    <2>3. CASE r = s
      <3>1. PICK d \in Deliveries :
              d.seq = hand[r][k].seq /\ Grows(queue[r], queue'[r], d)
        BY <2>2, <2>3, <1>9, BackFacts
      <3>2. /\ \A i \in 1 .. Len(queue[r]) : i \in 1 .. Len(queue'[r]) /\ queue'[r][i] = queue[r][i]
            /\ Len(queue[r]) + 1 \in 1 .. Len(queue'[r]) /\ queue'[r][Len(queue[r]) + 1] = d
        BY <1>q, <3>1, GrowsOnly
      <3>3. Queued(r, n) => Queued(r, n)'
        BY <3>2 DEF Queued
      <3>4. n = hand[r][k].seq => Queued(r, n)'
        BY <3>1, <3>2 DEF Queued
      <3>5. \A l \in Slots \ {k} : hand'[r][l] = hand[r][l]
        BY <2>3, <1>9, BackFacts
      <3>6. InHand(r, n) => InHand(r, n)' \/ Queued(r, n)'
        BY <3>4, <3>5 DEF InHand
      <3> QED BY <2>1, <2>2, <3>3, <3>6 DEF Kept
    <2>4. CASE r # s
      BY <2>1, <2>2, <2>4, <1>9, BackFacts DEF Kept, Queued, InHand
    <2> QED BY <2>3, <2>4
  <1>10. ASSUME NEW s \in Subs, NEW k \in Slots, NackAfter(s, k)
         PROVE  Kept(r, n)'
    <2>1. UNCHANGED <<queue, floor, owed, settled, opened, closed>>
      BY <1>10 DEF NackAfter
    <2>2. Kept(r, n)
      BY <1>k, <2>1 DEF Receiving
    <2>3. InHand(r, n) => InHand(r, n)'
      BY <1>10, HandFacts DEF InHand
    <2> QED BY <2>1, <2>2, <2>3 DEF Kept, Queued
  <1>11. ASSUME NEW s \in Subs, NEW k \in Slots, TimerFires(s, k)
         PROVE  Kept(r, n)'
    <2>1. UNCHANGED <<settled, floor, owed, opened, closed>>
      BY <1>11 DEF TimerFires
    <2>2. Kept(r, n) /\ Receiving(r)
      BY <1>k, <2>1 DEF Receiving
    <2>3. CASE r = s
      <3>1. PICK d \in Deliveries :
              d.seq = hand[r][k].seq /\ Grows(queue[r], queue'[r], d)
        BY <2>2, <2>3, <1>11, BackFacts
      <3>2. /\ \A i \in 1 .. Len(queue[r]) : i \in 1 .. Len(queue'[r]) /\ queue'[r][i] = queue[r][i]
            /\ Len(queue[r]) + 1 \in 1 .. Len(queue'[r]) /\ queue'[r][Len(queue[r]) + 1] = d
        BY <1>q, <3>1, GrowsOnly
      <3>3. Queued(r, n) => Queued(r, n)'
        BY <3>2 DEF Queued
      <3>4. n = hand[r][k].seq => Queued(r, n)'
        BY <3>1, <3>2 DEF Queued
      <3>5. \A l \in Slots \ {k} : hand'[r][l] = hand[r][l]
        BY <2>3, <1>11, BackFacts
      <3>6. InHand(r, n) => InHand(r, n)' \/ Queued(r, n)'
        BY <3>4, <3>5 DEF InHand
      <3> QED BY <2>1, <2>2, <3>3, <3>6 DEF Kept
    <2>4. CASE r # s
      BY <2>1, <2>2, <2>4, <1>11, BackFacts DEF Kept, Queued, InHand
    <2> QED BY <2>3, <2>4
  <1>12. ASSUME NEW s \in Subs,
                SeekRecord(s) \/ SeekReturn(s) \/ BeginPoll(s) \/ TakeSeek(s) \/
                ReplayRefused(s) \/ ReplayEnd(s) \/ Drained(s)
         PROVE  Kept(r, n)'
    BY <1>k, <1>12 DEF SeekRecord, SeekReturn, BeginPoll, TakeSeek, ReplayRefused, ReplayEnd,
       Drained, Receiving, Kept, Queued, InHand
  <1>13. CASE \/ Shutdown \/ Connect \/ UNCHANGED vars
    BY <1>k, <1>13 DEF Shutdown, Connect, vars, Receiving, Kept, Queued, InHand
  <1> QED
    BY <1>1, <1>2, <1>3, <1>4, <1>5, <1>6, <1>7, <1>8, <1>9, <1>10, <1>11, <1>12, <1>13, <1>14
    DEF Next, BusStep, SeekStep, PollStep, SettleStep

LEMMA DistinctShrinks ==
  ASSUME NEW q, NEW p, Len(q) \in Nat, Shrinks(q, p)
  PROVE  /\ Seqs(p) \subseteq Seqs(q) /\ q[1].seq \in Seqs(q)
         /\ Distinct(q) => Distinct(p) /\ q[1].seq \notin Seqs(p)
<1>1. /\ 1 \in 1 .. Len(q)
      /\ \A i \in 1 .. Len(p) : i + 1 \in 1 .. Len(q) /\ p[i] = q[i + 1]
  BY ShrinksOnly
<1>2. ASSUME Distinct(q), NEW i \in 1 .. Len(p), NEW j \in 1 .. Len(p), i # j
      PROVE  p[i].seq # p[j].seq
  <2>1. i + 1 # j + 1 /\ i + 1 \in 1 .. Len(q) /\ j + 1 \in 1 .. Len(q)
    BY <1>1, <1>2
  <2>2. q[i + 1].seq # q[j + 1].seq
    BY <1>2, <2>1 DEF Distinct
  <2> QED BY <1>1, <2>2
<1>3. ASSUME Distinct(q), NEW i \in 1 .. Len(p)
      PROVE  p[i].seq # q[1].seq
  <2>1. i + 1 # 1 /\ i + 1 \in 1 .. Len(q)
    BY <1>1
  <2>2. q[i + 1].seq # q[1].seq
    BY <1>1, <1>3, <2>1 DEF Distinct
  <2> QED BY <1>1, <2>2
<1>4. Seqs(p) \subseteq Seqs(q) /\ q[1].seq \in Seqs(q)
  BY <1>1 DEF Seqs
<1>5. Distinct(q) => q[1].seq \notin Seqs(p)
  BY <1>3 DEF Seqs
<1>6. Distinct(q) => Distinct(p)
  BY <1>2 DEF Distinct
<1> QED BY <1>4, <1>5, <1>6

LEMMA DistinctGrows ==
  ASSUME NEW q, NEW p, NEW d, Len(q) \in Nat, Grows(q, p, d)
  PROVE  /\ Seqs(p) \subseteq Seqs(q) \cup {d.seq}
         /\ Distinct(q) /\ d.seq \notin Seqs(q) => Distinct(p)
<1>1. \A i \in 1 .. Len(p) : \/ i \in 1 .. Len(q) /\ p[i] = q[i]
                             \/ i = Len(q) + 1 /\ p[i] = d
  BY GrowsOnly
<1>2. ASSUME Distinct(q), d.seq \notin Seqs(q),
             NEW i \in 1 .. Len(p), NEW j \in 1 .. Len(p), i # j
      PROVE  p[i].seq # p[j].seq
  <2>1. CASE i \in 1 .. Len(q) /\ j \in 1 .. Len(q) /\ p[i] = q[i] /\ p[j] = q[j]
    BY <1>2, <2>1 DEF Distinct
  <2>2. CASE i \in 1 .. Len(q) /\ p[i] = q[i] /\ p[j] = d
    BY <1>2, <2>2 DEF Seqs
  <2>3. CASE j \in 1 .. Len(q) /\ p[j] = q[j] /\ p[i] = d
    BY <1>2, <2>3 DEF Seqs
  <2> QED BY <1>1, <1>2, <2>1, <2>2, <2>3
<1>3. Seqs(p) \subseteq Seqs(q) \cup {d.seq}
  BY <1>1 DEF Seqs
<1> QED BY <1>2, <1>3 DEF Distinct

LEMMA OneCopyStep ==
  ASSUME TypeOK, BoundInv, UnsoughtInv, \A s \in Subs : ~sought[s] => OneCopy(s), [Next]_vars
  PROVE  (\A s \in Subs : ~sought[s] => OneCopy(s))'
  <1> USE DEF busVars, pollVars, seekVars, historyVars
  <1> SUFFICES ASSUME NEW r \in Subs, ~sought'[r] PROVE OneCopy(r)'
    OBVIOUS
  <1>k. ~sought[r] => OneCopy(r)
    OBVIOUS
  <1>q. Len(queue[r]) \in Nat
    BY Numbers
  <1>1. ASSUME NEW s \in Subs, Unsubscribe(s)
        PROVE  OneCopy(r)'
    <2>1. UNCHANGED <<hand, settled, sought>>
      BY <1>1 DEF Unsubscribe
    <2>2. queue'[r] = queue[r] \/ queue'[r] = << >>
      BY <1>1 DEF Unsubscribe, TypeOK
    <2>3. Distinct(<< >>) /\ Seqs(<< >>) = {}
      BY EmptySeq DEF Distinct, Seqs
    <2> QED BY <1>k, <2>1, <2>2, <2>3 DEF OneCopy, OneHand, Apart, Gone
  <1>2. ASSUME NEW size \in Sizes, Publish(size)
        PROVE  OneCopy(r)'
    <2>1. UNCHANGED <<hand, settled, sought>>
      BY <1>2 DEF Publish
    <2>2. CASE queue'[r] = queue[r]
      BY <1>k, <2>1, <2>2 DEF OneCopy, OneHand, Apart, Gone
    <2>3. CASE Grows(queue[r], queue'[r], [seq |-> NextSeq(log), deliveries |-> 1])
      <3> DEFINE d == [seq |-> NextSeq(log), deliveries |-> 1]
      <3>1. d.seq = NextSeq(log) /\ Grows(queue[r], queue'[r], d)
        BY <2>3
      <3> HIDE DEF d
      <3>2. /\ d.seq \notin Seqs(queue[r])
            /\ \A l \in Slots : hand[r][l].st # "free" => hand[r][l].seq # d.seq
            /\ \A n \in settled[r] : n # d.seq
        <4>1. NextSeq(log) \in Nat
          BY Numbers
        <4> QED BY <3>1, <4>1, Numbers DEF BoundInv, Seqs
      <3>3. Distinct(queue[r]) /\ OneHand(r) /\ Apart(r) /\ Gone(r)
        BY <1>k, <2>1 DEF OneCopy
      <3>4. Distinct(queue'[r]) /\ Seqs(queue'[r]) \subseteq Seqs(queue[r]) \cup {d.seq}
        BY <1>q, <3>1, <3>2, <3>3, DistinctGrows
      <3> QED BY <2>1, <3>2, <3>3, <3>4 DEF OneCopy, OneHand, Apart, Gone
    <2> QED BY <2>2, <2>3, <1>2, PublishFacts
  <1>3. ASSUME NEW s \in Subs, NEW to \in Positions(MaxPublish), SeekStore(s, to)
        PROVE  OneCopy(r)'
    <2>1. UNCHANGED <<queue, hand, settled>> /\ sought'[s] /\ (r # s => sought'[r] = sought[r])
      BY <1>3 DEF SeekStore, TypeOK
    <2>2. ~sought[r]
      BY <2>1
    <2> QED BY <1>k, <2>1, <2>2 DEF OneCopy, OneHand, Apart, Gone
  <1>4. ASSUME NEW s \in Subs, ReplayDrain(s) \/ ReplaySend(s)
        PROVE  OneCopy(r)'
    <2>1. UNCHANGED <<hand, settled, sought>>
      BY <1>4 DEF ReplayDrain, ReplaySend
    <2>2. r # s
      BY <2>1, <1>4 DEF ReplayDrain, ReplaySend, UnsoughtInv, TypeOK
    <2>3. queue'[r] = queue[r]
      BY <2>2, <1>4, ReplayDrainFacts, ReplaySendFacts
    <2> QED BY <1>k, <2>1, <2>3 DEF OneCopy, OneHand, Apart, Gone
  <1>5. ASSUME NEW s \in Subs, DropStale(s)
        PROVE  OneCopy(r)'
    <2>1. UNCHANGED <<hand, settled, sought>>
      BY <1>5 DEF DropStale
    <2>2. CASE r = s
      <3>1. Shrinks(queue[r], queue'[r])
        BY <2>2, <1>5, DropFacts
      <3>2. /\ Seqs(queue'[r]) \subseteq Seqs(queue[r])
            /\ Distinct(queue[r]) => Distinct(queue'[r])
        BY <1>q, <3>1, DistinctShrinks
      <3> QED BY <1>k, <2>1, <3>2 DEF OneCopy, OneHand, Apart, Gone
    <2>3. CASE r # s
      <3>1. queue'[r] = queue[r]
        BY <2>3, <1>5, DropFacts
      <3> QED BY <1>k, <2>1, <3>1 DEF OneCopy, OneHand, Apart, Gone
    <2> QED BY <2>2, <2>3
  <1>6. ASSUME NEW s \in Subs, NEW k \in Slots, Yield(s, k)
        PROVE  OneCopy(r)'
    <2>1. UNCHANGED <<settled, sought>>
      BY <1>6 DEF Yield
    <2>2. CASE r = s
      <3>1. Shrinks(queue[r], queue'[r])
        BY <2>2, <1>6, YieldFacts
      <3>2. /\ hand[r][k].st = "free" /\ hand'[r][k].seq = queue[r][1].seq
            /\ \A l \in Slots \ {k} : hand'[r][l] = hand[r][l]
        BY <2>2, <1>6, YieldFacts
      <3>3. Distinct(queue[r]) /\ OneHand(r) /\ Apart(r) /\ Gone(r)
        BY <1>k, <2>1 DEF OneCopy
      <3>4. /\ Distinct(queue'[r]) /\ Seqs(queue'[r]) \subseteq Seqs(queue[r])
            /\ queue[r][1].seq \in Seqs(queue[r]) /\ queue[r][1].seq \notin Seqs(queue'[r])
        BY <1>q, <3>1, <3>3, DistinctShrinks
      <3>5. OneHand(r)'
        BY <3>2, <3>3, <3>4 DEF OneHand, Apart
      <3>6. Apart(r)'
        BY <3>2, <3>3, <3>4 DEF Apart
      <3>7. Gone(r)'
        BY <2>1, <3>2, <3>3, <3>4 DEF Gone
      <3> QED BY <3>4, <3>5, <3>6, <3>7 DEF OneCopy
    <2>3. CASE r # s
      <3>1. queue'[r] = queue[r] /\ hand'[r] = hand[r]
        BY <2>3, <1>6, YieldFacts
      <3> QED BY <1>k, <2>1, <3>1 DEF OneCopy, OneHand, Apart, Gone
    <2> QED BY <2>2, <2>3
  <1>7. ASSUME NEW s \in Subs, NEW k \in Slots, Settle(s, k)
        PROVE  OneCopy(r)'
    <2>1. UNCHANGED <<queue, sought>>
      BY <1>7 DEF Settle
    <2>2. CASE r = s
      <3>1. /\ hand[r][k].st # "free" /\ hand'[r][k].st = "free"
            /\ \A l \in Slots \ {k} : hand'[r][l] = hand[r][l]
        BY <2>2, <1>7, HandFacts
      <3>2. settled'[r] = settled[r] \cup {hand[r][k].seq}
        BY <2>2, <1>7 DEF Settle, TypeOK
      <3>3. Distinct(queue[r]) /\ OneHand(r) /\ Apart(r) /\ Gone(r)
        BY <1>k, <2>1 DEF OneCopy
      <3>4. OneHand(r)' /\ Apart(r)'
        BY <2>1, <3>1, <3>3 DEF OneHand, Apart
      <3>5. Gone(r)'
        BY <2>1, <3>1, <3>2, <3>3 DEF Gone, OneHand, Apart
      <3> QED BY <2>1, <3>3, <3>4, <3>5 DEF OneCopy
    <2>3. CASE r # s
      <3>1. hand'[r] = hand[r]
        BY <2>3, <1>7, HandFacts
      <3>2. settled'[r] = settled[r]
        BY <2>3, <1>7 DEF Settle, TypeOK
      <3> QED BY <1>k, <2>1, <3>1, <3>2 DEF OneCopy, OneHand, Apart, Gone
    <2> QED BY <2>2, <2>3
  <1>8. ASSUME NEW s \in Subs, NEW k \in Slots, Requeue(s, k)
        PROVE  OneCopy(r)'
    <2>1. UNCHANGED <<settled, sought>>
      BY <1>8 DEF Requeue
    <2>2. PICK d \in Deliveries :
            /\ d.seq = hand[s][k].seq /\ hand[s][k].st # "free"
            /\ Grows(queue[s], queue'[s], d) \/ queue'[s] = queue[s]
            /\ hand'[s][k].st = "free"
            /\ \A l \in Slots \ {k} : hand'[s][l] = hand[s][l]
            /\ \A x \in Subs \ {s} : queue'[x] = queue[x] /\ hand'[x] = hand[x]
      BY <1>8, BackFacts
    <2>3. Distinct(queue[r]) /\ OneHand(r) /\ Apart(r) /\ Gone(r)
      BY <1>k, <2>1 DEF OneCopy
    <2>4. CASE r = s /\ Grows(queue[s], queue'[s], d)
      <3>1. d.seq \notin Seqs(queue[r])
        BY <2>2, <2>3, <2>4 DEF Apart
      <3>2. Distinct(queue'[r]) /\ Seqs(queue'[r]) \subseteq Seqs(queue[r]) \cup {d.seq}
        BY <1>q, <2>3, <2>4, <3>1, DistinctGrows
      <3>3. OneHand(r)'
        BY <2>2, <2>3, <2>4 DEF OneHand
      <3>4. Apart(r)'
        BY <2>2, <2>3, <2>4, <3>2 DEF Apart, OneHand
      <3>5. Gone(r)'
        BY <2>1, <2>2, <2>3, <2>4, <3>2 DEF Gone
      <3> QED BY <3>2, <3>3, <3>4, <3>5 DEF OneCopy
    <2>5. CASE queue'[r] = queue[r]
      <3>1. \A l \in Slots : hand'[r][l].st # "free" => hand'[r][l] = hand[r][l]
        BY <2>2
      <3> QED BY <2>1, <2>3, <2>5, <3>1 DEF OneCopy, OneHand, Apart, Gone
    <2> QED BY <2>2, <2>4, <2>5
  <1>9. ASSUME NEW s \in Subs, NEW k \in Slots, NackAfter(s, k)
        PROVE  OneCopy(r)'
    <2>1. UNCHANGED <<queue, settled, sought>>
      BY <1>9 DEF NackAfter
    <2>2. \A l \in Slots :
            hand'[r][l].st # "free" => hand[r][l].st # "free" /\ hand'[r][l].seq = hand[r][l].seq
      BY <1>9, HandFacts
    <2> QED BY <1>k, <2>1, <2>2 DEF OneCopy, OneHand, Apart, Gone
  <1>10. ASSUME NEW s \in Subs, NEW k \in Slots, TimerFires(s, k)
         PROVE  OneCopy(r)'
    <2>1. UNCHANGED <<settled, sought>>
      BY <1>10 DEF TimerFires
    <2>2. PICK d \in Deliveries :
            /\ d.seq = hand[s][k].seq /\ hand[s][k].st # "free"
            /\ Grows(queue[s], queue'[s], d) \/ queue'[s] = queue[s]
            /\ hand'[s][k].st = "free"
            /\ \A l \in Slots \ {k} : hand'[s][l] = hand[s][l]
            /\ \A x \in Subs \ {s} : queue'[x] = queue[x] /\ hand'[x] = hand[x]
      BY <1>10, BackFacts
    <2>3. Distinct(queue[r]) /\ OneHand(r) /\ Apart(r) /\ Gone(r)
      BY <1>k, <2>1 DEF OneCopy
    <2>4. CASE r = s /\ Grows(queue[s], queue'[s], d)
      <3>1. d.seq \notin Seqs(queue[r])
        BY <2>2, <2>3, <2>4 DEF Apart
      <3>2. Distinct(queue'[r]) /\ Seqs(queue'[r]) \subseteq Seqs(queue[r]) \cup {d.seq}
        BY <1>q, <2>3, <2>4, <3>1, DistinctGrows
      <3>3. OneHand(r)'
        BY <2>2, <2>3, <2>4 DEF OneHand
      <3>4. Apart(r)'
        BY <2>2, <2>3, <2>4, <3>2 DEF Apart, OneHand
      <3>5. Gone(r)'
        BY <2>1, <2>2, <2>3, <2>4, <3>2 DEF Gone
      <3> QED BY <3>2, <3>3, <3>4, <3>5 DEF OneCopy
    <2>5. CASE queue'[r] = queue[r]
      <3>1. \A l \in Slots : hand'[r][l].st # "free" => hand'[r][l] = hand[r][l]
        BY <2>2
      <3> QED BY <2>1, <2>3, <2>5, <3>1 DEF OneCopy, OneHand, Apart, Gone
    <2> QED BY <2>2, <2>4, <2>5
  <1>11. ASSUME NEW s \in Subs,
                Subscribe(s) \/ SeekRecord(s) \/ SeekReturn(s) \/ BeginPoll(s)
                \/ TakeSeek(s) \/ ReplayRefused(s) \/ ReplayEnd(s) \/ Drained(s)
         PROVE  OneCopy(r)'
    BY <1>k, <1>11 DEF Subscribe, SeekRecord, SeekReturn, BeginPoll, TakeSeek, ReplayRefused,
       ReplayEnd, Drained, OneCopy, OneHand, Apart, Gone
  <1>12. CASE \/ Shutdown \/ Connect \/ UNCHANGED vars
    BY <1>k, <1>12 DEF Shutdown, Connect, vars, OneCopy, OneHand, Apart, Gone
  <1> QED
    BY <1>1, <1>2, <1>3, <1>4, <1>5, <1>6, <1>7, <1>8, <1>9, <1>10, <1>11, <1>12 DEF Next,
       BusStep, SeekStep, PollStep, SettleStep

LEMMA FirstGrows ==
  ASSUME NEW q, NEW p, NEW d, NEW f, Len(q) \in Nat, Grows(q, p, d), FirstFresh(q, f)
  PROVE  FirstFresh(p, f)
<1>1. PICK i \in 1 .. Len(q) : /\ q[i].deliveries = 1 /\ q[i].seq = f
                               /\ \A j \in 1 .. i - 1 : q[j].deliveries # 1
  BY DEF FirstFresh
<1>2. i \in 1 .. Len(p) /\ p[i] = q[i]
  BY GrowsOnly
<1>3. \A j \in 1 .. i - 1 : j \in 1 .. Len(q)
  OBVIOUS
<1>4. \A j \in 1 .. i - 1 : p[j] = q[j]
  BY <1>3, GrowsOnly
<1> QED BY <1>1, <1>2, <1>4 DEF FirstFresh

LEMMA NoneGrows ==
  ASSUME NEW q, NEW p, NEW d, Len(q) \in Nat, Grows(q, p, d), NoFresh(q)
  PROVE  /\ d.deliveries = 1 => FirstFresh(p, d.seq)
         /\ d.deliveries # 1 => NoFresh(p)
<1>1. /\ \A i \in 1 .. Len(q) : p[i] = q[i]
      /\ Len(q) + 1 \in 1 .. Len(p) /\ p[Len(q) + 1] = d
  BY GrowsOnly
<1>2. \A i \in 1 .. Len(p) : p[i] = d \/ (i \in 1 .. Len(q) /\ p[i] = q[i])
  BY GrowsOnly
<1>3. ASSUME d.deliveries = 1 PROVE FirstFresh(p, d.seq)
  <2>1. \A j \in 1 .. (Len(q) + 1) - 1 : j \in 1 .. Len(q)
    OBVIOUS
  <2>2. \A j \in 1 .. (Len(q) + 1) - 1 : p[j].deliveries # 1
    BY <1>1, <2>1 DEF NoFresh
  <2> QED BY <1>1, <1>3, <2>2 DEF FirstFresh
<1>4. d.deliveries # 1 => NoFresh(p)
  BY <1>2 DEF NoFresh
<1> QED BY <1>3, <1>4

LEMMA FirstShrinks ==
  ASSUME NEW q, NEW p, NEW f, Len(q) \in Nat, Shrinks(q, p)
  PROVE  /\ FirstFresh(q, f) /\ q[1].deliveries # 1 => FirstFresh(p, f)
         /\ NoFresh(q) => NoFresh(p)
<1>1. /\ \A i \in 1 .. Len(p) : i + 1 \in 1 .. Len(q) /\ p[i] = q[i + 1]
      /\ \A i \in 1 .. Len(q) : i = 1 \/ (i - 1 \in 1 .. Len(p) /\ p[i - 1] = q[i])
      /\ Len(p) \in Nat
  BY ShrinksOnly
<1>2. NoFresh(q) => NoFresh(p)
  BY <1>1 DEF NoFresh
<1>3. ASSUME NEW i \in 1 .. Len(q), q[i].deliveries = 1, q[i].seq = f, q[1].deliveries # 1,
             \A j \in 1 .. i - 1 : q[j].deliveries # 1
      PROVE  FirstFresh(p, f)
  <2>1. i # 1
    BY <1>3
  <2>2. i - 1 \in 1 .. Len(p) /\ p[i - 1] = q[i]
    BY <1>1, <2>1
  <2>3. ASSUME NEW j \in 1 .. (i - 1) - 1 PROVE p[j].deliveries # 1
    <3>1. j \in 1 .. Len(p) /\ j + 1 \in 1 .. i - 1
      BY <1>1, <2>2
    <3> QED BY <1>1, <1>3, <3>1
  <2> QED BY <1>3, <2>2, <2>3 DEF FirstFresh
<1> QED BY <1>2, <1>3 DEF FirstFresh

LEMMA FirstHead ==
  ASSUME NEW q, NEW f, Len(q) \in Nat, 1 \in 1 .. Len(q), q[1].deliveries = 1
  PROVE  (FirstFresh(q, f) => q[1].seq = f) /\ ~NoFresh(q)
<1>1. ASSUME NEW i \in 1 .. Len(q), q[i].deliveries = 1, q[i].seq = f,
             \A j \in 1 .. i - 1 : q[j].deliveries # 1
      PROVE  q[1].seq = f
  <2>1. CASE i = 1
    BY <1>1, <2>1
  <2>2. CASE i # 1
    <3>1. 1 \in 1 .. i - 1
      BY <2>2
    <3> QED BY <1>1, <3>1
  <2> QED BY <2>1, <2>2
<1>2. ~NoFresh(q)
  BY DEF NoFresh
<1> QED BY <1>1, <1>2 DEF FirstFresh

LEMMA LandStep ==
  ASSUME TypeOK, BoundInv, FreshInv, LandInv, [Next]_vars
  PROVE  LandInv'
  <1> USE DEF busVars, pollVars, seekVars, historyVars
  <1> SUFFICES ASSUME NEW r \in Subs PROVE Lands(r)'
    BY DEF LandInv
  <1>k. Lands(r)
    BY DEF LandInv
  <1>t. /\ poll \in [Subs -> {"idle", "begun", "replay", "refill", "fresh", "parked"}]
        /\ pending \in [Subs -> Nat \cup {None}] /\ taken \in [Subs -> Nat \cup {None}]
        /\ seeker \in [Subs -> [at : {"idle", "stored", "recorded"}, target : Nat]]
        /\ watermark \in [Subs -> Nat] /\ landed \in [Subs -> Landings \cup {None}]
    BY DEF TypeOK
  <1>n. /\ NextSeq(log) \in Nat /\ log.first_seq \in Nat /\ log.first_seq <= NextSeq(log)
        /\ Len(queue[r]) \in Nat /\ watermark[r] \in Nat /\ watermark[r] <= NextSeq(log)
    <2>1. log.entries \in Seq(Sizes) /\ log.first_seq \in Nat /\ queue[r] \in Seq(Deliveries)
          /\ watermark[r] \in Nat /\ watermark[r] <= NextSeq(log)
      BY DEF TypeOK, BoundInv
    <2>2. Len(log.entries) \in Nat /\ Len(queue[r]) \in Nat
      BY <2>1, LenProperties
    <2> QED BY <2>1, <2>2 DEF NextSeq
  <1>l. landed[r] # None =>
          /\ landed[r] \in Landings /\ landed[r].target \in Nat
          /\ landed[r].repolled \in BOOLEAN /\ landed[r].taken \in BOOLEAN
          /\ landed[r].from # None => landed[r].from \in Nat
    BY <1>t DEF Landings
  \* A step that leaves the seek, the poll and the log of r alone, and applied what it applied.
  <1>u. ASSUME UNCHANGED <<live, log, opened, closed>>, landed'[r] = landed[r],
               watermark'[r] = watermark[r], pending'[r] = pending[r], poll'[r] = poll[r],
               taken'[r] = taken[r], seeker'[r] = seeker[r],
               ASSUME landed[r] # None, landed[r].from # None, Applied(r, landed[r].from)
               PROVE  Applied(r, landed[r].from)'
        PROVE  Lands(r)'
    <2>1. Receiving(r)' <=> Receiving(r)
      BY <1>u DEF Receiving
    <2>2. landed[r] # None => Landing(r)'
      <3> SUFFICES ASSUME landed[r] # None PROVE Landing(r)'
        OBVIOUS
      <3>1. Landing(r)
        BY <1>k DEF Lands
      <3>2. CASE landed[r].from = None
        BY <1>u, <3>1, <3>2 DEF Landing
      <3>3. CASE landed[r].from # None
        <4>1. Receiving(r) => Applied(r, landed[r].from)
          BY <3>1, <3>3 DEF Landing
        <4>2. Receiving(r)' => Applied(r, landed[r].from)'
          BY <1>u, <2>1, <3>3, <4>1
        <4> QED BY <1>u, <3>1, <3>3, <4>2 DEF Landing
      <3> QED BY <3>2, <3>3
    <2> QED BY <1>k, <1>u, <2>1, <2>2 DEF Lands
  <1>1. ASSUME NEW s \in Subs, Subscribe(s)
        PROVE  Lands(r)'
    BY <1>k, <1>t, <1>1 DEF Subscribe, Lands, Landing, Receiving, Applied
  <1>2. ASSUME NEW s \in Subs, Unsubscribe(s)
        PROVE  Lands(r)'
    <2>1. UNCHANGED <<live, log, registered, opened, taken, hand, pending, watermark, seeker,
                      landed>>
      BY <1>2 DEF Unsubscribe
    <2>2. CASE r = s
      <3>1. ~Receiving(r)' /\ poll'[r] = "idle" /\ poll[r] \in {"idle", "parked"}
        BY <1>t, <2>2, <1>2 DEF Unsubscribe, Receiving
      <3> QED BY <1>k, <2>1, <3>1 DEF Lands, Landing
    <2>3. CASE r # s
      <3>1. /\ queue'[r] = queue[r] /\ poll'[r] = poll[r]
            /\ (Receiving(r)' <=> Receiving(r))
        BY <1>t, <2>3, <1>2 DEF Unsubscribe, Receiving, TypeOK
      <3>2. Applied(r, landed[r].from)' <=> Applied(r, landed[r].from)
        BY <2>1, <3>1 DEF Applied
      <3> QED BY <1>k, <2>1, <3>1, <3>2 DEF Lands, Landing
    <2> QED BY <2>2, <2>3
  <1>3. ASSUME NEW size \in Sizes, Publish(size)
        PROVE  Lands(r)'
    <2>1. UNCHANGED <<live, registered, opened, closed, hand, poll, taken, pending, watermark,
                      seeker, landed>>
      BY <1>3 DEF Publish
    <2>r. poll[r] # "refill"
      BY <1>3 DEF Publish, BusLocked
    <2>g. NextSeq(log') \in Nat /\ NextSeq(log') = NextSeq(log) + 1
      BY <1>3, PublishFacts
    <2>2. ASSUME landed[r] # None, Receiving(r), landed[r].from # None, Applied(r, landed[r].from)
          PROVE  Applied(r, landed[r].from)'
      <3> DEFINE f == landed[r].from
                 d == [seq |-> NextSeq(log), deliveries |-> 1]
      <3>1. \/ r \in registered /\ Grows(queue[r], queue'[r], d)
            \/ r \notin registered /\ queue'[r] = queue[r]
        BY <2>2, <1>3, PublishFacts
      <3>2. d.seq = NextSeq(log) /\ d.deliveries = 1
        OBVIOUS
      <3>3. Applied(r, f)
        BY <2>2
      <3>4. landed'[r].from = f
        BY <2>1
      <3> HIDE DEF d, f
      <3>5. CASE FirstFresh(queue[r], f)
        <4>1. FirstFresh(queue'[r], f)
          BY <1>n, <3>1, <3>5, FirstGrows
        <4> QED BY <3>4, <4>1 DEF Applied
      <3>6. CASE NoFresh(queue[r]) /\ (r \in registered => NextSeq(log) = f)
        <4>1. CASE r \in registered
          <5>1. FirstFresh(queue'[r], f)
            BY <1>n, <3>1, <3>2, <3>6, <4>1, NoneGrows
          <5> QED BY <3>4, <5>1 DEF Applied
        <4>2. CASE r \notin registered
          BY <2>1, <2>r, <3>1, <3>4, <3>6, <4>2 DEF Applied
        <4> QED BY <4>1, <4>2
      <3> QED BY <2>r, <3>3, <3>5, <3>6 DEF Applied
    <2>3. (Receiving(r)' <=> Receiving(r))
      BY <2>1 DEF Receiving
    <2>4. ASSUME landed[r] # None PROVE Landing(r)'
      <3>1. Landing(r)
        BY <1>k, <2>4 DEF Lands
      <3>2. CASE landed[r].from = None
        BY <2>1, <3>1, <3>2 DEF Landing
      <3>3. CASE landed[r].from # None
        <4>1. landed[r].from <= NextSeq(log')
          BY <1>l, <1>n, <2>4, <2>g, <3>1, <3>3 DEF Landing
        <4> QED BY <2>1, <2>2, <2>3, <2>4, <3>1, <3>3, <4>1 DEF Landing
      <3> QED BY <3>2, <3>3
    <2> QED BY <1>k, <2>1, <2>3, <2>4 DEF Lands
  <1>4. CASE Shutdown
    BY <1>k, <1>t, <1>4 DEF Shutdown, Lands, Landing, Receiving, Applied, BusLocked
  <1>5. CASE Connect
    BY <1>k, <1>t, <1>5 DEF Connect, Lands, Landing, Receiving, Applied
  <1>6. ASSUME NEW s \in Subs, NEW to \in Positions(MaxPublish), SeekStore(s, to)
        PROVE  Lands(r)'
    BY <1>k, <1>t, <1>6 DEF SeekStore, Lands, Landing, Receiving, Applied
  <1>7. ASSUME NEW s \in Subs, SeekRecord(s)
        PROVE  Lands(r)'
    <2>1. UNCHANGED <<live, log, registered, opened, closed, queue, poll, taken, watermark>>
      BY <1>7 DEF SeekRecord
    <2>2. CASE r = s
      <3>1. /\ landed'[r] = Recorded(seeker[r].target) /\ pending'[r] = seeker[r].target
            /\ seeker[r].at = "stored" /\ seeker'[r].at = "recorded"
        BY <1>t, <2>2, <1>7 DEF SeekRecord
      <3> QED BY <1>k, <2>1, <3>1 DEF Lands, Landing, Recorded, Receiving
    <2>3. CASE r # s
      <3>1. landed'[r] = landed[r] /\ pending'[r] = pending[r] /\ seeker'[r] = seeker[r]
        BY <1>t, <2>3, <1>7 DEF SeekRecord
      <3> QED BY <1>u, <2>1, <3>1 DEF Applied
    <2> QED BY <2>2, <2>3
  <1>8. ASSUME NEW s \in Subs, SeekReturn(s)
        PROVE  Lands(r)'
    BY <1>k, <1>t, <1>l, <1>8 DEF SeekReturn, Lands, Landing, Receiving, Applied
  <1>9. ASSUME NEW s \in Subs, BeginPoll(s)
        PROVE  Lands(r)'
    <2>1. UNCHANGED <<live, log, registered, opened, closed, queue, taken, watermark, pending,
                      seeker>>
      BY <1>9 DEF BeginPoll
    <2>2. CASE r = s
      <3>1. poll[r] \in {"idle", "parked"} /\ poll'[r] = "begun" /\ Receiving(r)
        BY <1>t, <2>2, <1>9 DEF BeginPoll
      <3>2. landed[r] = None => landed'[r] = None
        BY <1>t, <2>2, <1>9 DEF BeginPoll
      <3>3. ASSUME landed[r] # None
            PROVE  /\ landed'[r].target = landed[r].target /\ landed'[r].from = landed[r].from
                   /\ landed'[r].taken = landed[r].taken
        BY <1>t, <1>l, <2>2, <3>3, <1>9 DEF BeginPoll, Landings
      <3>4. Receiving(r)'
        BY <2>1, <3>1 DEF Receiving
      <3>5. ASSUME landed[r] # None PROVE Landing(r)'
        <4>1. Landing(r)
          BY <1>k, <3>5 DEF Lands
        <4> QED BY <2>1, <3>1, <3>3, <3>5, <4>1 DEF Landing, Applied
      <3> QED BY <1>k, <2>1, <3>1, <3>2, <3>4, <3>5 DEF Lands
    <2>3. CASE r # s
      <3>1. landed'[r] = landed[r] /\ poll'[r] = poll[r]
        BY <1>t, <2>3, <1>9 DEF BeginPoll
      <3> QED BY <1>u, <2>1, <3>1 DEF Applied
    <2> QED BY <2>2, <2>3
  <1>10. ASSUME NEW s \in Subs, TakeSeek(s)
         PROVE  Lands(r)'
    <2>1. UNCHANGED <<live, log, registered, opened, closed, queue, watermark, seeker>>
      BY <1>10 DEF TakeSeek
    <2>2. CASE r = s
      <3>1. /\ poll[r] = "begun" /\ taken'[r] = pending[r] /\ pending'[r] = None
            /\ poll'[r] = IF pending[r] = None THEN "fresh" ELSE "replay"
        BY <1>t, <2>2, <1>10 DEF TakeSeek
      <3>2. landed[r] = None => landed'[r] = None
        BY <1>t, <2>2, <1>10 DEF TakeSeek
      <3>3. ASSUME landed[r] # None
            PROVE  /\ landed'[r].target = landed[r].target /\ landed'[r].from = landed[r].from
                   /\ landed'[r].taken = (landed[r].taken \/ pending[r] # None)
        BY <1>t, <1>l, <2>2, <3>3, <1>10 DEF TakeSeek, Landings
      <3>4. Receiving(r)' /\ Receiving(r)
        BY <1>k, <2>1, <3>1 DEF Lands, Receiving
      <3>5. ASSUME landed[r] # None PROVE Landing(r)'
        <4>1. Landing(r)
          BY <1>k, <3>5 DEF Lands
        <4>2. CASE landed[r].from = None
          <5>1. pending[r] = landed[r].target /\ pending[r] # None
            BY <1>l, <3>1, <3>5, <4>1, <4>2 DEF Landing
          <5> QED BY <2>1, <3>1, <3>3, <3>5, <4>1, <4>2, <5>1 DEF Landing
        <4>3. CASE landed[r].from # None
          <5>1. pending[r] = None /\ Applied(r, landed[r].from)
            BY <3>4, <4>1, <4>3 DEF Landing
          <5>2. Applied(r, landed[r].from)'
            BY <2>1, <3>1, <3>3, <3>5, <5>1 DEF Applied
          <5> QED BY <2>1, <3>1, <3>3, <3>5, <4>1, <4>3, <5>1, <5>2 DEF Landing
        <4> QED BY <4>2, <4>3
      <3> QED BY <1>k, <2>1, <3>1, <3>2, <3>4, <3>5 DEF Lands
    <2>3. CASE r # s
      <3>1. /\ landed'[r] = landed[r] /\ poll'[r] = poll[r] /\ taken'[r] = taken[r]
            /\ pending'[r] = pending[r]
        BY <1>t, <2>3, <1>10 DEF TakeSeek
      <3> QED BY <1>u, <2>1, <3>1 DEF Applied
    <2> QED BY <2>2, <2>3
  <1>11. ASSUME NEW s \in Subs, ReplayDrain(s)
         PROVE  Lands(r)'
    <2>1. UNCHANGED <<live, log, registered, opened, closed, pending, watermark, seeker>>
      BY <1>11 DEF ReplayDrain
    <2>2. CASE r = s
      <3> DEFINE start == ReplayStart(log, taken[r])
      <3>1. /\ taken[r] \in Nat /\ poll[r] = "replay" /\ poll'[r] = "refill"
            /\ taken'[r] = start /\ Len(queue'[r]) = 0
        BY <2>2, <1>11, ReplayDrainFacts
      <3>2. landed[r] = None => landed'[r] = None
        BY <1>t, <2>2, <1>11 DEF ReplayDrain, Applying
      <3>3. ASSUME landed[r] # None
            PROVE  landed'[r] = IF landed[r].taken THEN [landed[r] EXCEPT !.from = start]
                                ELSE landed[r]
        BY <1>t, <2>2, <3>3, <1>11 DEF ReplayDrain, Applying
      <3>4. /\ start \in Nat /\ start >= taken[r]
            /\ start = taken[r] \/ start = log.first_seq
        BY <3>1, StartProperties DEF TypeOK
      <3> HIDE DEF start
      <3>5. Receiving(r)' /\ Receiving(r)
        BY <1>k, <2>1, <3>1 DEF Lands, Receiving
      <3>6. ASSUME landed[r] # None PROVE Landing(r)'
        <4>1. Landing(r)
          BY <1>k, <3>6 DEF Lands
        <4>2. CASE ~landed[r].taken
          <5>1. landed'[r] = landed[r]
            BY <3>3, <3>6, <4>2
          <5> QED BY <2>1, <3>1, <4>1, <4>2, <5>1 DEF Landing
        <4>3. CASE landed[r].taken
          <5>1. taken[r] = landed[r].target /\ pending[r] = None /\ watermark[r] = landed[r].target
            BY <3>1, <4>1, <4>3 DEF Landing
          <5>2. /\ landed'[r].from = start /\ landed'[r].target = landed[r].target
                /\ landed'[r].taken = landed[r].taken
            BY <1>l, <3>3, <3>6, <4>3 DEF Landings
          <5>3. start >= landed[r].target /\ start <= NextSeq(log)
            BY <1>n, <3>4, <5>1
          <5>4. NoFresh(queue'[r]) /\ poll'[r] = "refill" /\ taken'[r] = start
            BY <3>1 DEF NoFresh
          <5>5. start # None
            BY <3>4
          <5>6. Applied(r, landed[r].from)'
            BY <5>2, <5>4 DEF Applied
          <5> QED BY <2>1, <3>1, <4>1, <5>1, <5>2, <5>3, <5>5, <5>6 DEF Landing
        <4> QED BY <4>2, <4>3
      <3> QED BY <1>k, <2>1, <3>1, <3>2, <3>5, <3>6 DEF Lands
    <2>3. CASE r # s
      <3>1. /\ queue'[r] = queue[r] /\ poll'[r] = poll[r] /\ taken'[r] = taken[r]
        BY <2>3, <1>11, ReplayDrainFacts
      <3>2. landed'[r] = landed[r]
        BY <1>t, <2>3, <1>11 DEF ReplayDrain, Applying
      <3> QED BY <1>u, <2>1, <3>1, <3>2 DEF Applied
    <2> QED BY <2>2, <2>3
  <1>20. ASSUME NEW s \in Subs, ReplayRefused(s)
         PROVE  Lands(r)'
    <2>1. UNCHANGED <<live, log, registered, opened, closed, queue, pending, watermark, seeker,
                      landed>>
      BY <1>20 DEF ReplayRefused
    <2>2. CASE r = s
      <3>1. ~live /\ poll[r] = "replay" /\ poll'[r] = "fresh"
        BY <1>t, <2>2, <1>20 DEF ReplayRefused
      <3>2. landed[r] = None
        BY <1>k, <3>1 DEF Lands, Landing
      <3> QED BY <1>k, <2>1, <3>1, <3>2 DEF Lands, Receiving
    <2>3. CASE r # s
      <3>1. poll'[r] = poll[r] /\ taken'[r] = taken[r]
        BY <1>t, <2>3, <1>20 DEF ReplayRefused
      <3> QED BY <1>u, <2>1, <3>1 DEF Applied
    <2> QED BY <2>2, <2>3
  <1>21. ASSUME NEW s \in Subs, ReplaySend(s)
         PROVE  Lands(r)'
    <2>1. UNCHANGED <<live, log, registered, opened, closed, poll, pending, watermark, seeker,
                      landed>>
      BY <1>21 DEF ReplaySend
    <2>2. PICK d \in Deliveries :
            /\ d.seq = taken[s] /\ d.deliveries = 1 /\ poll[s] = "refill"
            /\ Grows(queue[s], queue'[s], d)
            /\ \A x \in Subs \ {s} : queue'[x] = queue[x] /\ taken'[x] = taken[x]
      BY <1>21, ReplaySendFacts
    <2>3. CASE r = s
      <3>1. ASSUME landed[r] # None, landed[r].from # None, Applied(r, landed[r].from)
            PROVE  Applied(r, landed[r].from)'
        <4> DEFINE f == landed[r].from
        <4>1. landed'[r].from = f
          BY <2>1
        <4>2. Applied(r, f)
          BY <3>1
        <4> HIDE DEF f
        <4>3. CASE FirstFresh(queue[r], f)
          BY <1>n, <2>2, <2>3, <4>1, <4>3, FirstGrows DEF Applied
        <4>4. CASE NoFresh(queue[r]) /\ taken[r] = f
          <5>1. FirstFresh(queue'[r], f)
            BY <1>n, <2>2, <2>3, <4>4, NoneGrows
          <5> QED BY <4>1, <5>1 DEF Applied
        <4> QED BY <2>2, <2>3, <4>2, <4>3, <4>4 DEF Applied
      <3>2. Receiving(r)' <=> Receiving(r)
        BY <2>1 DEF Receiving
      <3> QED BY <1>k, <2>1, <2>2, <2>3, <3>1, <3>2 DEF Lands, Landing
    <2>4. CASE r # s
      <3>1. queue'[r] = queue[r] /\ taken'[r] = taken[r]
        BY <2>2, <2>4
      <3> QED BY <1>u, <2>1, <3>1 DEF Applied
    <2> QED BY <2>3, <2>4
  <1>22. ASSUME NEW s \in Subs, ReplayEnd(s)
         PROVE  Lands(r)'
    <2>1. UNCHANGED <<live, log, registered, opened, closed, queue, pending, watermark, seeker,
                      landed>>
      BY <1>22 DEF ReplayEnd
    <2>2. CASE r = s
      <3>1. poll[r] = "refill" /\ poll'[r] = "fresh" /\ taken[r] >= NextSeq(log)
        BY <1>t, <2>2, <1>22 DEF ReplayEnd
      <3>2. Receiving(r) /\ Receiving(r)'
        BY <1>k, <2>1, <3>1 DEF Lands, Receiving
      <3>3. ASSUME landed[r] # None, landed[r].from # None PROVE Landing(r)'
        <4> DEFINE f == landed[r].from
        <4>1. Landing(r)
          BY <1>k, <3>3 DEF Lands
        <4>2. f \in Nat /\ f <= NextSeq(log) /\ Applied(r, f)
          BY <1>l, <3>2, <3>3, <4>1 DEF Landing
        <4>3. landed'[r].from = f
          BY <2>1
        <4>4. Applied(r, f)'
          <5> HIDE DEF f
          <5>1. CASE FirstFresh(queue[r], f)
            BY <2>1, <4>3, <5>1 DEF Applied, f
          <5>2. CASE NoFresh(queue[r]) /\ taken[r] = f
            <6>1. NextSeq(log) = f
              BY <1>n, <3>1, <4>2, <5>2
            <6> QED BY <2>1, <3>1, <4>3, <5>2, <6>1 DEF Applied, f
          <5> QED BY <3>1, <4>2, <5>1, <5>2 DEF Applied
        <4> QED BY <2>1, <3>1, <3>3, <4>1, <4>4 DEF Landing
      <3>4. ASSUME landed[r] # None, landed[r].from = None PROVE Landing(r)'
        <4>1. Landing(r)
          BY <1>k, <3>4 DEF Lands
        <4> QED BY <2>1, <3>1, <3>4, <4>1 DEF Landing
      <3> QED BY <1>k, <2>1, <3>1, <3>2, <3>3, <3>4 DEF Lands
    <2>3. CASE r # s
      <3>1. poll'[r] = poll[r] /\ taken'[r] = taken[r]
        BY <1>t, <2>3, <1>22 DEF ReplayEnd
      <3> QED BY <1>u, <2>1, <3>1 DEF Applied
    <2> QED BY <2>2, <2>3
  <1>12. ASSUME NEW s \in Subs, DropStale(s)
         PROVE  Lands(r)'
    <2>1. UNCHANGED <<live, log, registered, opened, closed, hand, poll, taken, pending, watermark,
                      seeker, landed>>
      BY <1>12 DEF DropStale
    <2>2. ASSUME landed[r] # None, landed[r].from # None, Applied(r, landed[r].from)
          PROVE  Applied(r, landed[r].from)'
      <3>1. CASE r = s
        <4> DEFINE f == landed[r].from
        <4>1. /\ Shrinks(queue[r], queue'[r]) /\ queue[r][1].seq < watermark[r]
              /\ queue[r][1] \in Deliveries
          BY <3>1, <1>12, DropFacts
        <4>2. queue[r][1].seq \in Nat /\ 1 \in 1 .. Len(queue[r])
          BY <1>n, <4>1, ShrinksOnly DEF Deliveries
        <4>3. f \in Nat /\ f >= watermark[r]
          BY <1>k, <1>l, <2>2 DEF Lands, Landing
        <4>4. landed'[r].from = f /\ Applied(r, f)
          BY <2>1, <2>2
        <4> HIDE DEF f
        <4>5. FirstFresh(queue[r], f) => queue[r][1].deliveries # 1
          <5>1. queue[r][1].seq # f
            BY <1>n, <4>1, <4>2, <4>3
          <5> QED BY <1>n, <4>2, <5>1, FirstHead
        <4>6. /\ FirstFresh(queue[r], f) => FirstFresh(queue'[r], f)
              /\ NoFresh(queue[r]) => NoFresh(queue'[r])
          BY <1>n, <4>1, <4>5, FirstShrinks
        <4> QED BY <2>1, <4>4, <4>6 DEF Applied
      <3>2. CASE r # s
        BY <2>1, <2>2, <3>2, <1>12, DropFacts DEF Applied
      <3> QED BY <3>1, <3>2
    <2> QED BY <1>u, <2>1, <2>2
  <1>13. ASSUME NEW s \in Subs, NEW k \in Slots, Yield(s, k)
         PROVE  Lands(r)'
    <2>1. UNCHANGED <<live, log, registered, opened, closed, taken, pending, watermark, seeker>>
      BY <1>13 DEF Yield
    <2>2. CASE r = s
      <3>0. Shrinks(queue[r], queue'[r]) /\ queue[r][1] \in Deliveries
        BY <2>2, <1>13, YieldFacts
      <3>1. /\ poll[r] = "fresh" /\ poll'[r] \in {"idle", "fresh"}
            /\ Shrinks(queue[r], queue'[r]) /\ queue[r][1] \in Deliveries
        BY <1>t, <2>2, <3>0, <1>13 DEF Yield
      <3>2. Head(queue[r]) = queue[r][1]
        BY <2>2, <1>13, HeadTailProperties DEF Yield, TypeOK
      <3>3. \/ landed'[r] = None
            \/ /\ landed[r] # None /\ landed'[r] = [landed[r] EXCEPT !.returned = FALSE]
               /\ landed[r].from = None \/ queue[r][1].deliveries # 1
        BY <1>t, <2>2, <3>2, <1>13 DEF Yield, Yielded
      <3>4. Receiving(r) /\ Receiving(r)'
        BY <1>k, <2>1, <3>1 DEF Lands, Receiving
      <3>5. ASSUME landed'[r] # None PROVE Landing(r)'
        <4>1. Landing(r) /\ landed[r] # None
          BY <1>k, <3>3, <3>5 DEF Lands
        <4>2. /\ landed'[r].target = landed[r].target /\ landed'[r].from = landed[r].from
              /\ landed'[r].taken = landed[r].taken /\ landed'[r].repolled = landed[r].repolled
          BY <1>l, <3>3, <3>5, <4>1 DEF Landings
        <4>3. CASE landed[r].from = None
          BY <2>1, <3>1, <4>1, <4>2, <4>3 DEF Landing
        <4>4. CASE landed[r].from # None
          <5> DEFINE f == landed[r].from
          <5>1. Applied(r, f) /\ queue[r][1].deliveries # 1
            BY <3>3, <3>4, <3>5, <4>1, <4>4 DEF Landing
          <5>2. landed'[r].from = f
            BY <4>2
          <5> HIDE DEF f
          <5>3. /\ FirstFresh(queue[r], f) => FirstFresh(queue'[r], f)
                /\ NoFresh(queue[r]) => NoFresh(queue'[r])
            BY <1>n, <3>1, <5>1, FirstShrinks
          <5>4. Applied(r, landed[r].from)'
            BY <2>1, <3>1, <5>1, <5>2, <5>3 DEF Applied
          <5> QED BY <2>1, <3>1, <4>1, <4>2, <4>4, <5>4 DEF Landing
        <4> QED BY <4>3, <4>4
      <3> QED BY <1>k, <2>1, <3>1, <3>4, <3>5 DEF Lands
    <2>3. CASE r # s
      <3>1. landed'[r] = landed[r] /\ poll'[r] = poll[r]
        BY <1>t, <2>3, <1>13 DEF Yield, Yielded
      <3>2. queue'[r] = queue[r] /\ hand'[r] = hand[r]
        BY <2>3, <1>13, YieldFacts
      <3> QED BY <1>u, <2>1, <3>1, <3>2 DEF Applied
    <2> QED BY <2>2, <2>3
  <1>14. ASSUME NEW s \in Subs, Drained(s)
         PROVE  Lands(r)'
    <2>1. UNCHANGED <<live, log, registered, opened, closed, queue, taken, pending, watermark,
                      seeker, landed>>
      BY <1>14 DEF Drained
    <2>2. CASE r = s
      <3>1. poll[r] = "fresh" /\ poll'[r] \in {"idle", "parked"}
        BY <1>t, <2>2, <1>14 DEF Drained
      <3>2. Receiving(r)' <=> Receiving(r)
        BY <2>1 DEF Receiving
      <3>3. Applied(r, landed[r].from) => Applied(r, landed[r].from)'
        BY <2>1, <3>1 DEF Applied
      <3> QED BY <1>k, <2>1, <3>1, <3>2, <3>3 DEF Lands, Landing
    <2>3. CASE r # s
      <3>1. poll'[r] = poll[r]
        BY <1>t, <2>3, <1>14 DEF Drained
      <3> QED BY <1>u, <2>1, <3>1 DEF Applied
    <2> QED BY <2>2, <2>3
  <1>15. ASSUME NEW s \in Subs, NEW k \in Slots, Settle(s, k) \/ NackAfter(s, k)
         PROVE  Lands(r)'
    <2>1. UNCHANGED <<live, log, registered, opened, closed, queue, poll, taken, pending,
                      watermark, seeker, landed>>
      BY <1>15 DEF Settle, NackAfter
    <2> QED BY <1>u, <2>1 DEF Applied
  <1>16. ASSUME NEW s \in Subs, NEW k \in Slots, Requeue(s, k) \/ TimerFires(s, k)
         PROVE  Lands(r)'
    <2>1. UNCHANGED <<live, log, registered, opened, closed, poll, taken, pending, watermark,
                      seeker, landed>>
      BY <1>16 DEF Requeue, TimerFires
    <2>2. PICK d \in Deliveries :
            /\ \/ d.deliveries >= 2
               \/ hand[s][k].st = "delayed" /\ d.deliveries = hand[s][k].deliveries
            /\ Grows(queue[s], queue'[s], d) \/ queue'[s] = queue[s]
      BY <1>16, BackFacts
    <2>3. d.deliveries # 1
      BY <2>2 DEF FreshInv
    <2>4. r # s => queue'[r] = queue[r]
      BY <1>16, BackFacts
    <2>5. ASSUME landed[r] # None, landed[r].from # None, Applied(r, landed[r].from)
          PROVE  Applied(r, landed[r].from)'
      <3> DEFINE f == landed[r].from
      <3>1. landed'[r].from = f /\ Applied(r, f)
        BY <2>1, <2>5
      <3> HIDE DEF f
      <3>2. CASE queue'[r] = queue[r]
        BY <2>1, <3>1, <3>2 DEF Applied
      <3>3. CASE r = s /\ Grows(queue[r], queue'[r], d)
        <4>1. FirstFresh(queue[r], f) => FirstFresh(queue'[r], f)
          BY <1>n, <3>3, FirstGrows
        <4>2. NoFresh(queue[r]) => NoFresh(queue'[r])
          BY <1>n, <2>3, <3>3, NoneGrows
        <4> QED BY <2>1, <3>1, <4>1, <4>2 DEF Applied
      <3> QED BY <2>2, <2>4, <3>2, <3>3
    <2> QED BY <1>u, <2>1, <2>5
  <1>19. CASE UNCHANGED vars
    BY <1>k, <1>t, <1>19 DEF vars, Lands, Landing, Receiving, Applied
  <1> QED
    BY <1>1, <1>2, <1>3, <1>4, <1>5, <1>6, <1>7, <1>8, <1>9, <1>10, <1>11, <1>12, <1>13, <1>14,
       <1>15, <1>16, <1>19, <1>20, <1>21, <1>22 DEF Next, BusStep, SeekStep, PollStep, SettleStep

-----------------------------------------------------------------------------
(* The theorems. *)

MessageInv ==
  /\ TypeOK /\ BoundInv /\ FreshInv /\ FloorInv /\ UnsoughtInv /\ LandInv /\ NothingLost
  /\ \A s \in Subs : ~sought[s] => OneCopy(s)

LEMMA MessageInit == Init => MessageInv
<1> SUFFICES ASSUME Init PROVE MessageInv
  OBVIOUS
<1>1. TypeOK
  BY TypeInit
<1>2. NextSeq(log) = 0
  BY EmptySeq DEF Init, EmptyLog, NextSeq
<1>3. \A s \in Subs : /\ Len(queue[s]) = 0 /\ \A k \in Slots : hand[s][k].st = "free"
                      /\ owed[s] = {} /\ settled[s] = {} /\ watermark[s] = 0 /\ floor[s] = 0
                      /\ pending[s] = None /\ taken[s] = None /\ seeker[s].at = "idle"
                      /\ poll[s] = "idle" /\ landed[s] = None
  BY EmptySeq DEF Init, Free
<1>4. BoundInv /\ FreshInv
  BY <1>2, <1>3 DEF BoundInv, FreshInv, InOrder, Behind
<1>5. FloorInv /\ UnsoughtInv /\ NothingLost
  BY <1>3 DEF FloorInv, UnsoughtInv, NothingLost
<1>6. LandInv
  BY <1>3 DEF LandInv, Lands
<1>7. \A s \in Subs : OneCopy(s)
  BY <1>3 DEF OneCopy, Distinct, OneHand, Apart, Gone
<1> QED BY <1>1, <1>4, <1>5, <1>6, <1>7 DEF MessageInv

LEMMA MessageStep == MessageInv /\ [Next]_vars => MessageInv'
  BY TypeStep, BoundStep, FreshStep, FloorStep, UnsoughtStep, LandStep, KeptStep, OneCopyStep
     DEF MessageInv

LEMMA MessageInvariant == Safe => []MessageInv
  BY MessageInit, MessageStep, PTL DEF Safe

\* No interleaving of publish, seek, replay, stale filter and requeue loses a message: what was
\* fanned out to a subscription that exists is queued, held, on a timer or settled, unless a seek
\* passed it or a replay found it evicted.
THEOREM NoMessageLost == Safe => []NothingLost
<1>1. MessageInv => NothingLost
  BY DEF MessageInv
<1> QED BY <1>1, MessageInvariant, PTL

\* A subscription that was never repositioned has one copy of each message, whatever its
\* handlers requeue, delay or drop, and none of one that is settled.
THEOREM NoDuplicateWithoutSeek == Safe => []OneCopyWithoutSeek
<1>1. ASSUME MessageInv PROVE OneCopyWithoutSeek
  <2> SUFFICES ASSUME NEW s \in Subs, ~sought[s]
               PROVE  /\ \A i, j \in 1 .. Len(queue[s]) : i # j => queue[s][i].seq # queue[s][j].seq
                      /\ \A k, l \in Slots :
                           hand[s][k].st # "free" /\ hand[s][l].st # "free" /\ k # l
                           => hand[s][k].seq # hand[s][l].seq
                      /\ \A i \in 1 .. Len(queue[s]), k \in Slots :
                           hand[s][k].st # "free" => queue[s][i].seq # hand[s][k].seq
                      /\ \A n \in settled[s] : ~Queued(s, n) /\ ~InHand(s, n)
    BY DEF OneCopyWithoutSeek
  <2>1. Distinct(queue[s]) /\ OneHand(s) /\ Apart(s) /\ Gone(s)
    BY <1>1 DEF MessageInv, OneCopy
  <2>2. \A i \in 1 .. Len(queue[s]) : queue[s][i].seq \in Seqs(queue[s])
    BY DEF Seqs
  <2>3. \A n \in settled[s] : ~Queued(s, n) /\ ~InHand(s, n)
    BY <2>1, <2>2 DEF Gone, Queued, InHand
  <2>4. \A i \in 1 .. Len(queue[s]), k \in Slots :
          hand[s][k].st # "free" => queue[s][i].seq # hand[s][k].seq
    BY <2>1, <2>2 DEF Apart
  <2> QED BY <2>1, <2>3, <2>4 DEF Distinct, OneHand
<1> QED BY <1>1, MessageInvariant, PTL

\* First deliveries are queued in the order they were published, across replays too, and none of
\* a position the log has not reached.
THEOREM FirstDeliveriesInOrder == Safe => []FreshInOrder
<1>1. MessageInv => FreshInOrder
  BY DEF MessageInv, BoundInv, FreshInv, InOrder, FreshInOrder
<1> QED BY <1>1, MessageInvariant, PTL

\* The clamp of MemoryPosition::resolve keeps every watermark at or below the tip of the log, so
\* the stale filter never takes a message published later.
THEOREM WatermarkBelowTip == Safe => []NoLiveMessageStale
<1>1. MessageInv => NoLiveMessageStale
  BY DEF MessageInv, BoundInv, NoLiveMessageStale
<1> QED BY <1>1, MessageInvariant, PTL

\* From the first poll begun after a seek was recorded, or its replay, until the replay's first
\* message is yielded, the stream yields nothing before the target; that message is the one at
\* the target, or the oldest one retained when the replay began if eviction had passed the
\* target: whatever is published, requeued or sought meanwhile, a requeue between the drain and
\* the replay included.
THEOREM SeekLands == Safe => SeekLandsOnTarget
<1>1. ASSUME MessageInv, [Next]_vars, NEW s \in Subs, NEW k \in Slots,
             Yields(s, k), landed[s] # None, landed[s].repolled \/ landed[s].from # None
      PROVE  /\ hand'[s][k].seq >= landed[s].target
             /\ hand'[s][k].deliveries = 1 => hand'[s][k].seq = landed[s].from
  <2>t. TypeOK
    BY <1>1 DEF MessageInv
  <2>1. CASE Yield(s, k)
    <3>1. /\ Shrinks(queue[s], queue'[s]) /\ hand'[s][k].seq = queue[s][1].seq
          /\ hand'[s][k].deliveries = queue[s][1].deliveries
          /\ queue[s][1].seq >= watermark[s]
      BY <2>t, <2>1, YieldFacts
    <3>2. poll[s] = "fresh"
      BY <2>1 DEF Yield
    <3>3. Lands(s) /\ Landing(s)
      BY <1>1 DEF MessageInv, LandInv, Lands
    <3>4. Receiving(s) /\ watermark[s] = landed[s].target /\ Applied(s, landed[s].from)
      BY <1>1, <3>2, <3>3 DEF Lands, Landing
    <3>5. Len(queue[s]) \in Nat
      BY <2>t, Numbers
    <3>6. 1 \in 1 .. Len(queue[s])
      BY <3>1, <3>5, ShrinksOnly
    <3>7. queue[s][1].deliveries = 1 => queue[s][1].seq = landed[s].from
      BY <3>4, <3>5, <3>6, FirstHead DEF Applied
    <3> QED BY <3>1, <3>4, <3>7
  <2>2. CASE \E x \in Subs, l \in Slots : Yield(x, l) /\ ~(x = s /\ l = k)
    <3>1. PICK x \in Subs, l \in Slots : Yield(x, l) /\ ~(x = s /\ l = k)
      BY <2>2
    <3>2. hand'[s][k] = hand[s][k]
      <4>1. CASE x = s
        BY <2>t, <3>1, <4>1, YieldFacts
      <4>2. CASE x # s
        BY <2>t, <3>1, <4>2, YieldFacts
      <4> QED BY <4>1, <4>2
    <3> QED BY <1>1, <3>2 DEF Yields
  <2>3. CASE \E x \in Subs, l \in Slots : Settle(x, l) \/ NackAfter(x, l)
    <3>1. hand'[s][k].st = "held" => hand[s][k].st # "free"
      BY <2>t, <2>3, HandFacts
    <3> QED BY <1>1, <3>1 DEF Yields
  <2>4. CASE \E x \in Subs, l \in Slots : Requeue(x, l) \/ TimerFires(x, l)
    <3>1. hand'[s][k].st = "held" => hand[s][k].st # "free"
      BY <2>t, <2>4, BackFacts
    <3> QED BY <1>1, <3>1 DEF Yields
  <2>5. CASE hand' = hand
    BY <1>1, <2>5 DEF Yields
  <2> QED
    <3>1. ASSUME BusStep PROVE hand' = hand
      BY <3>1 DEF BusStep, Subscribe, Unsubscribe, Publish, Shutdown, Connect
    <3>2. ASSUME NEW x \in Subs, SeekStep(x) PROVE hand' = hand
      BY <3>2 DEF SeekStep, SeekStore, SeekRecord, SeekReturn
    <3>3. ASSUME NEW x \in Subs, PollStep(x)
          PROVE  hand' = hand \/ \E l \in Slots : Yield(x, l)
      BY <3>3 DEF PollStep, BeginPoll, TakeSeek, ReplayDrain, ReplayRefused, ReplaySend,
         ReplayEnd, DropStale, Drained
    <3>4. ASSUME UNCHANGED vars PROVE hand' = hand
      BY <3>4 DEF vars
    <3> QED
      BY <1>1, <2>1, <2>2, <2>3, <2>4, <2>5, <3>1, <3>2, <3>3, <3>4 DEF Next, SettleStep
<1> DEFINE Lawful ==
             \A s \in Subs, k \in Slots :
               Yields(s, k) /\ landed[s] # None /\ (landed[s].repolled \/ landed[s].from # None) =>
                 /\ hand'[s][k].seq >= landed[s].target
                 /\ hand'[s][k].deliveries = 1 => hand'[s][k].seq = landed[s].from
<1>2. MessageInv /\ [Next]_vars => [Lawful]_vars
  BY <1>1
<1> QED BY <1>2, MessageInvariant, PTL DEF Safe, SeekLandsOnTarget

\* poll_fill ships what a batch holds within the poll that took it.
THEOREM BatchesShip == Safe => []NoBatchHeldBack
<1>1. Init => NoBatchHeldBack
  BY DEF Init, NoBatchHeldBack
<1>2. ASSUME TypeOK, NoBatchHeldBack, [Next]_vars PROVE NoBatchHeldBack'
  <2>1. /\ poll \in [Subs -> {"idle", "begun", "replay", "refill", "fresh", "parked"}]
        /\ filled \in [Subs -> 0 .. BatchLimit - 1]
    BY <1>2 DEF TypeOK
  <2>2. ASSUME NEW s \in Subs,
               \/ Unsubscribe(s) \/ BeginPoll(s) \/ TakeSeek(s) \/ Drained(s)
               \/ ReplayDrain(s) \/ ReplayRefused(s) \/ ReplaySend(s) \/ ReplayEnd(s)
               \/ \E k \in Slots : Yield(s, k)
        PROVE  NoBatchHeldBack'
    <3> SUFFICES ASSUME NEW r \in Subs, filled'[r] > 0 PROVE poll'[r] = "fresh"
      BY DEF NoBatchHeldBack
    <3>1. CASE \E k \in Slots : Yield(s, k)
      BY <1>2, <2>1, <3>1 DEF NoBatchHeldBack, Yield
    <3>2. CASE Drained(s)
      BY <1>2, <2>1, <3>2 DEF NoBatchHeldBack, Drained
    <3>3. CASE filled' = filled /\ \A x \in Subs : poll[x] = "fresh" => poll'[x] = "fresh"
      BY <1>2, <2>1, <3>3 DEF NoBatchHeldBack
    <3>4. CASE \/ Unsubscribe(s) \/ BeginPoll(s) \/ TakeSeek(s) \/ ReplayDrain(s)
               \/ ReplayRefused(s) \/ ReplaySend(s) \/ ReplayEnd(s)
      BY <2>1, <3>3, <3>4 DEF Unsubscribe, BeginPoll, TakeSeek, ReplayDrain, ReplayRefused,
         ReplaySend, ReplayEnd, pollVars
    <3> QED BY <2>2, <3>1, <3>2, <3>4
  <2>3. CASE poll' = poll /\ filled' = filled
    BY <1>2, <2>3 DEF NoBatchHeldBack
  <2> QED
    BY <1>2, <2>2, <2>3 DEF Next, BusStep, SeekStep, PollStep, SettleStep, Subscribe, Publish,
       Shutdown, Connect, SeekStore, SeekRecord, SeekReturn, DropStale, Settle, Requeue,
       NackAfter, TimerFires, vars, busVars, pollVars, seekVars, historyVars
<1> QED BY <1>1, <1>2, TypeCorrect, PTL DEF Safe
=============================================================================
