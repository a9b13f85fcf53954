----------------------------- MODULE FanProofs -----------------------------
(***************************************************************************)
(* Proofs about the outcomes that share an .error and a .then between the  *)
(* elements of a batch, for every size of the batch, of the store and of   *)
(* the mount's run.                                                        *)
(*                                                                         *)
(* FanInv is the invariant of the build without a heap: a part is in one   *)
(* place and of the outcome the fan holds (OnePlace, PartsInv), the fan    *)
(* waits for these parts and the elements not settled yet (CountInv) and   *)
(* is free once nobody reports (BusyInv), and what it has gathered is what *)
(* was reported (GatheredInv).  GatherInv is that of the rendezvous of a   *)
(* build with a heap.  Every step of either is then a step of one outcome  *)
(* of SharedOutcome, or of none.                                           *)
(***************************************************************************)
EXTENDS MCSettlement, SequencesExt, FiniteSetTheorems, SequenceTheorems, NaturalsInduction,
        WellFoundedInduction, TLAPS

-----------------------------------------------------------------------------
(* The fan: what is true of it in every state. *)

WorkerStates ==
  {"next", "begin", "element", "arm", "send", "spill", "full", "sending", "stopped"}
Parts == [o : Nat, i : Nat]
Reports == [p : Parts, ok : BOOLEAN]

FanTypes ==
  /\ wk \in [st : WorkerStates, o : Nat, i : Nat, r : Nat, shared : BOOLEAN, then : BOOLEAN]
  /\ rec \in [1 .. Store -> [st : {"free", "taken", "due", "sending"}, part : Parts]]
  /\ pub \in [st : {"idle", "sending", "giving", "ended"}, r : Nat, told : Reports]
  /\ slot \in Reports
  /\ fan \in [busy : BOOLEAN, error : Nat, then : Nat, pending : Nat, sent : BOOLEAN,
              order : Seq(Nat)]
  /\ report \in [F!Actors -> [error : Nat, then : Nat]]
  /\ ended \in [1 .. MaxOutcomes -> SUBSET (1 .. Size)]
  /\ failed \in [1 .. MaxOutcomes -> SUBSET (1 .. Size)]
  /\ heard \in [1 .. MaxOutcomes -> Seq(Nat)]
  /\ followed \in [1 .. MaxOutcomes -> BOOLEAN]

\* The worker settles elements of an outcome that the fan gathers.
On == wk.shared /\ wk.st # "begin"

\* Where the worker is, and which records it and the publishing have in hand.
FanControl ==
  /\ wk.o <= MaxOutcomes
  /\ IF wk.st \in {"next", "stopped"} THEN ~wk.shared ELSE wk.o # 0 /\ wk.i \in 1 .. Size
  /\ wk.st = "begin" => wk.shared /\ wk.i = 1
  /\ wk.st \in {"arm", "send"} => wk.r # 0
  /\ wk.r # 0 => /\ wk.r \in 1 .. Store
                 /\ rec[wk.r].st = IF wk.st = "sending" THEN "sending" ELSE "taken"
                 /\ rec[wk.r].part = F!NoPart
  /\ pub.st = "sending" => pub.r \in 1 .. Store /\ rec[pub.r].st = "sending" /\ pub.r # wk.r
  /\ pub.st # "giving" => pub.told = F!Nothing
  /\ \A r \in 1 .. Store : rec[r].st = "free" => rec[r].part = F!NoPart

\* A part is in one place.
OnePlace ==
  /\ \A r, q \in 1 .. Store : rec[r].part = rec[q].part => r = q \/ rec[r].part = F!NoPart
  /\ \A r \in 1 .. Store : rec[r].part # F!NoPart => rec[r].part \notin {slot.p, pub.told.p}
  /\ slot.p # F!NoPart => slot.p # pub.told.p
  /\ \A told \in {slot, pub.told} : told.p = F!NoPart => told = F!Nothing

\* The parts on their way belong to the outcome the fan gathers and are of elements the worker
\* is done with.
PartsInv ==
  /\ \A p \in F!OnTheWay : p.o = fan.error /\ p.i \in 1 .. Size /\ (On => p.i < wk.i)
  /\ On => fan.error = wk.o

\* The fan waits for these parts and for the elements not settled yet.
CountInv ==
  /\ IsFiniteSet(F!OnTheWay)
  /\ fan.pending = Cardinality(F!OnTheWay) + F!Unsettled
  /\ fan.pending > 0 <=> fan.error # 0

\* The fan is taken while it waits and while one actor runs the closure.
BusyInv ==
  /\ fan.busy <=> fan.pending > 0 \/ \E a \in F!Actors : report[a].error # 0
  /\ \A a \in F!Actors : report[a].error # 0 => fan.pending = 0
  /\ \A a, b \in F!Actors : report[a].error # 0 /\ report[b].error # 0 => a = b
  /\ ~fan.busy => fan.order = << >>

\* Element i has not ended, or has and was not reported.
Left(i) == \/ On /\ wk.i <= i
           \/ \E r \in 1 .. Store : rec[r].part = F!Part(fan.error, i)
Unreported(i) == F!Part(fan.error, i) \in {slot.p, pub.told.p}

Rising(s) == \A i, j \in 1 .. Len(s) : i < j => s[i] < s[j]

\* What the fan has of the outcome it gathers is what was reported of it.
GatheredInv ==
  fan.error # 0 =>
    /\ fan.error \in 1 .. wk.o /\ (wk.st = "begin" => fan.error # wk.o)
    /\ fan.then \in {0, fan.error}
    /\ heard[fan.error] = << >> /\ ~followed[fan.error]
    /\ failed[fan.error] \subseteq ended[fan.error]
    /\ \A i \in 1 .. Size : i \in ended[fan.error] <=> ~Left(i)
    /\ \A told \in {slot, pub.told} :
         told.p # F!NoPart => (told.ok <=> told.p.i \notin failed[fan.error])
    /\ ToSet(fan.order) = {i \in failed[fan.error] : ~Unreported(i)}
    /\ Rising(fan.order)
    /\ fan.sent => failed[fan.error] # ended[fan.error]

\* Nothing happened yet to an outcome the worker has not begun.
FreshInv ==
  \A o \in 1 .. MaxOutcomes :
    o > wk.o \/ (o = wk.o /\ wk.st = "begin") =>
      ended[o] = {} /\ failed[o] = {} /\ heard[o] = << >> /\ ~followed[o]

FanInv == FanTypes /\ FanControl /\ OnePlace /\ PartsInv /\ CountInv /\ BusyInv /\ GatheredInv
          /\ FreshInv

-----------------------------------------------------------------------------
(* Failures in the order of the batch. *)

\* A set of numbers has a least one.
LEMMA LeastNumber ==
  ASSUME NEW T, T \subseteq Nat, T # {}
  PROVE  \E x \in T : \A y \in T : x <= y
<1> DEFINE less == OpToRel(<, Nat)
<1>1. IsWellFoundedOn(less, Nat)
  BY NatLessThanWellFounded
<1>2. PICK x \in T : \A y \in T : ~(<<y, x>> \in less)
  <2> HIDE DEF less
  <2> QED BY <1>1, WFMin
<1>3. \A y \in T : y < x => <<y, x>> \in less
  BY DEF OpToRel
<1>4. \A y \in T : ~(y < x)
  <2> HIDE DEF less
  <2> QED BY <1>2, <1>3, Zenon
<1> QED BY <1>4

\* A failure inserted before the first one of a later element leaves the failures in order.
LEMMA InsertRises ==
  ASSUME NEW s \in Seq(Nat), Rising(s), NEW i \in Nat, i \notin ToSet(s)
  PROVE  /\ F!Insert(s, i) \in Seq(Nat) /\ F!Insert(s, i) # << >>
         /\ Len(F!Insert(s, i)) = Len(s) + 1
         /\ Rising(F!Insert(s, i))
         /\ ToSet(F!Insert(s, i)) = ToSet(s) \cup {i}
<1> DEFINE later == {j \in 1 .. Len(s) : s[j] > i}
           p == IF later = {} THEN Len(s) + 1
                ELSE CHOOSE j \in later : \A k \in later : j <= k
           t == SubSeq(s, 1, p - 1) \o <<i>> \o SubSeq(s, p, Len(s))
<1>n. Len(s) \in Nat /\ \A j \in 1 .. Len(s) : s[j] \in Nat
  OBVIOUS
<1>1. /\ p \in 1 .. Len(s) + 1
      /\ \A j \in 1 .. Len(s) : j < p => ~(s[j] > i)
      /\ p <= Len(s) => s[p] > i
  <2>1. CASE later = {}
    BY <1>n, <2>1
  <2>2. CASE later # {}
    <3>1. later \subseteq Nat
      OBVIOUS
    <3>2. \E j \in later : \A k \in later : j <= k
      <4> HIDE DEF later
      <4> QED BY <2>2, <3>1, LeastNumber
    <3>3. p \in later /\ \A k \in later : p <= k
      <4> HIDE DEF later
      <4> QED BY <2>2, <3>2
    <3> HIDE DEF p
    <3> QED BY <1>n, <3>3
  <2> QED BY <2>1, <2>2
<1> HIDE DEF p
<1>2. /\ t \in Seq(Nat) /\ Len(t) = Len(s) + 1
      /\ \A j \in 1 .. Len(s) + 1 : t[j] = IF j < p THEN s[j] ELSE IF j = p THEN i ELSE s[j - 1]
  <2> DEFINE a == SubSeq(s, 1, p - 1)
             b == SubSeq(s, p, Len(s))
  <2>1. a \in Seq(Nat) /\ Len(a) = p - 1 /\ \A j \in 1 .. p - 1 : a[j] = s[j]
    BY <1>n, <1>1
  <2>2. b \in Seq(Nat) /\ Len(b) = Len(s) + 1 - p
    BY <1>n, <1>1
  <2>3. \A j \in 1 .. Len(s) + 1 - p : b[j] = s[p + j - 1]
    BY <1>n, <1>1
  <2> HIDE DEF a, b
  <2> DEFINE c == a \o <<i>>
  <2>4. c \in Seq(Nat) /\ Len(c) = p /\ c[p] = i /\ \A j \in 1 .. p - 1 : c[j] = a[j]
    <3>1. <<i>> \in Seq(Nat) /\ Len(<<i>>) = 1 /\ <<i>>[1] = i
      OBVIOUS
    <3>2. c \in Seq(Nat) /\ Len(c) = Len(a) + 1
      BY <2>1, <3>1
    <3>3. \A j \in 1 .. Len(a) : c[j] = a[j]
      BY <2>1, <3>1
    <3>4. c[Len(a) + 1] = <<i>>[1]
      BY <2>1, <3>1
    <3> HIDE DEF c
    <3>5. Len(a) + 1 = p
      BY <1>n, <1>1, <2>1
    <3> QED BY <2>1, <3>1, <3>2, <3>3, <3>4, <3>5
  <2> HIDE DEF c
  <2> DEFINE d == c \o b
  <2>5. d \in Seq(Nat) /\ Len(d) = Len(s) + 1
    BY <1>n, <1>1, <2>2, <2>4
  <2>6. \A j \in 1 .. p : d[j] = c[j]
    BY <1>n, <1>1, <2>2, <2>4
  <2>7. \A j \in p + 1 .. Len(s) + 1 : d[j] = b[j - p]
    <3>1. \A j \in 1 .. Len(c) + Len(b) : d[j] = IF j <= Len(c) THEN c[j] ELSE b[j - Len(c)]
      BY <2>2, <2>4, ConcatProperties
    <3> HIDE DEF d
    <3>2. Len(c) = p /\ Len(c) + Len(b) = Len(s) + 1
      BY <1>n, <1>1, <2>2, <2>4
    <3> QED BY <1>1, <3>1, <3>2
  <2>8. ASSUME NEW j \in p + 1 .. Len(s) + 1 PROVE d[j] = s[j - 1]
    <3>1. j - p \in 1 .. Len(s) + 1 - p /\ p + (j - p) - 1 = j - 1
      BY <1>n, <1>1
    <3>2. b[j - p] = s[p + (j - p) - 1]
      BY <2>3, <3>1
    <3> QED BY <2>7, <3>1, <3>2
  <2> HIDE DEF d
  <2>9. ASSUME NEW j \in 1 .. Len(s) + 1
        PROVE  d[j] = IF j < p THEN s[j] ELSE IF j = p THEN i ELSE s[j - 1]
    <3>1. CASE j < p
      BY SMTT(30), <1>n, <1>1, <2>1, <2>4, <2>6, <3>1
    <3>2. CASE j = p
      BY <1>n, <1>1, <2>4, <2>6, <3>2
    <3>3. CASE j > p
      BY <1>n, <1>1, <2>8, <3>3
    <3> QED BY <1>n, <1>1, <3>1, <3>2, <3>3
  <2>10. d = t
    BY DEF a, b, c, d
  <2> QED BY <2>5, <2>9, <2>10
<1>3. F!Insert(s, i) = t
  BY DEF F!Insert, p
<1> HIDE DEF t
<1>a. \A j \in 1 .. Len(s) : j < p => t[j] = s[j]
  BY <1>n, <1>2
<1>b. t[p] = i
  BY <1>n, <1>1, <1>2
<1>c. \A j \in 1 .. Len(s) : p <= j => t[j + 1] = s[j]
  <2> SUFFICES ASSUME NEW j \in 1 .. Len(s), p <= j PROVE t[j + 1] = s[j]
    OBVIOUS
  <2>1. j + 1 \in 1 .. Len(s) + 1 /\ ~(j + 1 < p) /\ j + 1 # p /\ j + 1 - 1 = j
    BY <1>n, <1>1
  <2>2. t[j + 1] = s[j + 1 - 1]
    BY <1>2, <2>1
  <2> QED BY <2>1, <2>2
<1>4. t # << >>
  BY <1>n, <1>2
<1>5. \A j \in 1 .. Len(s) : j < p => s[j] < i
  <2>1. \A j \in 1 .. Len(s) : s[j] # i
    BY DEF ToSet
  <2> QED BY <1>n, <1>1, <2>1
<1>6. \A j \in 1 .. Len(s) : p <= j => s[j] > i
  <2> SUFFICES ASSUME NEW j \in 1 .. Len(s), p <= j PROVE s[j] > i
    OBVIOUS
  <2>1. s[p] > i /\ p \in 1 .. Len(s)
    BY <1>n, <1>1
  <2>2. j = p \/ s[p] < s[j]
    BY <1>n, <2>1 DEF Rising
  <2> QED BY <1>n, <2>1, <2>2
<1>7. Rising(t)
  <2> SUFFICES ASSUME NEW j \in 1 .. Len(s) + 1, NEW k \in 1 .. Len(s) + 1, j < k
               PROVE  t[j] < t[k]
    BY <1>2 DEF Rising
  <2>1. CASE k < p
    <3>1. j \in 1 .. Len(s) /\ k \in 1 .. Len(s) /\ j < p
      BY <1>n, <1>1, <2>1
    <3>2. t[j] = s[j] /\ t[k] = s[k]
      BY <1>a, <2>1, <3>1
    <3> QED BY <3>1, <3>2 DEF Rising
  <2>2. CASE k = p
    <3>1. j \in 1 .. Len(s) /\ j < p
      BY <1>n, <1>1, <2>2
    <3> QED BY <1>a, <1>b, <1>5, <2>2, <3>1
  <2>3. CASE k > p
    <3>1. t[k] = s[k - 1] /\ k - 1 \in 1 .. Len(s) /\ p <= k - 1
      BY <1>n, <1>1, <1>2, <2>3
    <3>2. CASE j < p
      <4>1. t[j] = s[j] /\ j \in 1 .. Len(s) /\ j < k - 1
        BY <1>n, <1>1, <1>2, <2>3, <3>2
      <4> QED BY <3>1, <4>1 DEF Rising
    <3>3. CASE j = p
      BY SMTT(30), <1>n, <1>1, <1>2, <1>6, <3>1, <3>3
    <3>4. CASE j > p
      <4>1. t[j] = s[j - 1] /\ j - 1 \in 1 .. Len(s) /\ j - 1 < k - 1
        BY <1>n, <1>1, <1>2, <2>3, <3>4
      <4> QED BY <3>1, <4>1 DEF Rising
    <3> QED BY <1>n, <1>1, <3>2, <3>3, <3>4
  <2> QED BY <1>n, <1>1, <2>1, <2>2, <2>3
<1>8. ToSet(t) = ToSet(s) \cup {i}
  <2>1. DOMAIN t = 1 .. Len(s) + 1 /\ DOMAIN s = 1 .. Len(s)
    BY <1>2
  <2>2. ASSUME NEW j \in 1 .. Len(s) + 1 PROVE t[j] \in ToSet(s) \cup {i}
    <3>1. CASE j = p
      BY <1>2, <3>1
    <3>2. CASE j < p
      <4>1. j \in 1 .. Len(s) /\ t[j] = s[j]
        BY <1>n, <1>1, <1>2, <3>2
      <4> QED BY <2>1, <4>1 DEF ToSet
    <3>3. CASE j > p
      <4>1. j - 1 \in 1 .. Len(s) /\ t[j] = s[j - 1]
        BY <1>n, <1>1, <1>2, <3>3
      <4> QED BY <2>1, <4>1 DEF ToSet
    <3> QED BY <1>n, <1>1, <3>1, <3>2, <3>3
  <2>3. i \in ToSet(t)
    BY <1>1, <1>2, <2>1 DEF ToSet
  <2>4. ASSUME NEW j \in 1 .. Len(s) PROVE s[j] \in ToSet(t)
    <3>1. CASE j < p
      <4>1. j \in 1 .. Len(s) + 1 /\ t[j] = s[j]
        BY <1>n, <1>1, <1>2, <3>1
      <4> QED BY <2>1, <4>1 DEF ToSet
    <3>2. CASE j >= p
      <4>1. j + 1 \in 1 .. Len(s) + 1 /\ t[j + 1] = s[j]
        BY <1>n, <1>1, <1>c, <3>2
      <4> QED BY <2>1, <4>1 DEF ToSet
    <3> QED BY <1>n, <1>1, <3>1, <3>2
  <2>5. ToSet(t) \subseteq ToSet(s) \cup {i}
    BY <2>1, <2>2 DEF ToSet
  <2>6. ToSet(s) \subseteq ToSet(t)
    <3>1. ToSet(s) = {s[j] : j \in 1 .. Len(s)}
      BY <2>1 DEF ToSet
    <3> QED BY <2>4, <3>1
  <2> QED BY <2>3, <2>5, <2>6
<1> QED BY <1>2, <1>3, <1>4, <1>7, <1>8

Differ(s) == \A i, j \in 1 .. Len(s) : s[i] = s[j] => i = j

\* Failures of different elements have an order of the batch: the first sequence without one
\* would be its front and one more failure, put in its place.
LEMMA OrderExists ==
  ASSUME NEW s \in Seq(Nat), Differ(s)
  PROVE  \E t \in Seq(Nat) : Len(t) = Len(s) /\ ToSet(t) = ToSet(s) /\ Rising(t)
<1> DEFINE Order(u) == \E t \in Seq(Nat) : Len(t) = Len(u) /\ ToSet(t) = ToSet(u) /\ Rising(t)
           bad == {n \in Nat : \E u \in Seq(Nat) : Len(u) = n /\ Differ(u) /\ ~Order(u)}
<1>1. SUFFICES ASSUME bad # {} PROVE FALSE
  <2>1. Len(s) \notin bad /\ Len(s) \in Nat
    BY <1>1
  <2>2. Order(s)
    <3> HIDE DEF Order
    <3> QED BY <2>1
  <2> QED BY <2>2
<1>2. PICK n \in bad : \A k \in bad : n <= k
  <2>1. bad \subseteq Nat
    OBVIOUS
  <2> HIDE DEF bad
  <2> QED BY <1>1, <2>1, LeastNumber
<1>3. PICK u \in Seq(Nat) : Len(u) = n /\ Differ(u) /\ ~Order(u)
  <2> HIDE DEF Order
  <2> QED BY <1>2
<1>4. n \in Nat
  OBVIOUS
<1>5. n # 0
  <2> SUFFICES ASSUME n = 0 PROVE FALSE
    OBVIOUS
  <2>1. Len(u) = 0
    BY <1>3
  <2>2. Rising(u)
    BY <2>1 DEF Rising
  <2> QED BY <1>3, <2>2
<1> DEFINE v == SubSeq(u, 1, n - 1)
<1>6. v \in Seq(Nat) /\ Len(v) = n - 1 /\ \A j \in 1 .. n - 1 : v[j] = u[j]
  BY <1>3, <1>4, <1>5
<1> HIDE DEF v
<1>7. Differ(v)
  BY <1>3, <1>4, <1>6 DEF Differ
<1>8. n - 1 \in Nat /\ n - 1 \notin bad
  <2> HIDE DEF bad
  <2> QED BY <1>2, <1>4, <1>5
<1>9. Order(v)
  <2> HIDE DEF Order
  <2> QED BY <1>6, <1>7, <1>8
<1>10. PICK t \in Seq(Nat) : Len(t) = n - 1 /\ ToSet(t) = ToSet(v) /\ Rising(t)
  BY <1>6, <1>9
<1>11. u[n] \in Nat /\ n \in 1 .. Len(u)
  BY <1>3, <1>4, <1>5
<1>12. DOMAIN u = 1 .. n /\ DOMAIN v = 1 .. n - 1
  BY <1>3, <1>6
<1>13. u[n] \notin ToSet(v)
  <2> SUFFICES ASSUME NEW j \in 1 .. n - 1, v[j] = u[n] PROVE FALSE
    BY <1>12 DEF ToSet
  <2>1. j \in 1 .. Len(u) /\ u[j] = u[n] /\ j # n
    BY <1>3, <1>4, <1>6
  <2> QED BY <1>3, <1>11, <2>1 DEF Differ
<1>14. ToSet(u) = ToSet(v) \cup {u[n]}
  <2>1. ToSet(u) = {u[j] : j \in 1 .. n} /\ ToSet(v) = {v[j] : j \in 1 .. n - 1}
    BY <1>12 DEF ToSet
  <2>2. \A j \in 1 .. n : j = n \/ j \in 1 .. n - 1
    BY <1>4
  <2>3. \A j \in 1 .. n - 1 : j \in 1 .. n
    BY <1>4
  <2>4. n \in 1 .. n
    BY <1>4, <1>5
  <2>5. ASSUME NEW x \in ToSet(u) PROVE x \in ToSet(v) \cup {u[n]}
    <3>1. PICK j \in 1 .. n : x = u[j]
      BY <2>1
    <3> QED BY <1>6, <2>1, <2>2, <3>1
  <2>6. ASSUME NEW x \in ToSet(v) PROVE x \in ToSet(u)
    <3>1. PICK j \in 1 .. n - 1 : x = v[j]
      BY <2>1
    <3> QED BY <1>6, <2>1, <2>3, <3>1
  <2>7. u[n] \in ToSet(u)
    BY <2>1, <2>4
  <2> QED BY <2>5, <2>6, <2>7
<1> DEFINE w == F!Insert(t, u[n])
<1>15. w \in Seq(Nat) /\ Len(w) = Len(t) + 1 /\ Rising(w) /\ ToSet(w) = ToSet(t) \cup {u[n]}
  BY <1>10, <1>11, <1>13, InsertRises
<1> HIDE DEF w
<1>16. Len(w) = Len(u)
  BY <1>3, <1>4, <1>10, <1>15
<1> QED BY <1>3, <1>10, <1>14, <1>15, <1>16

\* Sorting gives these failures in that order.
LEMMA SortedRises ==
  ASSUME NEW s \in Seq(Nat), Differ(s)
  PROVE  /\ G!Sorted(s) \in Seq(Nat) /\ ToSet(G!Sorted(s)) = ToSet(s) /\ Rising(G!Sorted(s))
<1> DEFINE P(t) == G!ToSet(t) = G!ToSet(s) /\ \A i, j \in DOMAIN t : i < j => t[i] < t[j]
           Ts == [1 .. Len(s) -> G!ToSet(s)]
<1>1. PICK t \in Seq(Nat) : Len(t) = Len(s) /\ ToSet(t) = ToSet(s) /\ Rising(t)
  BY OrderExists
<1>2. \A u : G!ToSet(u) = ToSet(u)
  BY DEF G!ToSet, ToSet
<1>3. t \in Ts
  <2>1. DOMAIN t = 1 .. Len(s) /\ Len(s) \in Nat /\ t = [j \in 1 .. Len(s) |-> t[j]]
    BY <1>1
  <2>2. \A j \in 1 .. Len(s) : t[j] \in ToSet(t)
    BY <2>1 DEF ToSet
  <2> QED BY <1>1, <1>2, <2>1, <2>2
<1>4. P(t)
  <2>1. DOMAIN t = 1 .. Len(t)
    OBVIOUS
  <2> QED BY <1>1, <1>2, <2>1 DEF Rising
<1>5. G!Sorted(s) \in Ts /\ P(G!Sorted(s))
  <2>1. G!Sorted(s) = CHOOSE u \in Ts : P(u)
    BY DEF G!Sorted
  <2> HIDE DEF P, Ts
  <2> QED BY <1>3, <1>4, <2>1
<1> HIDE DEF P
<1>6. \A x \in ToSet(s) : x \in Nat
  BY DEF ToSet
<1>7. /\ G!Sorted(s) \in Seq(Nat) /\ DOMAIN G!Sorted(s) = 1 .. Len(s)
      /\ Len(G!Sorted(s)) = Len(s)
  <2> DEFINE u == G!Sorted(s)
  <2>1. u \in [1 .. Len(s) -> ToSet(s)]
    BY <1>2, <1>5
  <2> HIDE DEF u
  <2>2. u \in [1 .. Len(s) -> Nat]
    BY <1>6, <2>1
  <2>3. Len(s) \in Nat
    OBVIOUS
  <2>4. u \in Seq(Nat)
    BY <2>2, <2>3, SeqDef
  <2>5. DOMAIN u = 1 .. Len(s) /\ DOMAIN u = 1 .. Len(u) /\ Len(u) \in Nat
    BY <2>2, <2>4, LenProperties
  <2>6. Len(u) = Len(s)
    BY <2>3, <2>5
  <2> QED BY <2>4, <2>5, <2>6 DEF u
<1> HIDE DEF Ts
<1> QED BY <1>2, <1>5, <1>7 DEF P, Rising

-----------------------------------------------------------------------------
(* The steps of the fan. *)

\* What a report does, with the failures and the successes it knows of afterwards.
Reported(a, told, order, sent, error, then) ==
  /\ order \in Seq(Nat) /\ sent \in BOOLEAN
  /\ Rising(order) /\ ToSet(order) = ToSet(fan.order) \cup (IF told.ok THEN {} ELSE {told.p.i})
  /\ sent <=> fan.sent \/ told.ok
  /\ fan.pending > 1 =>
       /\ error = 0 /\ then = 0
       /\ fan' = [fan EXCEPT !.order = order, !.sent = sent, !.pending = fan.pending - 1]
  /\ fan.pending = 1 =>
       /\ error = IF order # << >> THEN fan.error ELSE 0
       /\ then = IF sent THEN fan.then ELSE 0
       /\ fan' = [busy |-> error # 0, error |-> 0, then |-> 0, pending |-> 0, sent |-> sent,
                  order |-> IF error # 0 THEN order ELSE << >>]
  /\ report' = [report EXCEPT ![a] = [error |-> error, then |-> then]]
  /\ heard' = IF error # 0 THEN [heard EXCEPT ![error] = order] ELSE heard
  /\ followed' = IF then # 0 THEN [followed EXCEPT ![then] = TRUE] ELSE followed

LEMMA ReportEffect ==
  ASSUME FanTypes, NEW a \in F!Actors, NEW told \in Reports, F!Report(a, told),
         fan.pending > 0, Rising(fan.order), ~told.ok => told.p.i \notin ToSet(fan.order)
  PROVE  \E order, sent, error, then : Reported(a, told, order, sent, error, then)
  <1> DEFINE order == IF told.ok THEN fan.order ELSE F!Insert(fan.order, told.p.i)
             sent == fan.sent \/ told.ok
             error == IF fan.pending = 1 /\ order # << >> THEN fan.error ELSE 0
             then == IF fan.pending = 1 /\ sent THEN fan.then ELSE 0
  <1>1. /\ fan.order \in Seq(Nat) /\ fan.pending \in Nat /\ told.p.i \in Nat /\ told.ok \in BOOLEAN
        /\ fan.sent \in BOOLEAN
    BY DEF FanTypes, Reports, Parts
  <1>2. /\ order \in Seq(Nat) /\ Rising(order)
        /\ ToSet(order) = ToSet(fan.order) \cup (IF told.ok THEN {} ELSE {told.p.i})
    <2>1. CASE told.ok
      BY <1>1, <2>1
    <2>2. CASE ~told.ok
      BY <1>1, <2>2, InsertRises
    <2> QED BY <2>1, <2>2
  <1> DEFINE pending == IF fan.pending > 0 THEN fan.pending - 1 ELSE 0
             final == pending = 0
             fanNext == IF ~final
               THEN [fan EXCEPT !.order = order, !.sent = sent, !.pending = pending]
               ELSE [busy |-> error # 0, error |-> 0, then |-> 0, pending |-> 0, sent |-> sent,
                     order |-> IF error # 0 THEN order ELSE << >>]
  <1>3. /\ final <=> fan.pending = 1
        /\ pending = fan.pending - 1
    BY <1>1
  <1>4. /\ fan' = fanNext
        /\ report' = [report EXCEPT ![a] = [error |-> error, then |-> then]]
        /\ heard' = IF error # 0 THEN [heard EXCEPT ![error] = order] ELSE heard
        /\ followed' = IF then # 0 THEN [followed EXCEPT ![then] = TRUE] ELSE followed
    <2>1. error = IF final /\ order # << >> THEN fan.error ELSE 0
      BY <1>3
    <2>2. then = IF final /\ sent THEN fan.then ELSE 0
      BY <1>3
    <2> HIDE DEF error, then
    <2> QED BY <2>1, <2>2 DEF F!Report
  <1>5. fan.pending > 1 => fan' = [fan EXCEPT !.order = order, !.sent = sent,
                                              !.pending = fan.pending - 1]
    <2> HIDE DEF order, sent, error, then
    <2> SUFFICES ASSUME fan.pending > 1
                 PROVE  fan' = [fan EXCEPT !.order = order, !.sent = sent,
                                           !.pending = fan.pending - 1]
      OBVIOUS
    <2>1. ~final
      BY <1>1, <1>3
    <2>2. fan' = [fan EXCEPT !.order = order, !.sent = sent, !.pending = pending]
      <3> HIDE DEF pending, final
      <3> QED BY <1>4, <2>1
    <2> QED BY <1>3, <2>2
  <1>6. fan.pending = 1 =>
          fan' = [busy |-> error # 0, error |-> 0, then |-> 0, pending |-> 0, sent |-> sent,
                  order |-> IF error # 0 THEN order ELSE << >>]
    BY <1>3, <1>4
  <1>7. fan.pending > 1 => error = 0 /\ then = 0
    BY <1>1
  <1>8. fan.pending = 1 => /\ error = IF order # << >> THEN fan.error ELSE 0
                           /\ then = IF sent THEN fan.then ELSE 0
    OBVIOUS
  <1>9. sent \in BOOLEAN
    BY <1>1
  <1> HIDE DEF order, sent, error, then, pending, final, fanNext
  <1>10. sent <=> fan.sent \/ told.ok
    BY DEF sent
  <1>11. Reported(a, told, order, sent, error, then)
    BY <1>2, <1>4, <1>5, <1>6, <1>7, <1>8, <1>9, <1>10 DEF Reported
  <1> QED BY <1>11

\* The fan waits for what is on its way and for what is not settled.
LEMMA CountFacts ==
  ASSUME FanInv
  PROVE  /\ fan.pending \in Nat /\ F!Unsettled \in Nat /\ Cardinality(F!OnTheWay) \in Nat
         /\ F!Unsettled = IF On THEN Size + 1 - wk.i ELSE 0
         /\ On => F!Unsettled > 0
         /\ F!OnTheWay # {} => Cardinality(F!OnTheWay) > 0
         /\ On \/ F!OnTheWay # {} => fan.pending > 0 /\ fan.error # 0
  <1>1. /\ wk.i \in Nat /\ wk.shared \in BOOLEAN /\ fan.pending \in Nat /\ Size \in Nat
    BY BatchAssumption DEF FanInv, FanTypes
  <1>2. On => wk.i \in 1 .. Size
    BY <1>1 DEF FanInv, FanControl, On
  <1>3. F!Unsettled = IF On THEN Size + 1 - wk.i ELSE 0
    BY DEF F!Unsettled, On
  <1>4. F!Unsettled \in Nat /\ (On => F!Unsettled > 0)
    BY <1>1, <1>2, <1>3
  <1>5. Cardinality(F!OnTheWay) \in Nat
    BY FS_CardinalityType DEF FanInv, CountInv
  <1>6. F!OnTheWay # {} => Cardinality(F!OnTheWay) > 0
    <2>1. IsFiniteSet(F!OnTheWay)
      BY DEF FanInv, CountInv
    <2>2. Cardinality(F!OnTheWay) = 0 <=> F!OnTheWay = {}
      BY <2>1, FS_EmptySet
    <2> QED BY <1>5, <2>2
  <1>7. fan.pending = Cardinality(F!OnTheWay) + F!Unsettled /\ (fan.pending > 0 <=> fan.error # 0)
    BY DEF FanInv, CountInv
  <1> HIDE DEF On
  <1> QED BY <1>1, <1>3, <1>4, <1>5, <1>6, <1>7

Working == {"element", "arm", "send", "spill", "full", "sending"}

\* The report of the worker.
LEMMA WorkerReports ==
  ASSUME FanInv, wk.st \in Working, wk.shared, NEW ok \in BOOLEAN, F!EndsHere(ok)
  PROVE  /\ On /\ F!Mine = [o |-> wk.o, i |-> wk.i] /\ F!Mine # F!NoPart /\ fan.error = wk.o
         /\ wk.i \notin ended[wk.o] /\ fan.pending > 0 /\ wk.o \in 1 .. MaxOutcomes
         /\ \E order, sent, error, then :
              Reported("worker", [p |-> F!Mine, ok |-> ok], order, sent, error, then)
  <1>1. /\ wk.i \in Nat /\ wk.o \in Nat /\ wk.shared \in BOOLEAN /\ wk.i \in 1 .. Size
        /\ wk.o \in 1 .. MaxOutcomes
    BY BatchAssumption DEF FanInv, FanTypes, FanControl, Working
  <1>2. On /\ F!Mine = [o |-> wk.o, i |-> wk.i]
    BY DEF On, F!Mine, F!Part, Working
  <1>3. F!Mine # F!NoPart
    BY <1>1, <1>2 DEF F!NoPart, F!Part
  <1>4. fan.error = wk.o /\ fan.error # 0 /\ fan.pending > 0
    BY <1>1, <1>2, CountFacts DEF FanInv, PartsInv
  <1>5. wk.i \notin ended[wk.o]
    BY <1>1, <1>2, <1>4 DEF FanInv, GatheredInv, Left
  <1>6. wk.i \notin ToSet(fan.order)
    BY <1>4, <1>5 DEF FanInv, GatheredInv
  <1> DEFINE told == [p |-> F!Mine, ok |-> ok]
  <1>7. told \in Reports /\ told.p.i = wk.i /\ told.ok = ok
    BY <1>1, <1>2 DEF Reports, Parts
  <1>8. F!Report("worker", told)
    BY DEF F!EndsHere, F!Told
  <1> HIDE DEF told
  <1>9. Rising(fan.order) /\ "worker" \in F!Actors /\ FanTypes
    BY <1>4 DEF FanInv, GatheredInv, F!Actors
  <1>10. \E order, sent, error, then : Reported("worker", told, order, sent, error, then)
    BY <1>4, <1>6, <1>7, <1>8, <1>9, ReportEffect
  <1> QED BY <1>1, <1>2, <1>3, <1>4, <1>5, <1>10 DEF told

\* The report of the reporter.
LEMMA ReporterReports ==
  ASSUME FanInv, F!Takes
  PROVE  /\ slot.p \in F!OnTheWay /\ slot.p # F!NoPart /\ fan.pending > 0 /\ fan.error # 0
         /\ slot.p.o = fan.error /\ slot.p.i \in 1 .. Size
         /\ \E order, sent, error, then : Reported("reporter", slot, order, sent, error, then)
  <1>1. slot # F!Nothing /\ F!Report("reporter", slot)
    BY DEF F!Takes
  <1>2. slot.p # F!NoPart
    BY <1>1 DEF FanInv, OnePlace
  <1>3. slot.p \in F!OnTheWay
    BY <1>2 DEF F!OnTheWay, F!Under
  <1>4. fan.pending > 0 /\ fan.error # 0
    BY <1>3, CountFacts
  <1>5. slot.p.o = fan.error /\ slot.p.i \in 1 .. Size
    BY <1>3 DEF FanInv, PartsInv
  <1>6. slot.p \in Parts /\ slot \in Reports
    BY DEF FanInv, FanTypes, Reports
  <1>7. slot.p = F!Part(fan.error, slot.p.i)
    BY <1>5, <1>6 DEF F!Part, Parts
  <1>8. slot.p.i \notin ToSet(fan.order)
    BY <1>4, <1>7 DEF FanInv, GatheredInv, Unreported
  <1>9. Rising(fan.order) /\ "reporter" \in F!Actors /\ FanTypes
    BY <1>4 DEF FanInv, GatheredInv, F!Actors
  <1>10. \E order, sent, error, then : Reported("reporter", slot, order, sent, error, then)
    BY <1>1, <1>4, <1>6, <1>8, <1>9, ReportEffect
  <1> QED BY <1>2, <1>3, <1>4, <1>5, <1>10

LEMMA ReportedTypes ==
  ASSUME FanTypes, NEW a \in F!Actors, NEW told \in Reports, NEW order, NEW sent, NEW error,
         NEW then, Reported(a, told, order, sent, error, then), fan.pending > 0
  PROVE  /\ fan' \in [busy : BOOLEAN, error : Nat, then : Nat, pending : Nat, sent : BOOLEAN,
                      order : Seq(Nat)]
         /\ report' \in [F!Actors -> [error : Nat, then : Nat]]
         /\ heard' \in [1 .. MaxOutcomes -> Seq(Nat)]
         /\ followed' \in [1 .. MaxOutcomes -> BOOLEAN]
         /\ error \in {0, fan.error} /\ then \in {0, fan.then}
  <1>1. /\ fan \in [busy : BOOLEAN, error : Nat, then : Nat, pending : Nat, sent : BOOLEAN,
                    order : Seq(Nat)]
        /\ report \in [F!Actors -> [error : Nat, then : Nat]]
        /\ heard \in [1 .. MaxOutcomes -> Seq(Nat)]
        /\ followed \in [1 .. MaxOutcomes -> BOOLEAN]
    BY DEF FanTypes
  <1>2. order \in Seq(Nat) /\ sent \in BOOLEAN /\ << >> \in Seq(Nat)
    BY DEF Reported
  <1>3. fan.pending = 1 \/ fan.pending > 1
    BY <1>1
  <1>4. error \in {0, fan.error} /\ then \in {0, fan.then}
    BY <1>3 DEF Reported
  <1>5. error \in Nat /\ then \in Nat
    BY <1>1, <1>4
  <1>6. report' \in [F!Actors -> [error : Nat, then : Nat]]
    BY <1>1, <1>5 DEF Reported
  <1>7. heard' \in [1 .. MaxOutcomes -> Seq(Nat)]
    BY <1>1, <1>2 DEF Reported
  <1>8. followed' \in [1 .. MaxOutcomes -> BOOLEAN]
    BY <1>1 DEF Reported
  <1>9. CASE fan.pending = 1
    <2>1. fan' = [busy |-> error # 0, error |-> 0, then |-> 0, pending |-> 0, sent |-> sent,
                  order |-> IF error # 0 THEN order ELSE << >>]
      BY <1>9 DEF Reported
    <2>2. (IF error # 0 THEN order ELSE << >>) \in Seq(Nat)
      BY <1>2
    <2> QED BY <1>2, <1>4, <1>6, <1>7, <1>8, <2>1, <2>2
  <1>10. CASE fan.pending > 1
    <2>1. fan' = [fan EXCEPT !.order = order, !.sent = sent, !.pending = fan.pending - 1]
      BY <1>10 DEF Reported
    <2>2. fan.pending - 1 \in Nat
      BY <1>1, <1>10
    <2> QED BY <1>1, <1>2, <1>4, <1>6, <1>7, <1>8, <2>1, <2>2
  <1> QED BY <1>3, <1>9, <1>10

LEMMA EndedTypes ==
  ASSUME FanTypes, NEW p \in Parts, NEW ok \in BOOLEAN, F!Ends(p, ok),
         p # F!NoPart => p.o \in 1 .. MaxOutcomes /\ p.i \in 1 .. Size
  PROVE  /\ ended' \in [1 .. MaxOutcomes -> SUBSET (1 .. Size)]
         /\ failed' \in [1 .. MaxOutcomes -> SUBSET (1 .. Size)]
  BY DEF FanTypes, F!Ends

\* What the worker's move to its next element does.
LEMMA NextElementEffect ==
  ASSUME FanTypes, FanControl, wk.st \in Working, F!NextElement
  PROVE  /\ wk' \in [st : WorkerStates, o : Nat, i : Nat, r : Nat, shared : BOOLEAN,
                     then : BOOLEAN]
         /\ wk'.o = wk.o /\ wk'.r = 0 /\ wk.i \in 1 .. Size
         /\ wk.i = Size => wk'.st = "next" /\ ~wk'.shared
         /\ wk.i # Size => wk'.st = "element" /\ wk'.i = wk.i + 1 /\ (wk'.shared <=> wk.shared)
  <1>1. /\ wk \in [st : WorkerStates, o : Nat, i : Nat, r : Nat, shared : BOOLEAN,
                   then : BOOLEAN]
        /\ wk.i \in 1 .. Size /\ Size \in Nat
    BY BatchAssumption DEF FanTypes, FanControl, Working
  <1>2. CASE wk.i = Size
    <2>1. wk' = [st |-> "next", o |-> wk.o, i |-> 0, r |-> 0, shared |-> FALSE, then |-> FALSE]
      BY <1>2 DEF F!NextElement
    <2> QED BY <1>1, <1>2, <2>1 DEF WorkerStates
  <1>3. CASE wk.i # Size
    <2>1. wk' = [wk EXCEPT !.st = "element", !.i = wk.i + 1, !.r = 0]
      BY <1>3 DEF F!NextElement
    <2>2. "element" \in WorkerStates /\ wk.i + 1 \in Nat
      BY <1>1 DEF WorkerStates
    <2>3. /\ wk' \in [st : WorkerStates, o : Nat, i : Nat, r : Nat, shared : BOOLEAN,
                       then : BOOLEAN]
      BY <1>1, <2>1, <2>2
    <2>4. wk'.o = wk.o /\ wk'.r = 0 /\ wk'.st = "element" /\ wk'.i = wk.i + 1
      BY <1>1, <2>1
    <2>5. wk'.shared = wk.shared
      BY <1>1, <2>1
    <2> QED BY <1>1, <1>3, <2>3, <2>4, <2>5
  <1> QED BY <1>2, <1>3

LEMMA EndsHereTypes ==
  ASSUME FanInv, wk.st \in Working, NEW ok \in BOOLEAN, F!EndsHere(ok)
  PROVE  /\ fan' \in [busy : BOOLEAN, error : Nat, then : Nat, pending : Nat, sent : BOOLEAN,
                      order : Seq(Nat)]
         /\ report' \in [F!Actors -> [error : Nat, then : Nat]]
         /\ ended' \in [1 .. MaxOutcomes -> SUBSET (1 .. Size)]
         /\ failed' \in [1 .. MaxOutcomes -> SUBSET (1 .. Size)]
         /\ heard' \in [1 .. MaxOutcomes -> Seq(Nat)]
         /\ followed' \in [1 .. MaxOutcomes -> BOOLEAN]
  <1>t. FanTypes /\ FanControl
    BY DEF FanInv
  <1>1. F!Ends(F!Mine, ok)
    BY DEF F!EndsHere
  <1>2. CASE wk.shared
    <2>1. F!Mine = [o |-> wk.o, i |-> wk.i] /\ fan.pending > 0 /\ wk.o \in 1 .. MaxOutcomes
      BY <1>2, WorkerReports
    <2>2. wk.i \in 1 .. Size /\ wk.i \in Nat /\ wk.o \in Nat
      BY <1>t DEF FanTypes, FanControl, Working
    <2>3. F!Mine \in Parts /\ F!Mine.o = wk.o /\ F!Mine.i = wk.i
      BY <2>1, <2>2 DEF Parts
    <2>4. [p |-> F!Mine, ok |-> ok] \in Reports /\ "worker" \in F!Actors
      BY <2>3 DEF Reports, F!Actors
    <2>5. PICK order, sent, error, then :
            Reported("worker", [p |-> F!Mine, ok |-> ok], order, sent, error, then)
      BY <1>2, WorkerReports
    <2>6. /\ ended' \in [1 .. MaxOutcomes -> SUBSET (1 .. Size)]
          /\ failed' \in [1 .. MaxOutcomes -> SUBSET (1 .. Size)]
      BY <1>t, <1>1, <2>1, <2>2, <2>3, EndedTypes
    <2> QED BY <1>t, <2>1, <2>4, <2>5, <2>6, ReportedTypes
  <1>3. CASE ~wk.shared
    <2>1. F!Mine = F!NoPart /\ UNCHANGED <<fan, report, heard, followed>>
      BY <1>3 DEF F!EndsHere, F!Mine
    <2>2. UNCHANGED <<ended, failed>>
      BY <1>1, <2>1 DEF F!Ends
    <2> QED BY <1>t, <2>1, <2>2 DEF FanTypes
  <1> QED BY <1>2, <1>3

\* A record given back.
LEMMA GivenBack ==
  ASSUME FanTypes, NEW r \in Nat, F!GiveBack(r)
  PROVE  /\ rec' \in [1 .. Store -> [st : {"free", "taken", "due", "sending"}, part : Parts]]
         /\ \A q \in 1 .. Store : q # r => rec'[q] = rec[q]
         /\ r \in 1 .. Store => rec'[r] = F!FreeRecord
  <1>1. F!FreeRecord \in [st : {"free", "taken", "due", "sending"}, part : Parts]
    BY DEF F!FreeRecord, F!NoPart, F!Part, Parts
  <1>2. rec \in [1 .. Store -> [st : {"free", "taken", "due", "sending"}, part : Parts]]
    BY DEF FanTypes
  <1>3. rec' = IF r = 0 THEN rec ELSE [rec EXCEPT ![r] = F!FreeRecord]
    BY DEF F!GiveBack
  <1>4. Store \in Nat
    BY BatchAssumption
  <1>5. CASE r = 0
    <2>1. rec' = rec /\ r \notin 1 .. Store
      BY <1>3, <1>4, <1>5
    <2> QED BY <1>2, <2>1
  <1>6. CASE r # 0
    <2> DEFINE free == F!FreeRecord
    <2>1. rec' = [rec EXCEPT ![r] = free]
      BY <1>3, <1>6
    <2>2. free \in [st : {"free", "taken", "due", "sending"}, part : Parts]
      BY <1>1
    <2> HIDE DEF free
    <2>3. /\ rec' \in [1 .. Store -> [st : {"free", "taken", "due", "sending"}, part : Parts]]
          /\ \A q \in 1 .. Store : q # r => rec'[q] = rec[q]
          /\ r \in 1 .. Store => rec'[r] = free
      BY <1>2, <2>1, <2>2
    <2> QED BY <2>3 DEF free
  <1> QED BY <1>5, <1>6

\* The worker's step that ends an element, whatever it does to the record in hand.
LEMMA EndsHereControl ==
  ASSUME FanInv, wk.st \in Working, NEW ok \in BOOLEAN, F!EndsHere(ok), F!GiveBack(wk.r),
         UNCHANGED <<pub, slot>>
  PROVE  FanTypes' /\ FanControl' /\ \A r \in 1 .. Store : rec'[r].part = rec[r].part
  <1>t. FanTypes /\ FanControl
    BY DEF FanInv
  <1>1. /\ wk' \in [st : WorkerStates, o : Nat, i : Nat, r : Nat, shared : BOOLEAN,
                    then : BOOLEAN]
        /\ wk'.o = wk.o /\ wk'.r = 0 /\ wk.i \in 1 .. Size
        /\ wk.i = Size => wk'.st = "next" /\ ~wk'.shared
        /\ wk.i # Size => wk'.st = "element" /\ wk'.i = wk.i + 1 /\ (wk'.shared <=> wk.shared)
    BY <1>t, NextElementEffect DEF F!EndsHere
  <1>2. wk.r \in Nat /\ Store \in Nat /\ Size \in Nat /\ wk.o # 0 /\ wk.o <= MaxOutcomes
    BY <1>t, BatchAssumption DEF FanTypes, FanControl, Working
  <1>3. /\ rec' \in [1 .. Store -> [st : {"free", "taken", "due", "sending"}, part : Parts]]
        /\ \A q \in 1 .. Store : q # wk.r => rec'[q] = rec[q]
        /\ wk.r \in 1 .. Store => rec'[wk.r] = F!FreeRecord
    BY <1>t, <1>2, GivenBack
  <1>4. F!FreeRecord.st = "free" /\ F!FreeRecord.part = F!NoPart
    BY DEF F!FreeRecord
  <1>5. wk.r # 0 => wk.r \in 1 .. Store /\ rec[wk.r].part = F!NoPart
    BY <1>t DEF FanControl
  <1>6. \A r \in 1 .. Store : rec'[r].part = rec[r].part
    BY <1>2, <1>3, <1>4, <1>5
  <1>7. pub.st = "sending" => pub.r \in 1 .. Store /\ rec[pub.r].st = "sending" /\ pub.r # wk.r
    BY <1>t DEF FanControl
  <1>8. pub'.st = "sending" => pub'.r \in 1 .. Store /\ rec'[pub'.r].st = "sending" /\ pub'.r # 0
    BY <1>3, <1>7
  <1>9. \A r \in 1 .. Store : rec'[r].st = "free" => rec'[r].part = F!NoPart
    BY <1>t, <1>3, <1>4 DEF FanControl
  <1>10. FanTypes'
    BY <1>t, <1>1, <1>3, EndsHereTypes DEF FanTypes
  <1>11. FanControl'
    <2>1. wk'.st # "next" => wk'.i \in 1 .. Size
      BY <1>1, <1>2
    <2> QED BY <1>t, <1>1, <1>2, <1>8, <1>9, <2>1 DEF FanControl
  <1> QED BY <1>6, <1>10, <1>11


\* A step that moves no part and reports nothing.
Quiet ==
  /\ \A r \in 1 .. Store : rec'[r].part = rec[r].part
  /\ slot' = slot /\ pub'.told = pub.told /\ fan' = fan
  /\ \A a \in F!Actors : report'[a].error = report[a].error
  /\ UNCHANGED <<ended, failed, heard, followed>>
  /\ On' <=> On
  /\ wk.o <= wk'.o /\ (On => wk'.i = wk.i /\ wk'.o = wk.o)
  /\ wk'.st = "begin" => wk.st = "begin" \/ wk'.o = wk.o + 1

LEMMA ReturnsQuiet ==
  ASSUME FanInv, F!Returns
  PROVE  FanTypes' /\ FanControl' /\ Quiet
  <1>t. FanTypes /\ FanControl
    BY DEF FanInv
  <1>1. /\ wk.st = "next" /\ wk.o \in Nat /\ wk.o < MaxOutcomes /\ ~wk.shared
        /\ MaxOutcomes \in Nat /\ Size \in Nat \ {0}
    BY <1>t, BatchAssumption DEF F!Returns, F!WorkerIn, FanTypes, FanControl
  <1>2. PICK shared, then \in BOOLEAN :
          wk' = [st |-> IF shared THEN "begin" ELSE "element", o |-> wk.o + 1, i |-> 1, r |-> 0,
                 shared |-> shared, then |-> then]
    BY DEF F!Returns
  <1>3. UNCHANGED <<rec, pub, slot, rep, fan, report, closed, ended, failed, heard, followed>>
    BY DEF F!Returns, F!outcomeVars
  <1>4. wk' \in [st : WorkerStates, o : Nat, i : Nat, r : Nat, shared : BOOLEAN, then : BOOLEAN]
    BY <1>1, <1>2 DEF WorkerStates
  <1>5. /\ wk'.o = wk.o + 1 /\ wk'.i = 1 /\ wk'.r = 0 /\ wk'.shared = shared
        /\ wk'.st = IF shared THEN "begin" ELSE "element"
    BY <1>2
  <1>6. FanTypes'
    BY <1>t, <1>3, <1>4 DEF FanTypes
  <1>7. pub.st = "sending" => pub.r # 0
    BY <1>t, BatchAssumption DEF FanControl
  <1>8. FanControl'
    BY <1>t, <1>1, <1>3, <1>5, <1>7 DEF FanControl
  <1>9. ~On /\ ~(On')
    BY <1>1, <1>5 DEF On
  <1>10. Quiet
    BY <1>1, <1>3, <1>5, <1>9 DEF Quiet
  <1> QED BY <1>6, <1>8, <1>10

LEMMA PreparesQuiet ==
  ASSUME FanInv, F!Prepares
  PROVE  FanTypes' /\ FanControl' /\ Quiet
  <1>t. FanTypes /\ FanControl
    BY DEF FanInv
  <1>1. /\ wk.st = "element" /\ wk.o \in Nat /\ wk.o # 0 /\ wk.i \in 1 .. Size /\ Store \in Nat
        /\ wk \in [st : WorkerStates, o : Nat, i : Nat, r : Nat, shared : BOOLEAN, then : BOOLEAN]
        /\ rec \in [1 .. Store -> [st : {"free", "taken", "due", "sending"}, part : Parts]]
    BY <1>t, BatchAssumption DEF F!Prepares, F!WorkerIn, FanTypes, FanControl
  <1>2. UNCHANGED <<pub, slot, rep, fan, report, closed, ended, failed, heard, followed>>
    BY DEF F!Prepares, F!outcomeVars
  <1>3. pub.st = "sending" => pub.r \in 1 .. Store /\ rec[pub.r].st = "sending" /\ pub.r # wk.r
    BY <1>t DEF FanControl
  <1>4. ASSUME wk'.st \in {"full", "spill", "arm", "send"}, wk'.o = wk.o, wk'.i = wk.i,
               wk'.shared = wk.shared, \A r \in 1 .. Store : rec'[r].part = rec[r].part
        PROVE  Quiet
    <2>1. On' <=> On
      BY <1>1, <1>4 DEF On
    <2> QED BY <1>1, <1>2, <1>4, <2>1 DEF Quiet
  <1>5. CASE F!FreeRecords = {}
    <2>1. PICK waits \in BOOLEAN : wk' = [wk EXCEPT !.st = IF waits THEN "full" ELSE "spill"]
      BY <1>5 DEF F!Prepares
    <2>2. rec' = rec
      BY <1>5 DEF F!Prepares
    <2>3. /\ wk' \in [st : WorkerStates, o : Nat, i : Nat, r : Nat, shared : BOOLEAN,
                      then : BOOLEAN]
          /\ wk'.st \in {"full", "spill"} /\ wk'.o = wk.o /\ wk'.i = wk.i /\ wk'.r = wk.r
          /\ wk'.shared = wk.shared
      BY <1>1, <2>1 DEF WorkerStates
    <2>4. FanTypes'
      BY <1>t, <1>2, <2>2, <2>3 DEF FanTypes
    <2>5. FanControl'
      BY <1>t, <1>1, <1>2, <2>2, <2>3 DEF FanControl
    <2> QED BY <1>4, <2>2, <2>3, <2>4, <2>5
  <1>6. CASE F!FreeRecords # {}
    <2>1. PICK waits \in BOOLEAN :
            LET r == CHOOSE r \in F!FreeRecords : \A q \in F!FreeRecords : r <= q
            IN /\ wk' = [wk EXCEPT !.st = IF waits THEN "arm" ELSE "send", !.r = r]
               /\ rec' = [rec EXCEPT ![r].st = "taken"]
      BY <1>6 DEF F!Prepares
    <2>2. PICK r \in F!FreeRecords :
            /\ wk' = [wk EXCEPT !.st = IF waits THEN "arm" ELSE "send", !.r = r]
            /\ rec' = [rec EXCEPT ![r].st = "taken"]
      <3>1. \A x \in F!FreeRecords : x \in Nat
        BY <1>1 DEF F!FreeRecords, F!Records
      <3>2. F!FreeRecords \subseteq Nat
        BY <3>1
      <3>3. \E r \in F!FreeRecords : \A q \in F!FreeRecords : r <= q
        <4> HIDE DEF F!FreeRecords
        <4> QED BY <1>6, <3>2, LeastNumber
      <3> QED BY <2>1, <3>3
    <2>3. r \in 1 .. Store /\ rec[r].st = "free" /\ rec[r].part = F!NoPart
      BY <1>t DEF F!FreeRecords, F!Records, FanControl
    <2>4. /\ wk' \in [st : WorkerStates, o : Nat, i : Nat, r : Nat, shared : BOOLEAN,
                      then : BOOLEAN]
          /\ wk'.st \in {"arm", "send"} /\ wk'.o = wk.o /\ wk'.i = wk.i /\ wk'.r = r
          /\ wk'.shared = wk.shared
      <3> DEFINE st == IF waits THEN "arm" ELSE "send"
      <3>1. st \in WorkerStates /\ st \in {"arm", "send"} /\ r \in Nat
        BY <1>1, <2>3 DEF WorkerStates
      <3> HIDE DEF st
      <3>2. wk' = [wk EXCEPT !.st = st, !.r = r]
        BY <2>2 DEF st
      <3> QED BY <1>1, <3>1, <3>2
    <2>5. /\ rec' \in [1 .. Store -> [st : {"free", "taken", "due", "sending"}, part : Parts]]
          /\ \A q \in 1 .. Store : q # r => rec'[q] = rec[q]
          /\ rec'[r].st = "taken" /\ rec'[r].part = rec[r].part
      BY <1>1, <2>2, <2>3
    <2>6. FanTypes'
      BY <1>t, <1>2, <2>4, <2>5 DEF FanTypes
    <2>7. \A q \in 1 .. Store : rec'[q].part = rec[q].part
      BY <2>5
    <2>8. pub.st = "sending" => rec'[pub.r].st = "sending" /\ pub.r # r
      BY <1>3, <2>3, <2>5
    <2>9. FanControl'
      BY <1>t, <1>1, <1>2, <1>3, <2>3, <2>4, <2>5, <2>8 DEF FanControl
    <2> QED BY <1>4, <2>4, <2>6, <2>7, <2>9
  <1> QED BY <1>5, <1>6

LEMMA SendsNowQuiet ==
  ASSUME FanInv, F!SendsNow
  PROVE  FanTypes' /\ FanControl' /\ Quiet
  <1>t. FanTypes /\ FanControl
    BY DEF FanInv
  <1>1. /\ wk.st \in {"send", "spill"} /\ wk.o \in Nat /\ wk.o # 0 /\ wk.i \in 1 .. Size
        /\ wk \in [st : WorkerStates, o : Nat, i : Nat, r : Nat, shared : BOOLEAN, then : BOOLEAN]
        /\ rec \in [1 .. Store -> [st : {"free", "taken", "due", "sending"}, part : Parts]]
    BY <1>t DEF F!SendsNow, F!WorkerIn, FanTypes, FanControl
  <1>2. UNCHANGED <<pub, slot, rep, fan, report, closed, ended, failed, heard, followed>>
    BY DEF F!SendsNow, F!outcomeVars
  <1>3. pub.st = "sending" => pub.r \in 1 .. Store /\ rec[pub.r].st = "sending" /\ pub.r # wk.r
    BY <1>t DEF FanControl
  <1>4. wk' = [wk EXCEPT !.st = "sending"]
    BY DEF F!SendsNow
  <1>5. /\ wk' \in [st : WorkerStates, o : Nat, i : Nat, r : Nat, shared : BOOLEAN, then : BOOLEAN]
        /\ wk'.st = "sending" /\ wk'.o = wk.o /\ wk'.i = wk.i /\ wk'.r = wk.r
        /\ wk'.shared = wk.shared
    BY <1>1, <1>4 DEF WorkerStates
  <1>6. wk.r # 0 => wk.r \in 1 .. Store /\ rec[wk.r].part = F!NoPart
    BY <1>t DEF FanControl
  <1>7. rec' = IF wk.r = 0 THEN rec ELSE [rec EXCEPT ![wk.r].st = "sending"]
    BY DEF F!SendsNow
  <1>8. /\ rec' \in [1 .. Store -> [st : {"free", "taken", "due", "sending"}, part : Parts]]
        /\ \A q \in 1 .. Store : q # wk.r => rec'[q] = rec[q]
        /\ wk.r # 0 => rec'[wk.r].st = "sending" /\ rec'[wk.r].part = rec[wk.r].part
    BY <1>1, <1>6, <1>7
  <1>9. \A q \in 1 .. Store : rec'[q].part = rec[q].part
    BY <1>6, <1>7, <1>8
  <1>10. FanTypes'
    BY <1>t, <1>2, <1>5, <1>8 DEF FanTypes
  <1>11. pub.st = "sending" => rec'[pub.r].st = "sending"
    BY <1>3, <1>8
  <1>12. \A q \in 1 .. Store : rec'[q].st = "free" => rec'[q].part = F!NoPart
    BY <1>t, <1>6, <1>7, <1>8 DEF FanControl
  <1>13. FanControl'
    BY <1>t, <1>1, <1>2, <1>3, <1>5, <1>6, <1>8, <1>11, <1>12 DEF FanControl
  <1>14. On' <=> On
    BY <1>1, <1>5 DEF On
  <1>15. Quiet
    BY <1>1, <1>2, <1>5, <1>9, <1>14 DEF Quiet
  <1> QED BY <1>10, <1>13, <1>15

LEMMA StopsQuiet ==
  ASSUME FanInv, F!Stops
  PROVE  FanTypes' /\ FanControl' /\ Quiet
  <1>t. FanTypes /\ FanControl
    BY DEF FanInv
  <1>1. /\ wk.st = "next" /\ ~wk.shared /\ wk.o \in Nat
        /\ wk \in [st : WorkerStates, o : Nat, i : Nat, r : Nat, shared : BOOLEAN, then : BOOLEAN]
    BY <1>t DEF F!Stops, F!WorkerIn, FanTypes, FanControl
  <1>2. wk' = [wk EXCEPT !.st = "stopped"]
    BY DEF F!Stops
  <1>3. UNCHANGED <<rec, pub, slot, rep, fan, report, ended, failed, heard, followed>>
    BY DEF F!Stops, F!outcomeVars
  <1>4. /\ wk' \in [st : WorkerStates, o : Nat, i : Nat, r : Nat, shared : BOOLEAN, then : BOOLEAN]
        /\ wk'.st = "stopped" /\ wk'.o = wk.o /\ wk'.r = wk.r /\ ~wk'.shared
    BY <1>1, <1>2 DEF WorkerStates
  <1>5. FanTypes'
    BY <1>t, <1>3, <1>4 DEF FanTypes
  <1>6. FanControl'
    BY <1>t, <1>1, <1>3, <1>4 DEF FanControl
  <1>7. ~On /\ ~(On')
    BY <1>1, <1>4 DEF On
  <1>8. Quiet
    BY <1>1, <1>3, <1>4, <1>7 DEF Quiet
  <1> QED BY <1>5, <1>6, <1>8

LEMMA PublishesDueQuiet ==
  ASSUME FanInv, F!PublishesDue
  PROVE  FanTypes' /\ FanControl' /\ Quiet
  <1>t. FanTypes /\ FanControl
    BY DEF FanInv
  <1>1. UNCHANGED <<wk, slot, rep, fan, report, closed, ended, failed, heard, followed>>
    BY DEF F!PublishesDue, F!outcomeVars
  <1>2. PICK r \in 1 .. Store :
          /\ rec[r].st = "due"
          /\ rec' = [rec EXCEPT ![r].st = "sending"]
          /\ pub' = [pub EXCEPT !.st = "sending", !.r = r]
    BY DEF F!PublishesDue, F!Records
  <1>3. /\ pub.st = "idle" /\ r \in Nat
        /\ pub \in [st : {"idle", "sending", "giving", "ended"}, r : Nat, told : Reports]
        /\ rec \in [1 .. Store -> [st : {"free", "taken", "due", "sending"}, part : Parts]]
        /\ wk.o \in Nat
    BY <1>t, BatchAssumption DEF F!PublishesDue, FanTypes
  <1>4. /\ pub' \in [st : {"idle", "sending", "giving", "ended"}, r : Nat, told : Reports]
        /\ pub'.st = "sending" /\ pub'.r = r /\ pub'.told = pub.told
    BY <1>2, <1>3
  <1>5. /\ rec' \in [1 .. Store -> [st : {"free", "taken", "due", "sending"}, part : Parts]]
        /\ \A q \in 1 .. Store : q # r => rec'[q] = rec[q]
        /\ rec'[r].st = "sending" /\ rec'[r].part = rec[r].part
    BY <1>2, <1>3
  <1>6. wk.r # r
    BY <1>t, <1>2 DEF FanControl
  <1>7. FanTypes'
    BY <1>t, <1>1, <1>4, <1>5 DEF FanTypes
  <1>8. FanControl'
    <2>1. wk.r # 0 => rec'[wk.r] = rec[wk.r]
      BY <1>t, <1>5, <1>6 DEF FanControl
    <2> QED BY <1>t, <1>1, <1>3, <1>4, <1>5, <1>6, <2>1 DEF FanControl
  <1>9. \A q \in 1 .. Store : rec'[q].part = rec[q].part
    BY <1>5
  <1>10. Quiet
    BY <1>1, <1>3, <1>4, <1>9 DEF Quiet, On
  <1> QED BY <1>7, <1>8, <1>10

LEMMA EndingsQuiet ==
  ASSUME FanInv, F!PublishingEnds \/ F!ReporterEnds \/ (\E a \in F!Actors : F!FollowEnds(a))
                 \/ UNCHANGED F!vars
  PROVE  FanTypes' /\ FanControl' /\ Quiet
  <1>t. FanTypes /\ FanControl
    BY DEF FanInv
  <1>1. UNCHANGED <<wk, rec, slot, fan, ended, failed, heard, followed>>
    BY DEF F!PublishingEnds, F!ReporterEnds, F!FollowEnds, F!outcomeVars, F!vars
  <1>2. /\ pub \in [st : {"idle", "sending", "giving", "ended"}, r : Nat, told : Reports]
        /\ report \in [F!Actors -> [error : Nat, then : Nat]]
        /\ wk.o \in Nat
    BY <1>t DEF FanTypes
  <1>3. /\ pub' = pub \/ (pub.st = "idle" /\ pub' = [pub EXCEPT !.st = "ended"])
        /\ report' = report \/ \E a \in F!Actors : report' = [report EXCEPT ![a].then = 0]
    BY DEF F!PublishingEnds, F!ReporterEnds, F!FollowEnds, F!vars
  <1>4. /\ pub' \in [st : {"idle", "sending", "giving", "ended"}, r : Nat, told : Reports]
        /\ pub'.told = pub.told
        /\ pub'.st = "sending" => pub.st = "sending" /\ pub'.r = pub.r
        /\ pub'.st # "giving" => pub.st # "giving"
    BY <1>2, <1>3
  <1>5. /\ report' \in [F!Actors -> [error : Nat, then : Nat]]
        /\ \A a \in F!Actors : report'[a].error = report[a].error
    BY <1>2, <1>3
  <1>6. FanTypes'
    BY <1>t, <1>1, <1>4, <1>5 DEF FanTypes
  <1>7. FanControl'
    BY <1>t, <1>1, <1>4 DEF FanControl
  <1>8. Quiet
    BY <1>1, <1>2, <1>4, <1>5 DEF Quiet, On
  <1> QED BY <1>6, <1>7, <1>8

\* A step that moves no part and reports nothing keeps what is said of them.
LEMMA QuietKeeps ==
  ASSUME FanInv, FanTypes', FanControl', Quiet
  PROVE  FanInv'
  <1>1. /\ wk.o \in Nat /\ wk'.o \in Nat /\ wk.o <= wk'.o
        /\ wk'.st = "begin" => wk.st = "begin" \/ wk'.o = wk.o + 1
    BY DEF FanInv, FanTypes, Quiet
  <1>2. /\ slot' = slot /\ pub'.told = pub.told /\ fan' = fan
        /\ UNCHANGED <<ended, failed, heard, followed>>
        /\ \A r \in 1 .. Store : rec'[r].part = rec[r].part
        /\ \A a \in F!Actors : report'[a].error = report[a].error
        /\ On' <=> On
        /\ On => wk'.i = wk.i /\ wk'.o = wk.o
    BY DEF Quiet
  <1>3. OnePlace'
    BY <1>2 DEF FanInv, OnePlace
  <1>4. (F!OnTheWay)' = F!OnTheWay
    <2>1. {rec'[r].part : r \in 1 .. Store} = {rec[r].part : r \in 1 .. Store}
      BY <1>2
    <2> QED BY <1>2, <2>1 DEF F!OnTheWay, F!Under, F!Records
  <1>5. PartsInv'
    <2> HIDE DEF On
    <2> QED BY <1>2, <1>4 DEF FanInv, PartsInv
  <1>6. (F!Unsettled)' = F!Unsettled
    <2>1. (F!Unsettled)' = (IF On' THEN Size + 1 - wk'.i ELSE 0)
      BY DEF F!Unsettled, On
    <2>2. F!Unsettled = (IF On THEN Size + 1 - wk.i ELSE 0)
      BY DEF F!Unsettled, On
    <2> HIDE DEF On
    <2> QED BY <1>2, <2>1, <2>2
  <1>7. CountInv'
    BY <1>2, <1>4, <1>6 DEF FanInv, CountInv
  <1>8. BusyInv'
    BY <1>2 DEF FanInv, BusyInv
  <1>9. GatheredInv'
    <2> SUFFICES ASSUME fan.error # 0
                 PROVE  GatheredInv'
      BY <1>2 DEF GatheredInv
    <2>1. \A i \in 1 .. Size : Left(i)' <=> Left(i)
      <3> HIDE DEF On
      <3> QED BY <1>2 DEF Left
    <2>2. \A i : Unreported(i)' <=> Unreported(i)
      BY <1>2 DEF Unreported
    <2>3. fan.error \in 1 .. wk'.o /\ (wk'.st = "begin" => fan.error # wk'.o)
      BY <1>1 DEF FanInv, GatheredInv
    <2>4. GatheredInv
      BY DEF FanInv
    <2> HIDE DEF On
    <2>5. {i \in failed'[fan.error] : ~Unreported(i)'} = {i \in failed[fan.error] : ~Unreported(i)}
      BY <1>2, <2>2
    <2> QED BY <1>2, <2>1, <2>3, <2>4, <2>5 DEF GatheredInv
  <1>10. FreshInv'
    <2> SUFFICES ASSUME NEW o \in 1 .. MaxOutcomes, o > wk'.o \/ (o = wk'.o /\ wk'.st = "begin")
                 PROVE  ended[o] = {} /\ failed[o] = {} /\ heard[o] = << >> /\ ~followed[o]
      BY <1>2 DEF FreshInv
    <2>1. o \in Nat
      BY BatchAssumption
    <2>2. o > wk.o \/ (o = wk.o /\ wk.st = "begin")
      BY <1>1, <2>1
    <2> QED BY <2>2 DEF FanInv, FreshInv
  <1> QED BY <1>3, <1>5, <1>7, <1>8, <1>9, <1>10 DEF FanInv

-----------------------------------------------------------------------------
(* The steps that move a part, begin an outcome or report. *)

LEMMA BeginKeeps ==
  ASSUME FanInv, F!Begin
  PROVE  FanInv'
  <1>t. FanTypes /\ FanControl /\ OnePlace /\ PartsInv /\ CountInv /\ BusyInv /\ FreshInv
    BY DEF FanInv
  <1>1. /\ wk.st = "begin" /\ wk.shared /\ wk.i = 1 /\ wk.o \in Nat /\ wk.o # 0
        /\ wk.o <= MaxOutcomes /\ MaxOutcomes \in Nat /\ Size \in Nat \ {0}
        /\ wk \in [st : WorkerStates, o : Nat, i : Nat, r : Nat, shared : BOOLEAN, then : BOOLEAN]
        /\ fan \in [busy : BOOLEAN, error : Nat, then : Nat, pending : Nat, sent : BOOLEAN,
                    order : Seq(Nat)]
    BY <1>t, BatchAssumption DEF F!Begin, F!WorkerIn, FanTypes, FanControl
  <1>2. /\ ~fan.busy
        /\ fan' = [fan EXCEPT !.busy = TRUE, !.error = wk.o, !.then = IF wk.then THEN wk.o ELSE 0,
                              !.pending = Size, !.sent = FALSE]
        /\ wk' = [wk EXCEPT !.st = "element"]
        /\ UNCHANGED <<rec, pub, slot, report, ended, failed, heard, followed>>
    BY DEF F!Begin, F!BeginFan, F!outcomeVars
  <1>3. /\ wk' \in [st : WorkerStates, o : Nat, i : Nat, r : Nat, shared : BOOLEAN, then : BOOLEAN]
        /\ wk'.st = "element" /\ wk'.o = wk.o /\ wk'.i = 1 /\ wk'.r = wk.r /\ wk'.shared
    BY <1>1, <1>2 DEF WorkerStates
  <1>4. /\ fan' \in [busy : BOOLEAN, error : Nat, then : Nat, pending : Nat, sent : BOOLEAN,
                     order : Seq(Nat)]
        /\ fan'.busy /\ fan'.error = wk.o /\ fan'.then \in {0, wk.o} /\ fan'.pending = Size
        /\ ~fan'.sent /\ fan'.order = fan.order
    <2> DEFINE then == IF wk.then THEN wk.o ELSE 0
    <2>1. then \in Nat /\ then \in {0, wk.o}
      BY <1>1
    <2>2. fan' = [fan EXCEPT !.busy = TRUE, !.error = wk.o, !.then = then, !.pending = Size,
                             !.sent = FALSE]
      BY <1>2
    <2> HIDE DEF then
    <2> QED BY <1>1, <2>1, <2>2
  <1>5. /\ fan.pending = 0 /\ fan.order = << >>
        /\ \A a \in F!Actors : report[a].error = 0
    BY <1>t, <1>1, <1>2 DEF BusyInv, FanTypes
  <1>6. ~On /\ On'
    BY <1>1, <1>3 DEF On
  <1>7. F!OnTheWay = {}
    BY <1>1, <1>5, CountFacts
  <1>8. (F!OnTheWay)' = {}
    BY <1>2, <1>7 DEF F!OnTheWay, F!Under
  <1>9. FanTypes'
    BY <1>t, <1>2, <1>3, <1>4 DEF FanTypes
  <1>10. FanControl'
    BY <1>t, <1>1, <1>2, <1>3 DEF FanControl
  <1>11. OnePlace'
    BY <1>t, <1>2 DEF OnePlace
  <1>12. PartsInv'
    BY <1>3, <1>4, <1>8 DEF PartsInv
  <1>13. CountInv'
    <2>1. (F!Unsettled)' = Size
      BY <1>1, <1>3 DEF F!Unsettled
    <2> QED BY <1>1, <1>4, <1>8, <2>1, FS_EmptySet DEF CountInv
  <1>14. BusyInv'
    BY <1>1, <1>2, <1>4, <1>5 DEF BusyInv
  <1>15. GatheredInv'
    <2>1. ended[wk.o] = {} /\ failed[wk.o] = {} /\ heard[wk.o] = << >> /\ ~followed[wk.o]
      BY <1>t, <1>1 DEF FreshInv
    <2>2. \A i \in 1 .. Size : Left(i)'
      BY <1>1, <1>3, <1>6 DEF Left
    <2>3. slot.p = F!NoPart /\ pub.told.p = F!NoPart
      BY <1>7 DEF F!OnTheWay, F!Under
    <2>4. ToSet(<< >>) = {} /\ Rising(<< >>)
      BY DEF ToSet, Rising
    <2>5. {i \in {} : ~Unreported(i)'} = {}
      OBVIOUS
    <2> HIDE DEF On
    <2> QED BY <1>1, <1>2, <1>3, <1>4, <1>5, <2>1, <2>2, <2>3, <2>4, <2>5 DEF GatheredInv
  <1>16. FreshInv'
    BY <1>t, <1>1, <1>2, <1>3 DEF FreshInv
  <1> QED BY <1>9, <1>10, <1>11, <1>12, <1>13, <1>14, <1>15, <1>16 DEF FanInv

LEMMA ReactEndsKeeps ==
  ASSUME FanInv, NEW a \in F!Actors, F!ReactEnds(a)
  PROVE  FanInv'
  <1>t. FanTypes /\ FanControl /\ OnePlace /\ PartsInv /\ CountInv /\ BusyInv /\ FreshInv
    BY DEF FanInv
  <1>1. /\ report[a].error # 0
        /\ report' = [report EXCEPT ![a].error = 0]
        /\ fan' = [fan EXCEPT !.busy = FALSE, !.order = << >>]
        /\ UNCHANGED <<wk, rec, pub, slot, ended, failed, heard, followed>>
    BY DEF F!ReactEnds, F!outcomeVars
  <1>2. /\ fan \in [busy : BOOLEAN, error : Nat, then : Nat, pending : Nat, sent : BOOLEAN,
                    order : Seq(Nat)]
        /\ report \in [F!Actors -> [error : Nat, then : Nat]]
    BY <1>t DEF FanTypes
  <1>3. /\ fan' \in [busy : BOOLEAN, error : Nat, then : Nat, pending : Nat, sent : BOOLEAN,
                     order : Seq(Nat)]
        /\ ~fan'.busy /\ fan'.error = fan.error /\ fan'.pending = fan.pending
        /\ fan'.order = << >>
    <2> DEFINE none == << >>
    <2>1. none \in Seq(Nat) /\ fan' = [fan EXCEPT !.busy = FALSE, !.order = none]
      BY <1>1
    <2> HIDE DEF none
    <2>2. /\ fan' \in [busy : BOOLEAN, error : Nat, then : Nat, pending : Nat, sent : BOOLEAN,
                       order : Seq(Nat)]
          /\ ~fan'.busy /\ fan'.error = fan.error /\ fan'.pending = fan.pending
          /\ fan'.order = none
      BY <1>2, <2>1
    <2> QED BY <2>2 DEF none
  <1>4. /\ report' \in [F!Actors -> [error : Nat, then : Nat]]
        /\ report'[a].error = 0
        /\ \A b \in F!Actors : b # a => report'[b] = report[b]
    BY <1>1, <1>2
  <1>5. fan.pending = 0 /\ \A b \in F!Actors : b # a => report[b].error = 0
    BY <1>t, <1>1 DEF BusyInv
  <1>6. \A b \in F!Actors : report'[b].error = 0
    BY <1>4, <1>5
  <1>7. fan.error = 0
    BY <1>t, <1>5 DEF CountInv
  <1>8. (F!OnTheWay)' = F!OnTheWay /\ (F!Unsettled)' = F!Unsettled
    BY <1>1 DEF F!OnTheWay, F!Under, F!Unsettled
  <1>9. FanTypes'
    BY <1>t, <1>1, <1>3, <1>4 DEF FanTypes
  <1>10. FanControl'
    BY <1>t, <1>1 DEF FanControl
  <1>11. OnePlace'
    BY <1>t, <1>1 DEF OnePlace
  <1>12. PartsInv'
    BY <1>t, <1>1, <1>3, <1>8 DEF PartsInv, On
  <1>13. CountInv'
    BY <1>t, <1>3, <1>8 DEF CountInv
  <1>14. BusyInv'
    BY <1>3, <1>5, <1>6 DEF BusyInv
  <1>15. GatheredInv'
    BY <1>3, <1>7 DEF GatheredInv
  <1>16. FreshInv'
    BY <1>t, <1>1 DEF FreshInv
  <1> QED BY <1>9, <1>10, <1>11, <1>12, <1>13, <1>14, <1>15, <1>16 DEF FanInv

\* A report moves from the publishing to the hand-off.
LEMMA GivesKeeps ==
  ASSUME FanInv, F!Gives
  PROVE  FanInv'
  <1>t. /\ FanTypes /\ FanControl /\ OnePlace /\ PartsInv /\ CountInv /\ BusyInv /\ FreshInv
        /\ GatheredInv
    BY DEF FanInv
  <1>1. /\ pub.st = "giving" /\ slot = F!Nothing
        /\ slot' = pub.told /\ pub' = [st |-> "idle", r |-> 0, told |-> F!Nothing]
        /\ UNCHANGED <<wk, rec, fan, report, ended, failed, heard, followed>>
    BY DEF F!Gives, F!Resting, F!outcomeVars
  <1>2. F!Nothing \in Reports /\ F!Nothing.p = F!NoPart
    BY DEF F!Nothing, F!Told, F!NoPart, F!Part, Reports, Parts
  <1>3. /\ pub' \in [st : {"idle", "sending", "giving", "ended"}, r : Nat, told : Reports]
        /\ pub'.st = "idle" /\ pub'.told = F!Nothing
    BY <1>1, <1>2
  <1>4. slot' \in Reports
    BY <1>t, <1>1 DEF FanTypes
  <1>5. FanTypes'
    BY <1>t, <1>1, <1>3, <1>4 DEF FanTypes
  <1>6. FanControl'
    BY <1>t, <1>1, <1>3 DEF FanControl
  <1>7. slot.p = F!NoPart /\ pub'.told.p = F!NoPart /\ slot'.p = pub.told.p
    BY <1>1, <1>2, <1>3
  <1>8. OnePlace'
    BY <1>t, <1>1, <1>3, <1>7 DEF OnePlace
  <1>9. (F!OnTheWay)' = F!OnTheWay /\ (F!Unsettled)' = F!Unsettled
    BY <1>1, <1>7 DEF F!OnTheWay, F!Under, F!Unsettled
  <1>10. PartsInv'
    BY <1>t, <1>1, <1>9 DEF PartsInv, On
  <1>11. CountInv'
    BY <1>t, <1>1, <1>9 DEF CountInv
  <1>12. BusyInv'
    BY <1>t, <1>1 DEF BusyInv
  <1>13. GatheredInv'
    <2> SUFFICES ASSUME fan.error # 0
                 PROVE  GatheredInv'
      BY <1>1 DEF GatheredInv
    <2>1. \A i \in 1 .. Size : Left(i)' <=> Left(i)
      BY <1>1 DEF Left, On
    <2>2. ASSUME NEW i \in Nat PROVE Unreported(i)' <=> Unreported(i)
      <3>1. F!Part(fan.error, i) # F!NoPart
        BY DEF F!Part, F!NoPart
      <3> QED BY <1>1, <1>7, <3>1 DEF Unreported
    <2>3. fan.error \in 1 .. MaxOutcomes
      BY <1>t, BatchAssumption DEF GatheredInv, FanControl, FanTypes
    <2>4. failed[fan.error] \subseteq Nat
      BY <1>t, <2>3, BatchAssumption DEF FanTypes
    <2>5. {i \in failed[fan.error] : ~Unreported(i)'} = {i \in failed[fan.error] : ~Unreported(i)}
      BY <2>2, <2>4
    <2>6. \A told \in {slot', pub'.told} : told = pub.told \/ told.p = F!NoPart
      BY <1>1, <1>7
    <2> QED BY <1>t, <1>1, <2>1, <2>5, <2>6 DEF GatheredInv
  <1>14. FreshInv'
    BY <1>t, <1>1 DEF FreshInv
  <1> QED BY <1>5, <1>6, <1>8, <1>10, <1>11, <1>12, <1>13, <1>14 DEF FanInv

\* A copy is armed with the part of the worker's element.
LEMMA ArmsKeeps ==
  ASSUME FanInv, F!Arms, wk.shared
  PROVE  FanInv'
  <1>t. /\ FanTypes /\ FanControl /\ OnePlace /\ PartsInv /\ CountInv /\ BusyInv /\ FreshInv
        /\ GatheredInv
    BY DEF FanInv
  <1> DEFINE p == F!Mine
  <1>1. /\ wk.st = "arm" /\ wk.st \in Working
        /\ rec' = [rec EXCEPT ![wk.r] = [st |-> "due", part |-> p]]
        /\ F!NextElement
        /\ UNCHANGED <<pub, slot, fan, report, ended, failed, heard, followed>>
    BY DEF F!Arms, F!WorkerIn, F!outcomeVars, Working
  <1>2. /\ wk' \in [st : WorkerStates, o : Nat, i : Nat, r : Nat, shared : BOOLEAN, then : BOOLEAN]
        /\ wk'.o = wk.o /\ wk'.r = 0 /\ wk.i \in 1 .. Size
        /\ wk.i = Size => wk'.st = "next" /\ ~wk'.shared
        /\ wk.i # Size => wk'.st = "element" /\ wk'.i = wk.i + 1 /\ (wk'.shared <=> wk.shared)
    BY <1>t, <1>1, NextElementEffect
  <1>3. /\ wk.r \in 1 .. Store /\ rec[wk.r].part = F!NoPart /\ Size \in Nat /\ Store \in Nat
        /\ rec[wk.r].st = "taken"
        /\ wk.o \in Nat /\ wk.o # 0 /\ wk.o <= MaxOutcomes /\ wk.i \in Nat
        /\ rec \in [1 .. Store -> [st : {"free", "taken", "due", "sending"}, part : Parts]]
        /\ pub.st = "sending" => pub.r \in 1 .. Store /\ rec[pub.r].st = "sending" /\ pub.r # wk.r
    BY <1>t, <1>1, BatchAssumption DEF FanTypes, FanControl
  <1>4. On /\ fan.error = wk.o /\ (On' <=> wk.i # Size)
    BY <1>t, <1>1, <1>2 DEF On, PartsInv
  <1>5. /\ p = F!Part(wk.o, wk.i) /\ p \in Parts /\ p.o = wk.o /\ p.i = wk.i /\ p # F!NoPart
    BY <1>3 DEF F!Mine, F!Part, F!NoPart, Parts
  <1>6. p \notin F!OnTheWay
    BY <1>t, <1>3, <1>4, <1>5 DEF PartsInv
  <1> HIDE DEF p
  <1>7. /\ rec' \in [1 .. Store -> [st : {"free", "taken", "due", "sending"}, part : Parts]]
        /\ rec'[wk.r].st = "due" /\ rec'[wk.r].part = p
        /\ \A q \in 1 .. Store : q # wk.r => rec'[q] = rec[q]
    BY <1>1, <1>3, <1>5
  <1>8. /\ \A q \in 1 .. Store : rec[q].part # p
        /\ slot.p # p /\ pub.told.p # p
    BY <1>5, <1>6 DEF F!OnTheWay, F!Under, F!Records
  <1>9. FanTypes'
    BY <1>t, <1>1, <1>2, <1>7 DEF FanTypes
  <1>10. FanControl'
    <2>1. wk'.st # "next" => wk'.i \in 1 .. Size
      BY <1>2, <1>3
    <2>2. \A q \in 1 .. Store : rec'[q].st = "free" => rec'[q].part = F!NoPart
      BY <1>t, <1>7 DEF FanControl
    <2>3. pub'.st = "sending" => pub'.r \in 1 .. Store /\ rec'[pub'.r].st = "sending" /\ pub'.r # 0
      BY <1>1, <1>3, <1>7
    <2> QED BY <1>t, <1>1, <1>2, <1>3, <2>1, <2>2, <2>3 DEF FanControl
  <1>11. OnePlace'
    <2>1. ASSUME NEW r \in 1 .. Store, NEW q \in 1 .. Store, rec'[r].part = rec'[q].part
          PROVE  r = q \/ rec'[r].part = F!NoPart
      BY <1>t, <1>7, <1>8, <2>1 DEF OnePlace
    <2>2. ASSUME NEW r \in 1 .. Store, rec'[r].part # F!NoPart
          PROVE  rec'[r].part \notin {slot.p, pub.told.p}
      BY <1>t, <1>7, <1>8, <2>2 DEF OnePlace
    <2> QED BY <1>t, <1>1, <2>1, <2>2 DEF OnePlace
  <1>12. (F!OnTheWay)' = F!OnTheWay \cup {p}
    <2>1. {rec'[r].part : r \in 1 .. Store}
            = ({rec[r].part : r \in 1 .. Store \ {wk.r}}) \cup {p}
      BY <1>3, <1>7
    <2>2. {rec[r].part : r \in 1 .. Store}
            = ({rec[r].part : r \in 1 .. Store \ {wk.r}}) \cup {F!NoPart}
      BY <1>3
    <2> DEFINE X == {rec[r].part : r \in 1 .. Store \ {wk.r}}
    <2>3. (F!OnTheWay)' = ((X \cup {p}) \cup {slot.p, pub.told.p}) \ {F!NoPart}
      BY <1>1, <2>1 DEF F!OnTheWay, F!Under, F!Records
    <2>4. F!OnTheWay = ((X \cup {F!NoPart}) \cup {slot.p, pub.told.p}) \ {F!NoPart}
      BY <2>2 DEF F!OnTheWay, F!Under, F!Records
    <2> HIDE DEF X
    <2> QED BY <1>5, <2>3, <2>4
  <1>13. PartsInv'
    <2>1. \A x \in F!OnTheWay : x.o = fan.error /\ x.i \in 1 .. Size /\ x.i < wk.i
      BY <1>t, <1>4 DEF PartsInv
    <2>2. On' => wk'.i = wk.i + 1
      BY <1>2, <1>4
    <2> HIDE DEF On
    <2>3. ASSUME NEW x \in (F!OnTheWay)'
          PROVE  x.o = fan'.error /\ x.i \in 1 .. Size /\ (On' => x.i < wk'.i)
      BY <1>1, <1>2, <1>3, <1>4, <1>5, <1>12, <2>1, <2>2
    <2> QED BY <1>1, <1>2, <1>4, <2>3 DEF PartsInv
  <1>14. CountInv'
    <2>1. /\ IsFiniteSet((F!OnTheWay)')
          /\ Cardinality((F!OnTheWay)') = Cardinality(F!OnTheWay) + 1
      BY <1>t, <1>6, <1>12, FS_AddElement DEF CountInv
    <2>2. (F!Unsettled)' = F!Unsettled - 1
      <3>1. (F!Unsettled)' = (IF On' THEN Size + 1 - wk'.i ELSE 0)
        BY DEF F!Unsettled, On
      <3>2. F!Unsettled = Size + 1 - wk.i
        BY <1>4, CountFacts
      <3> HIDE DEF On
      <3> QED BY SMTT(30), <1>2, <1>3, <1>4, <3>1, <3>2
    <2>3. Cardinality(F!OnTheWay) \in Nat /\ F!Unsettled \in Nat
      BY CountFacts
    <2> QED BY <1>t, <1>1, <2>1, <2>2, <2>3 DEF CountInv
  <1>15. BusyInv'
    BY <1>t, <1>1 DEF BusyInv
  <1>16. GatheredInv'
    <2> SUFFICES ASSUME fan.error # 0
                 PROVE  GatheredInv'
      BY <1>1 DEF GatheredInv
    <2>1. ASSUME NEW i \in 1 .. Size PROVE Left(i)' <=> Left(i)
      <3>1. Left(i)' <=> (On' /\ wk'.i <= i)
                         \/ \E r \in 1 .. Store : rec'[r].part = F!Part(fan.error, i)
        BY <1>1 DEF Left
      <3>2. Left(i) <=> wk.i <= i \/ \E r \in 1 .. Store : rec[r].part = F!Part(fan.error, i)
        BY <1>4 DEF Left
      <3>3. F!Part(fan.error, i) = p <=> i = wk.i
        BY <1>4, <1>5 DEF F!Part
      <3>4. F!Part(fan.error, i) # F!NoPart
        BY DEF F!Part, F!NoPart
      <3>5. (\E r \in 1 .. Store : rec'[r].part = F!Part(fan.error, i))
              <=> i = wk.i \/ \E r \in 1 .. Store : rec[r].part = F!Part(fan.error, i)
        BY <1>3, <1>7, <3>3, <3>4
      <3>6. (On' /\ wk'.i <= i) \/ i = wk.i <=> wk.i <= i
        <4> HIDE DEF On
        <4> QED BY <1>2, <1>3, <1>4
      <3> QED BY <3>1, <3>2, <3>5, <3>6
    <2>2. \A i : Unreported(i)' <=> Unreported(i)
      BY <1>1 DEF Unreported
    <2>3. {i \in failed[fan.error] : ~Unreported(i)'} = {i \in failed[fan.error] : ~Unreported(i)}
      BY <2>2
    <2> QED BY <1>t, <1>1, <1>2, <2>1, <2>3 DEF GatheredInv
  <1>17. FreshInv'
    BY <1>t, <1>1, <1>2 DEF FreshInv
  <1> QED BY <1>9, <1>10, <1>11, <1>13, <1>14, <1>15, <1>16, <1>17 DEF FanInv

\* What is left of the fan after a report.
LEMMA ReportedFan ==
  ASSUME FanInv, NEW a \in F!Actors, NEW told \in Reports, NEW order, NEW sent, NEW error,
         NEW then, Reported(a, told, order, sent, error, then), fan.pending > 0
  PROVE  /\ BusyInv'
         /\ fan.pending = 1 => fan'.error = 0 /\ fan'.pending = 0
         /\ fan.pending # 1 =>
              /\ error = 0 /\ then = 0 /\ heard' = heard /\ followed' = followed
              /\ fan'.error = fan.error /\ fan'.then = fan.then
              /\ fan'.pending = fan.pending - 1 /\ fan'.pending > 0
              /\ fan'.order = order /\ fan'.sent = sent
  <1>t. FanTypes /\ BusyInv /\ CountInv
    BY DEF FanInv
  <1>1. /\ fan \in [busy : BOOLEAN, error : Nat, then : Nat, pending : Nat, sent : BOOLEAN,
                    order : Seq(Nat)]
        /\ report \in [F!Actors -> [error : Nat, then : Nat]]
        /\ fan.error # 0
    BY <1>t DEF FanTypes, CountInv
  <1>2. /\ report' = [report EXCEPT ![a] = [error |-> error, then |-> then]]
        /\ fan.pending > 1 =>
             /\ error = 0 /\ then = 0
             /\ fan' = [fan EXCEPT !.order = order, !.sent = sent, !.pending = fan.pending - 1]
        /\ fan.pending = 1 =>
             /\ error = IF order # << >> THEN fan.error ELSE 0
             /\ fan' = [busy |-> error # 0, error |-> 0, then |-> 0, pending |-> 0, sent |-> sent,
                        order |-> IF error # 0 THEN order ELSE << >>]
    BY DEF Reported
  <1>3. /\ report'[a].error = error
        /\ \A b \in F!Actors : b # a => report'[b].error = 0
    <2>1. \A b \in F!Actors : report[b].error = 0
      BY <1>t, <1>1 DEF BusyInv
    <2> QED BY <1>1, <1>2, <2>1
  <1>4. CASE fan.pending = 1
    <2>1. /\ (fan'.busy <=> error # 0) /\ fan'.error = 0 /\ fan'.pending = 0
          /\ fan'.order = IF error # 0 THEN order ELSE << >>
      <3> DEFINE busy == error # 0
                 rest == IF error # 0 THEN order ELSE << >>
      <3>1. fan' = [busy |-> busy, error |-> 0, then |-> 0, pending |-> 0, sent |-> sent,
                    order |-> rest]
        BY <1>2, <1>4
      <3> HIDE DEF busy, rest
      <3>2. fan'.busy = busy /\ fan'.error = 0 /\ fan'.pending = 0 /\ fan'.order = rest
        BY <3>1
      <3> QED BY <3>2 DEF busy, rest
    <2>2. BusyInv'
      BY <1>3, <2>1 DEF BusyInv
    <2> QED BY <1>4, <2>1, <2>2
  <1>5. CASE fan.pending # 1
    <2>1. fan.pending > 1 /\ fan.pending \in Nat
      BY <1>1, <1>5
    <2>2. /\ fan'.busy = fan.busy /\ fan'.error = fan.error /\ fan'.pending = fan.pending - 1
          /\ fan'.order = order /\ fan'.sent = sent /\ fan'.then = fan.then
      BY <1>1, <1>2, <2>1
    <2>3. fan'.pending > 0 /\ error = 0 /\ then = 0
      BY <1>2, <2>1, <2>2
    <2>4. fan.busy
      BY <1>t DEF BusyInv
    <2>5. BusyInv'
      BY <1>3, <2>2, <2>3, <2>4 DEF BusyInv
    <2>6. heard' = heard /\ followed' = followed
      BY <2>3 DEF Reported
    <2> QED BY <1>5, <2>2, <2>3, <2>5, <2>6
  <1> QED BY <1>4, <1>5

\* The worker's report.
LEMMA EndsHereKeeps ==
  ASSUME FanInv, wk.st \in Working, NEW ok \in BOOLEAN, F!EndsHere(ok), wk.shared,
         FanTypes', FanControl', \A r \in 1 .. Store : rec'[r].part = rec[r].part,
         UNCHANGED <<pub, slot>>
  PROVE  FanInv'
  <1>t. /\ FanTypes /\ FanControl /\ OnePlace /\ PartsInv /\ CountInv /\ FreshInv /\ GatheredInv
    BY DEF FanInv
  <1> DEFINE told == [p |-> F!Mine, ok |-> ok]
  <1>1. /\ On /\ F!Mine = [o |-> wk.o, i |-> wk.i] /\ F!Mine # F!NoPart /\ fan.error = wk.o
        /\ wk.i \notin ended[wk.o] /\ fan.pending > 0 /\ wk.o \in 1 .. MaxOutcomes
    BY WorkerReports
  <1>2. PICK order, sent, error, then : Reported("worker", told, order, sent, error, then)
    BY WorkerReports
  <1>3. /\ wk'.o = wk.o /\ wk.i \in 1 .. Size
        /\ wk.i = Size => wk'.st = "next" /\ ~wk'.shared
        /\ wk.i # Size => wk'.st = "element" /\ wk'.i = wk.i + 1 /\ (wk'.shared <=> wk.shared)
    BY <1>t, NextElementEffect DEF F!EndsHere
  <1>4. /\ Size \in Nat /\ wk.i \in Nat /\ wk.o \in Nat /\ MaxOutcomes \in Nat
        /\ wk.o # 0 /\ fan.pending \in Nat
    BY <1>t, <1>1, BatchAssumption DEF FanTypes
  <1>5. told \in Reports /\ told.p = F!Mine /\ told.p.i = wk.i /\ told.ok = ok
    BY <1>1, <1>4 DEF Reports, Parts
  <1> HIDE DEF told
  <1>6. "worker" \in F!Actors
    BY DEF F!Actors
  <1>7. /\ BusyInv'
        /\ fan.pending = 1 => fan'.error = 0 /\ fan'.pending = 0
        /\ fan.pending # 1 =>
             /\ error = 0 /\ then = 0 /\ heard' = heard /\ followed' = followed
             /\ fan'.error = fan.error /\ fan'.then = fan.then
             /\ fan'.pending = fan.pending - 1 /\ fan'.pending > 0
             /\ fan'.order = order /\ fan'.sent = sent
    BY <1>1, <1>2, <1>5, <1>6, ReportedFan
  <1>8. On' <=> wk.i # Size
    BY <1>3 DEF On
  <1>9. /\ ended' = [ended EXCEPT ![wk.o] = @ \cup {wk.i}]
        /\ failed' = IF ok THEN failed ELSE [failed EXCEPT ![wk.o] = @ \cup {wk.i}]
    <2>1. F!Ends(F!Mine, ok)
      BY DEF F!EndsHere
    <2>2. F!Mine.o = wk.o /\ F!Mine.i = wk.i
      BY <1>1
    <2> QED BY <1>1, <2>1, <2>2 DEF F!Ends
  <1>10. /\ ended'[wk.o] = ended[wk.o] \cup {wk.i}
         /\ failed'[wk.o] = IF ok THEN failed[wk.o] ELSE failed[wk.o] \cup {wk.i}
         /\ \A o \in 1 .. MaxOutcomes : o # wk.o => ended'[o] = ended[o] /\ failed'[o] = failed[o]
    BY <1>t, <1>1, <1>9 DEF FanTypes
  <1>11. OnePlace'
    BY <1>t DEF OnePlace
  <1>12. (F!OnTheWay)' = F!OnTheWay
    <2>1. {rec'[r].part : r \in 1 .. Store} = {rec[r].part : r \in 1 .. Store}
      OBVIOUS
    <2> QED BY <2>1 DEF F!OnTheWay, F!Under, F!Records
  <1>13. (F!Unsettled)' = F!Unsettled - 1
    <2>1. (F!Unsettled)' = (IF On' THEN Size + 1 - wk'.i ELSE 0)
      BY DEF F!Unsettled, On
    <2>2. F!Unsettled = Size + 1 - wk.i
      BY <1>1, CountFacts
    <2> HIDE DEF On
    <2> QED BY <1>3, <1>4, <1>8, <2>1, <2>2
  <1>14. /\ fan.pending = Cardinality(F!OnTheWay) + F!Unsettled /\ F!Unsettled \in Nat
         /\ Cardinality(F!OnTheWay) \in Nat /\ F!Unsettled > 0
         /\ F!OnTheWay # {} => Cardinality(F!OnTheWay) > 0
    BY <1>t, <1>1, CountFacts DEF CountInv
  <1>15. fan.pending = 1 => F!OnTheWay = {} /\ ~(On')
    <2>1. fan.pending = 1 => F!OnTheWay = {} /\ F!Unsettled = 1
      BY <1>14
    <2>2. F!Unsettled = Size + 1 - wk.i
      BY <1>1, CountFacts
    <2> HIDE DEF On
    <2> QED BY <1>4, <1>8, <2>1, <2>2
  <1>16. CountInv'
    <2>1. fan'.pending = fan.pending - 1 /\ (fan'.pending > 0 <=> fan'.error # 0)
      <3>1. fan.pending # 1 => fan.error # 0
        BY <1>1, <1>4
      <3> QED BY <1>4, <1>7, <3>1
    <2>2. IsFiniteSet(F!OnTheWay)
      BY <1>t DEF CountInv
    <2> QED BY <1>12, <1>13, <1>14, <2>1, <2>2 DEF CountInv
  <1>17. PartsInv'
    <2>1. CASE fan.pending = 1
      <3> HIDE DEF On
      <3> QED BY <1>12, <1>15, <2>1 DEF PartsInv
    <2>2. CASE fan.pending # 1
      <3>1. \A x \in F!OnTheWay : x.o = fan.error /\ x.i \in 1 .. Size /\ x.i < wk.i
        BY <1>t, <1>1 DEF PartsInv
      <3>2. On' => wk'.i = wk.i + 1
        BY <1>3, <1>8
      <3> HIDE DEF On
      <3>3. ASSUME NEW x \in (F!OnTheWay)'
            PROVE  x.o = fan'.error /\ x.i \in 1 .. Size /\ (On' => x.i < wk'.i)
        BY <1>4, <1>7, <1>12, <2>2, <3>1, <3>2
      <3> QED BY <1>1, <1>3, <1>7, <2>2, <3>3 DEF PartsInv
    <2> QED BY <2>1, <2>2
  <1>18. GatheredInv'
    <2>1. CASE fan.pending = 1
      BY <1>7, <2>1 DEF GatheredInv
    <2>2. CASE fan.pending # 1
      <3> DEFINE o == wk.o
      <3>1. /\ fan.error = o /\ fan'.error = o /\ fan'.then = fan.then /\ fan'.order = order
            /\ fan'.sent = sent /\ heard' = heard /\ followed' = followed /\ wk'.o = o
            /\ wk'.st # "begin"
        BY <1>1, <1>3, <1>7, <2>2
      <3>2. /\ fan.error \in 1 .. wk.o /\ fan.then \in {0, fan.error}
            /\ heard[o] = << >> /\ ~followed[o] /\ failed[o] \subseteq ended[o]
            /\ \A i \in 1 .. Size : i \in ended[o] <=> ~Left(i)
            /\ \A x \in {slot, pub.told} : x.p # F!NoPart => (x.ok <=> x.p.i \notin failed[o])
            /\ ToSet(fan.order) = {i \in failed[o] : ~Unreported(i)}
            /\ fan.sent => failed[o] # ended[o]
        BY <1>t, <1>1, <1>4, <3>1 DEF GatheredInv
      <3>3. ASSUME NEW i \in 1 .. Size PROVE i \in ended'[o] <=> ~(Left(i)')
        <4>1. Left(i)' <=> (On' /\ wk'.i <= i)
                           \/ \E r \in 1 .. Store : rec[r].part = F!Part(o, i)
          BY <3>1 DEF Left
        <4>2. Left(i) <=> wk.i <= i \/ \E r \in 1 .. Store : rec[r].part = F!Part(o, i)
          BY <1>1, <3>1 DEF Left
        <4>3. (On' /\ wk'.i <= i) <=> wk.i < i
          <5> HIDE DEF On
          <5> QED BY <1>3, <1>4, <1>8
        <4>4. ~\E r \in 1 .. Store : rec[r].part = F!Part(o, wk.i)
          <5> SUFFICES ASSUME NEW r \in 1 .. Store, rec[r].part = F!Part(o, wk.i) PROVE FALSE
            OBVIOUS
          <5>1. rec[r].part # F!NoPart /\ rec[r].part.i = wk.i
            BY <1>4 DEF F!Part, F!NoPart
          <5>2. rec[r].part \in F!OnTheWay
            BY <5>1 DEF F!OnTheWay, F!Under, F!Records
          <5>3. rec[r].part.i < wk.i
            BY <1>t, <1>1, <5>2 DEF PartsInv
          <5> QED BY <1>4, <5>1, <5>3
        <4>5. Left(i)' <=> Left(i) /\ i # wk.i
          BY <1>4, <4>1, <4>2, <4>3, <4>4
        <4>6. i \in ended'[o] <=> i \in ended[o] \/ i = wk.i
          BY <1>10
        <4> QED BY <3>2, <4>5, <4>6
      <3>4. ASSUME NEW x \in {slot, pub.told}, x.p # F!NoPart
            PROVE  x.ok <=> x.p.i \notin failed'[o]
        <4>1. x.p \in F!OnTheWay
          BY <3>4 DEF F!OnTheWay, F!Under
        <4>2. x.p.i < wk.i /\ x.p.i \in 1 .. Size
          BY <1>t, <1>1, <4>1 DEF PartsInv
        <4>3. x.p.i # wk.i
          BY <1>4, <4>2
        <4> QED BY <1>10, <3>2, <3>4, <4>3
      <3>5. ASSUME NEW i \in Nat PROVE Unreported(i)' <=> Unreported(i)
        BY <3>1 DEF Unreported
      <3>6. ~Unreported(wk.i)
        <4> SUFFICES ASSUME NEW x \in {slot, pub.told}, x.p = F!Part(o, wk.i) PROVE FALSE
          BY <3>1 DEF Unreported
        <4>1. x.p # F!NoPart /\ x.p.i = wk.i
          BY <1>4 DEF F!Part, F!NoPart
        <4>2. x.p \in F!OnTheWay
          BY <4>1 DEF F!OnTheWay, F!Under
        <4>3. x.p.i < wk.i
          BY <1>t, <1>1, <4>2 DEF PartsInv
        <4> QED BY <1>4, <4>1, <4>3
      <3>7. failed[o] \subseteq Nat
        <4>1. failed \in [1 .. MaxOutcomes -> SUBSET (1 .. Size)]
          BY <1>t DEF FanTypes
        <4>2. failed[o] \subseteq 1 .. Size
          BY <1>1, <4>1
        <4> QED BY <1>4, <4>2
      <3>8. ToSet(order) = ToSet(fan.order) \cup (IF ok THEN {} ELSE {wk.i}) /\ Rising(order)
        BY <1>2, <1>5 DEF Reported
      <3>9. {i \in failed'[o] : ~(Unreported(i)')}
              = {i \in failed[o] : ~Unreported(i)} \cup (IF ok THEN {} ELSE {wk.i})
        BY <1>4, <1>10, <3>5, <3>6, <3>7
      <3>10. sent => failed'[o] # ended'[o]
        <4>1. sent <=> fan.sent \/ ok
          BY <1>2, <1>5 DEF Reported
        <4>2. CASE ok
          BY <1>1, <1>10, <3>2, <4>2
        <4>3. CASE ~ok
          BY ZenonT(30), <1>1, <1>10, <3>2, <4>1, <4>3
        <4> QED BY <4>2, <4>3
      <3>11. failed'[o] \subseteq ended'[o]
        BY <1>10, <3>2
      <3> HIDE DEF o
      <3> QED BY <3>1, <3>2, <3>3, <3>4, <3>8, <3>9, <3>10, <3>11 DEF GatheredInv
    <2> QED BY <2>1, <2>2
  <1>19. FreshInv'
    <2> SUFFICES ASSUME NEW o \in 1 .. MaxOutcomes, o > wk'.o \/ (o = wk'.o /\ wk'.st = "begin")
                 PROVE  ended'[o] = {} /\ failed'[o] = {} /\ heard'[o] = << >> /\ ~followed'[o]
      BY DEF FreshInv
    <2>1. o \in Nat /\ o > wk.o
      BY <1>3, <1>4
    <2>2. o # wk.o /\ ended[o] = {} /\ failed[o] = {} /\ heard[o] = << >> /\ ~followed[o]
      BY <1>t, <1>4, <2>1 DEF FreshInv
    <2>3. error \in {0, fan.error} /\ then \in {0, fan.then} /\ fan.then \in {0, fan.error}
      BY <1>t, <1>1, <1>2, <1>4, <1>5, <1>6, ReportedTypes DEF GatheredInv
    <2>4. heard'[o] = heard[o] /\ followed'[o] = followed[o]
      BY <1>t, <1>1, <1>2, <1>4, <2>2, <2>3 DEF Reported, FanTypes
    <2> QED BY <1>10, <2>2, <2>4
  <1> QED BY <1>7, <1>11, <1>16, <1>17, <1>18, <1>19 DEF FanInv

\* The reporter's report.
LEMMA TakesKeeps ==
  ASSUME FanInv, F!Takes
  PROVE  FanInv'
  <1>t. /\ FanTypes /\ FanControl /\ OnePlace /\ PartsInv /\ CountInv /\ FreshInv /\ GatheredInv
    BY DEF FanInv
  <1>1. /\ slot.p \in F!OnTheWay /\ slot.p # F!NoPart /\ fan.pending > 0 /\ fan.error # 0
        /\ slot.p.o = fan.error /\ slot.p.i \in 1 .. Size
    BY ReporterReports
  <1>2. PICK order, sent, error, then : Reported("reporter", slot, order, sent, error, then)
    BY ReporterReports
  <1>3. slot' = F!Nothing /\ UNCHANGED <<wk, rec, pub, ended, failed>>
    BY DEF F!Takes
  <1>4. F!Nothing \in Reports /\ F!Nothing.p = F!NoPart
    BY DEF F!Nothing, F!Told, F!NoPart, F!Part, Reports, Parts
  <1>5. /\ slot \in Reports /\ slot.p \in Parts /\ slot.ok \in BOOLEAN /\ "reporter" \in F!Actors
        /\ fan.error \in Nat /\ fan.pending \in Nat
    BY <1>t DEF FanTypes, Reports, F!Actors
  <1>6. /\ BusyInv'
        /\ fan.pending = 1 => fan'.error = 0 /\ fan'.pending = 0
        /\ fan.pending # 1 =>
             /\ error = 0 /\ then = 0 /\ heard' = heard /\ followed' = followed
             /\ fan'.error = fan.error /\ fan'.then = fan.then
             /\ fan'.pending = fan.pending - 1 /\ fan'.pending > 0
             /\ fan'.order = order /\ fan'.sent = sent
    BY <1>1, <1>2, <1>5, ReportedFan
  <1>7. FanTypes'
    BY <1>t, <1>1, <1>2, <1>3, <1>4, <1>5, ReportedTypes DEF FanTypes
  <1>8. FanControl'
    BY <1>t, <1>3 DEF FanControl
  <1>9. OnePlace'
    BY <1>t, <1>3, <1>4 DEF OnePlace
  <1>10. (F!OnTheWay)' = F!OnTheWay \ {slot.p}
    <2>1. \A r \in 1 .. Store : rec[r].part # slot.p \/ rec[r].part = F!NoPart
      BY <1>t DEF OnePlace
    <2>2. pub.told.p # slot.p
      BY <1>t, <1>1 DEF OnePlace
    <2>3. (F!OnTheWay)'
            = ({rec[r].part : r \in 1 .. Store} \cup {F!NoPart, pub.told.p}) \ {F!NoPart}
      BY <1>3, <1>4 DEF F!OnTheWay, F!Under, F!Records
    <2>4. F!OnTheWay = ({rec[r].part : r \in 1 .. Store} \cup {slot.p, pub.told.p}) \ {F!NoPart}
      BY DEF F!OnTheWay, F!Under, F!Records
    <2> DEFINE X == {rec[r].part : r \in 1 .. Store}
    <2>5. slot.p \notin X
      BY <1>1, <2>1
    <2> HIDE DEF X
    <2> QED BY <1>1, <2>2, <2>3, <2>4, <2>5 DEF X
  <1>11. /\ IsFiniteSet((F!OnTheWay)')
         /\ Cardinality((F!OnTheWay)') = Cardinality(F!OnTheWay) - 1
    BY <1>t, <1>1, <1>10, FS_RemoveElement DEF CountInv
  <1>12. (F!Unsettled)' = F!Unsettled
    BY <1>3 DEF F!Unsettled
  <1>13. /\ fan.pending = Cardinality(F!OnTheWay) + F!Unsettled /\ F!Unsettled \in Nat
         /\ Cardinality(F!OnTheWay) \in Nat /\ Cardinality(F!OnTheWay) > 0
         /\ On => F!Unsettled > 0
    BY <1>t, <1>1, CountFacts DEF CountInv
  <1>14. fan.pending = 1 => (F!OnTheWay)' = {} /\ ~On
    <2>1. fan.pending = 1 => Cardinality(F!OnTheWay) - 1 = 0 /\ ~On
      <3> HIDE DEF On
      <3> QED BY <1>13
    <2>2. Cardinality((F!OnTheWay)') = 0 => (F!OnTheWay)' = {}
      BY <1>11, FS_EmptySet
    <2> HIDE DEF On
    <2> QED BY <1>11, <2>1, <2>2
  <1>15. On' <=> On
    BY <1>3 DEF On
  <1>16. CountInv'
    <2>1. fan'.pending = fan.pending - 1 /\ (fan'.pending > 0 <=> fan'.error # 0)
      BY <1>1, <1>5, <1>6
    <2> QED BY <1>11, <1>12, <1>13, <2>1 DEF CountInv
  <1>17. PartsInv'
    <2>1. CASE fan.pending = 1
      <3> HIDE DEF On
      <3> QED BY <1>14, <1>15, <2>1 DEF PartsInv
    <2>2. CASE fan.pending # 1
      <3>1. fan'.error = fan.error
        BY <1>6, <2>2
      <3> HIDE DEF On
      <3> QED BY <1>t, <1>3, <1>10, <1>15, <3>1 DEF PartsInv
    <2> QED BY <2>1, <2>2
  <1>18. GatheredInv'
    <2>1. CASE fan.pending = 1
      BY <1>6, <2>1 DEF GatheredInv
    <2>2. CASE fan.pending # 1
      <3> DEFINE o == fan.error
                 p == slot.p
      <3>1. /\ fan'.error = o /\ fan'.then = fan.then /\ fan'.order = order
            /\ fan'.sent = sent /\ heard' = heard /\ followed' = followed
            /\ (wk'.st = "begin" => fan'.error # wk'.o)
        BY <1>t, <1>1, <1>3, <1>6, <2>2 DEF GatheredInv
      <3>2. /\ fan.error \in 1 .. wk.o /\ fan.then \in {0, fan.error}
            /\ heard[o] = << >> /\ ~followed[o] /\ failed[o] \subseteq ended[o]
            /\ \A i \in 1 .. Size : i \in ended[o] <=> ~Left(i)
            /\ \A x \in {slot, pub.told} : x.p # F!NoPart => (x.ok <=> x.p.i \notin failed[o])
            /\ ToSet(fan.order) = {i \in failed[o] : ~Unreported(i)}
            /\ fan.sent => failed[o] # ended[o]
        BY <1>t, <1>1 DEF GatheredInv
      <3>3. \A i \in 1 .. Size : Left(i)' <=> Left(i)
        <4> HIDE DEF On
        <4> QED BY <1>3, <1>15, <3>1 DEF Left
      <3>4. p = F!Part(o, p.i)
        BY <1>1, <1>5 DEF F!Part, Parts
      <3>5. p.i \in ended[o]
        <4>1. ASSUME NEW r \in 1 .. Store, rec[r].part = F!Part(o, p.i) PROVE FALSE
          BY <1>t, <1>1, <3>4, <4>1 DEF OnePlace
        <4>2. ~(On /\ wk.i <= p.i)
          <5>1. On => p.i < wk.i
            BY <1>t, <1>1 DEF PartsInv
          <5>2. p.i \in Nat /\ wk.i \in Nat
            BY <1>t, <1>5 DEF FanTypes, Parts
          <5> HIDE DEF On
          <5> QED BY <5>1, <5>2
        <4>3. ~Left(p.i)
          BY <4>1, <4>2 DEF Left
        <4> QED BY <1>1, <3>2, <4>3
      <3>6. slot.ok <=> p.i \notin failed[o]
        BY <1>1, <3>2
      <3>7. ASSUME NEW i \in Nat PROVE Unreported(i)' <=> Unreported(i) /\ i # p.i
        <4>1. F!Part(o, i) # F!NoPart /\ (F!Part(o, i) = p <=> i = p.i)
          BY <1>1, <3>4 DEF F!Part, F!NoPart
        <4>2. pub.told.p # p
          BY <1>t, <1>1 DEF OnePlace
        <4>3. Unreported(i)' <=> F!Part(o, i) = pub.told.p
          BY <1>3, <1>4, <3>1, <4>1 DEF Unreported
        <4>4. Unreported(i) <=> F!Part(o, i) = p \/ F!Part(o, i) = pub.told.p
          BY DEF Unreported
        <4> QED BY <4>1, <4>2, <4>3, <4>4
      <3>8. failed[o] \subseteq Nat
        <4>1. /\ failed \in [1 .. MaxOutcomes -> SUBSET (1 .. Size)]
              /\ wk.o <= MaxOutcomes /\ wk.o \in Nat
          BY <1>t DEF FanTypes, FanControl
        <4>2. o \in 1 .. MaxOutcomes
          BY <3>2, <4>1, BatchAssumption
        <4>3. failed[o] \subseteq 1 .. Size
          BY <4>1, <4>2
        <4> QED BY <4>3, BatchAssumption
      <3>9. ToSet(order) = ToSet(fan.order) \cup (IF slot.ok THEN {} ELSE {p.i}) /\ Rising(order)
        BY <1>2 DEF Reported
      <3>10. p.i \in Nat /\ Unreported(p.i)
        BY <1>5, <3>4 DEF Parts, Unreported
      <3>11. {i \in failed[o] : ~(Unreported(i)')}
               = {i \in failed[o] : ~Unreported(i)} \cup (IF slot.ok THEN {} ELSE {p.i})
        <4> DEFINE A == {i \in failed[o] : ~(Unreported(i)')}
                   B == {i \in failed[o] : ~Unreported(i)} \cup (IF slot.ok THEN {} ELSE {p.i})
        <4>1. ASSUME NEW i \in A PROVE i \in B
          BY <3>6, <3>7, <3>8
        <4>2. ASSUME NEW i \in B PROVE i \in A
          BY <3>6, <3>7, <3>8, <3>10
        <4> QED BY <4>1, <4>2
      <3>12. sent => failed[o] # ended[o]
        <4>1. sent <=> fan.sent \/ slot.ok
          BY <1>2 DEF Reported
        <4> QED BY <3>2, <3>5, <3>6, <4>1
      <3>13. \A x \in {F!Nothing, pub.told} :
               x.p # F!NoPart => (x.ok <=> x.p.i \notin failed[o])
        BY <1>4, <3>2
      <3> HIDE DEF o, p
      <3> QED BY <1>3, <3>1, <3>2, <3>3, <3>9, <3>11, <3>12, <3>13 DEF GatheredInv, o
    <2> QED BY <2>1, <2>2
  <1>19. FreshInv'
    <2> SUFFICES ASSUME NEW o \in 1 .. MaxOutcomes, o > wk.o \/ (o = wk.o /\ wk.st = "begin")
                 PROVE  ended[o] = {} /\ failed[o] = {} /\ heard'[o] = << >> /\ ~followed'[o]
      BY <1>3 DEF FreshInv
    <2>1. ended[o] = {} /\ failed[o] = {} /\ heard[o] = << >> /\ ~followed[o]
      BY <1>t DEF FreshInv
    <2>2. fan.error # o
      <3>1. fan.error \in 1 .. wk.o /\ (wk.st = "begin" => fan.error # wk.o)
        BY <1>t, <1>1 DEF GatheredInv
      <3>2. wk.o \in Nat /\ o \in Nat
        BY <1>t, BatchAssumption DEF FanTypes
      <3> QED BY <3>1, <3>2
    <2>3. error \in {0, fan.error} /\ then \in {0, fan.then} /\ fan.then \in {0, fan.error}
      BY <1>t, <1>1, <1>2, <1>5, ReportedTypes DEF GatheredInv
    <2>4. heard'[o] = heard[o] /\ followed'[o] = followed[o]
      BY <1>t, <1>1, <1>2, <2>2, <2>3 DEF Reported, FanTypes
    <2> QED BY <2>1, <2>4
  <1> QED BY <1>6, <1>7, <1>8, <1>9, <1>16, <1>17, <1>18, <1>19 DEF FanInv

\* The publish of a due copy ended: its part moves from the record towards the reporter.
LEMMA PublishedKeeps ==
  ASSUME FanInv, F!Published
  PROVE  FanInv'
  <1>t. /\ FanTypes /\ FanControl /\ OnePlace /\ PartsInv /\ CountInv /\ BusyInv /\ FreshInv
        /\ GatheredInv
    BY DEF FanInv
  <1> DEFINE r == pub.r
             p == rec[pub.r].part
  <1>1. PICK ok \in BOOLEAN :
          /\ F!Ends(p, ok)
          /\ IF p = F!NoPart THEN pub' = F!Resting /\ UNCHANGED slot
             ELSE F!HandsOver(F!Told(p, ok))
    BY DEF F!Published
  <1>2. /\ pub.st = "sending" /\ F!GiveBack(r)
        /\ UNCHANGED <<wk, fan, report, heard, followed>>
    BY DEF F!Published
  <1>3. /\ r \in 1 .. Store /\ r \in Nat /\ r # wk.r /\ pub.told = F!Nothing
        /\ Store \in Nat /\ Size \in Nat /\ MaxOutcomes \in Nat /\ wk.o \in Nat
        /\ wk.o <= MaxOutcomes /\ fan.error \in Nat /\ fan.pending \in Nat
        /\ rec \in [1 .. Store -> [st : {"free", "taken", "due", "sending"}, part : Parts]]
        /\ slot \in Reports
    BY <1>t, <1>2, BatchAssumption DEF FanTypes, FanControl
  <1>4. /\ rec' \in [1 .. Store -> [st : {"free", "taken", "due", "sending"}, part : Parts]]
        /\ \A q \in 1 .. Store : q # r => rec'[q] = rec[q]
        /\ rec'[r] = F!FreeRecord
    BY <1>t, <1>2, <1>3, GivenBack
  <1>5. F!FreeRecord.st = "free" /\ F!FreeRecord.part = F!NoPart
    BY DEF F!FreeRecord
  <1>6. F!Nothing \in Reports /\ F!Nothing.p = F!NoPart
    BY DEF F!Nothing, F!Told, F!NoPart, F!Part, Reports, Parts
  <1>7. /\ F!Resting \in [st : {"idle", "sending", "giving", "ended"}, r : Nat, told : Reports]
        /\ F!Resting.st = "idle" /\ F!Resting.told = F!Nothing
    BY <1>6 DEF F!Resting
  <1>8. p \in Parts
    BY <1>3
  <1> HIDE DEF p, r
  <1>9. CASE p = F!NoPart
    <2>1. pub' = F!Resting /\ slot' = slot
      BY <1>1, <1>9
    <2>2. UNCHANGED <<ended, failed>>
      BY <1>1, <1>9 DEF F!Ends
    <2>3. \A q \in 1 .. Store : rec'[q].part = rec[q].part
      BY <1>4, <1>5, <1>9 DEF p, r
    <2>4. FanTypes'
      BY <1>t, <1>2, <1>4, <1>7, <2>1, <2>2 DEF FanTypes
    <2>5. FanControl'
      <3>1. wk.r # 0 => rec'[wk.r] = rec[wk.r]
        BY <1>t, <1>3, <1>4 DEF FanControl
      <3>2. \A q \in 1 .. Store : rec'[q].st = "free" => rec'[q].part = F!NoPart
        BY <1>t, <1>4, <1>5 DEF FanControl
      <3> QED BY <1>t, <1>2, <1>7, <2>1, <3>1, <3>2 DEF FanControl
    <2>6. Quiet
      BY <1>2, <1>3, <1>7, <2>1, <2>2, <2>3 DEF Quiet, On
    <2> QED BY <2>4, <2>5, <2>6, QuietKeeps
  <1>10. CASE p # F!NoPart
    <2> DEFINE told == [p |-> p, ok |-> ok]
    <2>1. told \in Reports /\ told.p = p /\ told.ok = ok
      BY <1>8 DEF Reports
    <2>2. F!HandsOver(told)
      BY <1>1, <1>10 DEF F!Told
    <2> HIDE DEF told
    <2>3. \/ slot = F!Nothing /\ slot' = told /\ pub' = F!Resting
          \/ slot' = slot /\ pub' = [st |-> "giving", r |-> 0, told |-> told]
      BY <2>2 DEF F!HandsOver
    <2>4. /\ pub' \in [st : {"idle", "sending", "giving", "ended"}, r : Nat, told : Reports]
          /\ slot' \in Reports
          /\ pub'.st # "sending"
          /\ pub'.st # "giving" => pub'.told = F!Nothing
          /\ \/ slot = F!Nothing /\ slot' = told /\ pub'.told = F!Nothing
             \/ slot' = slot /\ pub'.told = told
      BY <1>3, <1>7, <2>1, <2>3
    <2>5. p \in F!OnTheWay
      BY <1>3, <1>10 DEF F!OnTheWay, F!Under, F!Records, p, r
    <2>6. /\ p.o = fan.error /\ p.i \in 1 .. Size /\ fan.error # 0 /\ (On => p.i < wk.i)
      BY <1>t, <2>5, CountFacts DEF PartsInv
    <2>7. fan.error \in 1 .. MaxOutcomes /\ fan.error \in 1 .. wk.o
      BY <1>t, <1>3, <2>6 DEF GatheredInv
    <2>8. p = F!Part(fan.error, p.i)
      BY <1>8, <2>6 DEF F!Part, Parts
    <2>9. /\ ended' = [ended EXCEPT ![fan.error] = @ \cup {p.i}]
          /\ failed' = IF ok THEN failed ELSE [failed EXCEPT ![fan.error] = @ \cup {p.i}]
      BY <1>1, <1>10, <2>6 DEF F!Ends
    <2>10. /\ ended'[fan.error] = ended[fan.error] \cup {p.i}
           /\ failed'[fan.error] = IF ok THEN failed[fan.error] ELSE failed[fan.error] \cup {p.i}
           /\ \A o \in 1 .. MaxOutcomes :
                o # fan.error => ended'[o] = ended[o] /\ failed'[o] = failed[o]
      BY <1>t, <2>7, <2>9 DEF FanTypes
    <2>11. FanTypes'
      <3>1. /\ ended' \in [1 .. MaxOutcomes -> SUBSET (1 .. Size)]
            /\ failed' \in [1 .. MaxOutcomes -> SUBSET (1 .. Size)]
        BY <1>t, <1>1, <1>8, <2>6, <2>7, EndedTypes
      <3> QED BY <1>t, <1>2, <1>4, <2>4, <3>1 DEF FanTypes
    <2>12. FanControl'
      <3>1. wk.r # 0 => rec'[wk.r] = rec[wk.r]
        BY <1>t, <1>3, <1>4 DEF FanControl
      <3>2. \A q \in 1 .. Store : rec'[q].st = "free" => rec'[q].part = F!NoPart
        BY <1>t, <1>4, <1>5 DEF FanControl
      <3> QED BY <1>t, <1>2, <2>4, <3>1, <3>2 DEF FanControl
    <2>13. /\ \A q \in 1 .. Store : q # r => rec[q].part # p
           /\ slot.p # p
           /\ slot.p # pub.told.p \/ slot = F!Nothing
      BY <1>t, <1>3, <1>10 DEF OnePlace, p, r
    <2>14. \A q \in 1 .. Store :
             \/ rec'[q].part = rec[q].part /\ rec[q].part # p
             \/ q = r /\ rec'[q].part = F!NoPart
      BY <1>4, <1>5, <2>13
    <2>15. OnePlace'
      <3>1. \A q, s \in 1 .. Store : rec'[q].part = rec'[s].part =>
              q = s \/ rec'[q].part = F!NoPart
        BY <1>t, <2>14 DEF OnePlace
      <3>2. ASSUME NEW q \in 1 .. Store, rec'[q].part # F!NoPart
            PROVE  rec'[q].part \notin {slot'.p, pub'.told.p}
        <4>1. rec'[q].part = rec[q].part /\ rec[q].part # p /\ rec[q].part # slot.p
          BY <1>t, <2>14, <3>2 DEF OnePlace
        <4> QED BY <1>6, <2>1, <2>4, <3>2, <4>1
      <3>3. slot'.p # F!NoPart => slot'.p # pub'.told.p
        <4>1. slot.p # p
          BY <1>t, <1>3, <1>10 DEF OnePlace, p, r
        <4> QED BY <1>6, <1>10, <2>1, <2>4, <4>1
      <3>4. \A x \in {slot', pub'.told} : x.p = F!NoPart => x = F!Nothing
        BY <1>t, <1>10, <2>1, <2>4 DEF OnePlace
      <3> QED BY <3>1, <3>2, <3>3, <3>4 DEF OnePlace
    <2>16. (F!OnTheWay)' = F!OnTheWay
      <3> DEFINE X == {rec[q].part : q \in 1 .. Store \ {r}}
      <3>1. {rec'[q].part : q \in 1 .. Store} = X \cup {F!NoPart}
        BY <1>3, <1>4, <1>5
      <3>2. {rec[q].part : q \in 1 .. Store} = X \cup {p}
        BY <1>3 DEF p, r
      <3>3. (F!OnTheWay)' = ((X \cup {F!NoPart}) \cup {slot'.p, pub'.told.p}) \ {F!NoPart}
        BY <3>1 DEF F!OnTheWay, F!Under, F!Records
      <3>4. F!OnTheWay = ((X \cup {p}) \cup {slot.p, pub.told.p}) \ {F!NoPart}
        BY <3>2 DEF F!OnTheWay, F!Under, F!Records
      <3> HIDE DEF X
      <3> QED BY <1>3, <1>6, <2>1, <2>4, <3>3, <3>4
    <2>17. PartsInv'
      BY <1>t, <1>2, <2>16 DEF PartsInv, On
    <2>18. CountInv'
      <3>1. (F!Unsettled)' = F!Unsettled
        BY <1>2 DEF F!Unsettled
      <3> QED BY <1>t, <1>2, <2>16, <3>1 DEF CountInv
    <2>19. BusyInv'
      BY <1>t, <1>2 DEF BusyInv
    <2>20. GatheredInv'
      <3> DEFINE o == fan.error
      <3>1. /\ fan.error \in 1 .. wk.o /\ fan.then \in {0, fan.error}
            /\ heard[o] = << >> /\ ~followed[o] /\ failed[o] \subseteq ended[o]
            /\ \A i \in 1 .. Size : i \in ended[o] <=> ~Left(i)
            /\ \A x \in {slot, pub.told} : x.p # F!NoPart => (x.ok <=> x.p.i \notin failed[o])
            /\ ToSet(fan.order) = {i \in failed[o] : ~Unreported(i)} /\ Rising(fan.order)
            /\ fan.sent => failed[o] # ended[o]
            /\ wk.st = "begin" => o # wk.o
        BY <1>t, <2>6 DEF GatheredInv
      <3>2. Left(p.i)
        BY <1>3, <2>8 DEF Left, p, r
      <3>3. p.i \notin ended[o] /\ p.i \notin failed[o]
        BY <2>6, <3>1, <3>2
      <3>4. \A i \in Nat : F!Part(o, i) = p <=> i = p.i
        BY <2>8 DEF F!Part
      <3>5. \A i \in Nat : F!Part(o, i) # F!NoPart
        BY <2>6 DEF F!Part, F!NoPart
      <3>6. ASSUME NEW i \in 1 .. Size PROVE Left(i)' <=> Left(i) /\ i # p.i
        <4>1. i \in Nat /\ wk.i \in Nat
          BY <1>t, <1>3 DEF FanTypes
        <4>2. (\E q \in 1 .. Store : rec'[q].part = F!Part(o, i))
                <=> (\E q \in 1 .. Store : rec[q].part = F!Part(o, i)) /\ i # p.i
          <5>1. CASE i = p.i
            BY <2>14, <3>4, <3>5, <4>1, <5>1
          <5>2. CASE i # p.i
            <6>1. F!Part(o, i) # p /\ F!Part(o, i) # F!NoPart
              BY <3>4, <3>5, <4>1, <5>2
            <6>2. \A q \in 1 .. Store : rec'[q].part = F!Part(o, i) <=> rec[q].part = F!Part(o, i)
              BY <1>4, <1>5, <6>1 DEF p, r
            <6> QED BY <5>2, <6>2
          <5> QED BY <5>1, <5>2
        <4>3. On /\ wk.i <= i => i # p.i
          <5> HIDE DEF On
          <5> QED BY <2>6, <4>1
        <4>4. Left(i)' <=> (On /\ wk.i <= i) \/ \E q \in 1 .. Store : rec'[q].part = F!Part(o, i)
          BY <1>2 DEF Left, On
        <4>5. Left(i) <=> (On /\ wk.i <= i) \/ \E q \in 1 .. Store : rec[q].part = F!Part(o, i)
          BY DEF Left
        <4> HIDE DEF On
        <4> QED BY <4>2, <4>3, <4>4, <4>5
      <3>7. \A i \in 1 .. Size : i \in ended'[o] <=> ~(Left(i)')
        BY <2>10, <3>1, <3>6
      <3>8. ASSUME NEW i \in Nat PROVE Unreported(i)' <=> Unreported(i) \/ i = p.i
        <4>1. F!Part(o, i) # F!NoPart /\ (F!Part(o, i) = p <=> i = p.i)
          BY <3>4, <3>5
        <4>2. Unreported(i)' <=> F!Part(o, i) \in {slot'.p, pub'.told.p}
          BY <1>2 DEF Unreported
        <4>3. Unreported(i) <=> F!Part(o, i) \in {slot.p, pub.told.p}
          BY DEF Unreported
        <4> QED BY <1>3, <1>6, <2>1, <2>4, <4>1, <4>2, <4>3
      <3>9. failed[o] \subseteq Nat /\ p.i \in Nat
        <4>1. failed \in [1 .. MaxOutcomes -> SUBSET (1 .. Size)]
          BY <1>t DEF FanTypes
        <4>2. failed[o] \subseteq 1 .. Size
          BY <2>7, <4>1
        <4> QED BY <1>3, <2>6, <4>2
      <3>10. {i \in failed'[o] : ~(Unreported(i)')} = {i \in failed[o] : ~Unreported(i)}
        <4> DEFINE A == {i \in failed'[o] : ~(Unreported(i)')}
                   B == {i \in failed[o] : ~Unreported(i)}
        <4>1. ASSUME NEW i \in A PROVE i \in B
          BY <2>10, <3>8, <3>9
        <4>2. ASSUME NEW i \in B PROVE i \in A
          BY <2>10, <3>3, <3>8, <3>9
        <4> QED BY <4>1, <4>2
      <3>11. ASSUME NEW x \in {slot', pub'.told}, x.p # F!NoPart
             PROVE  x.ok <=> x.p.i \notin failed'[o]
        <4>1. CASE x = told
          BY <2>1, <2>10, <3>3, <4>1
        <4>2. CASE x # told
          <5>1. x = slot /\ x.p # p
            <6>1. x = slot
              BY <1>6, <2>4, <3>11, <4>2
            <6>2. slot.p # p
              BY <1>t, <1>3, <1>10 DEF OnePlace, p, r
            <6> QED BY <6>1, <6>2
          <5>2. x.p \in F!OnTheWay
            BY <3>11, <5>1 DEF F!OnTheWay, F!Under
          <5>3. x.p \in Parts /\ x.p.o = o
            BY <1>t, <1>3, <5>1, <5>2 DEF PartsInv, Reports
          <5>4. x.p.i # p.i
            BY <1>8, <2>6, <5>1, <5>3 DEF Parts
          <5> QED BY <2>10, <3>1, <3>11, <5>1, <5>4
        <4> QED BY <4>1, <4>2
      <3>12. failed'[o] \subseteq ended'[o] /\ (fan.sent => failed'[o] # ended'[o])
        BY ZenonT(30), <2>10, <3>1, <3>3
      <3> HIDE DEF o
      <3> QED BY <1>2, <3>1, <3>7, <3>10, <3>11, <3>12 DEF GatheredInv, o
    <2>21. FreshInv'
      <3> SUFFICES ASSUME NEW o \in 1 .. MaxOutcomes, o > wk.o \/ (o = wk.o /\ wk.st = "begin")
                   PROVE  ended'[o] = {} /\ failed'[o] = {} /\ heard[o] = << >> /\ ~followed[o]
        BY <1>2 DEF FreshInv
      <3>1. ended[o] = {} /\ failed[o] = {} /\ heard[o] = << >> /\ ~followed[o]
        BY <1>t DEF FreshInv
      <3>2. fan.error # o
        BY <1>t, <1>3, <2>6 DEF GatheredInv
      <3> QED BY <2>10, <3>1, <3>2
    <2> QED BY <2>11, <2>12, <2>15, <2>17, <2>18, <2>19, <2>20, <2>21 DEF FanInv
  <1> QED BY <1>9, <1>10

-----------------------------------------------------------------------------
(* The invariant of the fan. *)

LEMMA FanInitially ==
  ASSUME F!Init
  PROVE  FanInv
  <1>1. F!NoPart \in Parts /\ F!Nothing \in Reports /\ F!Nothing.p = F!NoPart
    BY DEF F!Nothing, F!Told, F!NoPart, F!Part, Reports, Parts
  <1>2. /\ wk \in [st : WorkerStates, o : Nat, i : Nat, r : Nat, shared : BOOLEAN, then : BOOLEAN]
        /\ wk.st = "next" /\ wk.o = 0 /\ wk.r = 0 /\ ~wk.shared
    BY DEF F!Init, WorkerStates
  <1>3. /\ rec \in [1 .. Store -> [st : {"free", "taken", "due", "sending"}, part : Parts]]
        /\ \A r \in 1 .. Store : rec[r].part = F!NoPart
    <2>1. rec = [r \in 1 .. Store |-> [st |-> "free", part |-> F!NoPart]]
      BY DEF F!Init, F!Records, F!FreeRecord
    <2> HIDE DEF F!NoPart
    <2> QED BY <1>1, <2>1
  <1>4. /\ pub \in [st : {"idle", "sending", "giving", "ended"}, r : Nat, told : Reports]
        /\ pub.st = "idle" /\ pub.told = F!Nothing /\ slot = F!Nothing
    <2>1. pub = [st |-> "idle", r |-> 0, told |-> F!Nothing] /\ slot = F!Nothing
      BY DEF F!Init
    <2> QED BY <1>1, <2>1
  <1>5. /\ fan \in [busy : BOOLEAN, error : Nat, then : Nat, pending : Nat, sent : BOOLEAN,
                    order : Seq(Nat)]
        /\ ~fan.busy /\ fan.error = 0 /\ fan.pending = 0 /\ fan.order = << >>
    <2> DEFINE none == << >>
    <2>1. /\ fan = [busy |-> FALSE, error |-> 0, then |-> 0, pending |-> 0, sent |-> FALSE,
                    order |-> none]
          /\ none \in Seq(Nat)
      BY DEF F!Init, F!FreeFan
    <2> HIDE DEF none
    <2>2. /\ fan \in [busy : BOOLEAN, error : Nat, then : Nat, pending : Nat, sent : BOOLEAN,
                      order : Seq(Nat)]
          /\ ~fan.busy /\ fan.error = 0 /\ fan.pending = 0 /\ fan.order = none
      BY <2>1
    <2> QED BY <2>2 DEF none
  <1>6. /\ report \in [F!Actors -> [error : Nat, then : Nat]]
        /\ \A a \in F!Actors : report[a].error = 0
    BY DEF F!Init
  <1>7. /\ ended = [o \in 1 .. MaxOutcomes |-> {}] /\ failed = [o \in 1 .. MaxOutcomes |-> {}]
        /\ heard = [o \in 1 .. MaxOutcomes |-> << >>]
        /\ followed = [o \in 1 .. MaxOutcomes |-> FALSE]
    BY DEF F!Init, F!Outcomes
  <1>8. /\ ended \in [1 .. MaxOutcomes -> SUBSET (1 .. Size)]
        /\ failed \in [1 .. MaxOutcomes -> SUBSET (1 .. Size)]
        /\ heard \in [1 .. MaxOutcomes -> Seq(Nat)]
        /\ followed \in [1 .. MaxOutcomes -> BOOLEAN]
    BY <1>7
  <1>9. F!OnTheWay = {} /\ F!Unsettled = 0
    BY <1>1, <1>2, <1>3, <1>4 DEF F!OnTheWay, F!Under, F!Records, F!Unsettled
  <1>10. FanTypes
    BY <1>1, <1>2, <1>3, <1>4, <1>5, <1>6, <1>8 DEF FanTypes
  <1>11. FanControl
    BY <1>2, <1>3, <1>4, BatchAssumption DEF FanControl
  <1>12. OnePlace
    BY <1>1, <1>3, <1>4 DEF OnePlace
  <1>13. PartsInv /\ CountInv
    BY <1>2, <1>5, <1>9, FS_EmptySet DEF PartsInv, CountInv, On
  <1>14. BusyInv
    BY <1>5, <1>6 DEF BusyInv
  <1>15. GatheredInv
    BY <1>5 DEF GatheredInv
  <1>16. FreshInv
    BY <1>7 DEF FreshInv
  <1> QED BY <1>10, <1>11, <1>12, <1>13, <1>14, <1>15, <1>16 DEF FanInv

\* The worker's steps that end an element in its hands.
LEMMA EndingStepKeeps ==
  ASSUME FanInv, F!SettlesUnpublished \/ F!Sent \/ F!FindsFull \/ F!DropFails
  PROVE  FanInv'
  <1>t. FanTypes /\ FanControl
    BY DEF FanInv
  <1>1. wk.st \in Working /\ UNCHANGED <<pub, slot>>
    BY DEF F!SettlesUnpublished, F!Sent, F!FindsFull, F!DropFails, F!WorkerIn, Working
  <1>2. PICK ok \in BOOLEAN : F!EndsHere(ok)
    BY DEF F!SettlesUnpublished, F!Sent, F!FindsFull, F!DropFails
  <1>3. F!NextElement
    BY <1>2 DEF F!EndsHere
  <1>4. /\ wk'.o = wk.o /\ wk'.r = 0 /\ wk.i \in 1 .. Size /\ wk'.st \in {"next", "element"}
        /\ ~wk.shared => ~wk'.shared
    BY <1>t, <1>1, <1>3, NextElementEffect
  <1>5. rec' = rec \/ F!GiveBack(wk.r)
    BY DEF F!SettlesUnpublished, F!Sent, F!FindsFull, F!DropFails
  <1>6. FanTypes' /\ FanControl' /\ \A r \in 1 .. Store : rec'[r].part = rec[r].part
    <2>1. CASE F!GiveBack(wk.r)
      BY <1>1, <1>2, <2>1, EndsHereControl
    <2>2. CASE rec' = rec
      <3>1. /\ wk' \in [st : WorkerStates, o : Nat, i : Nat, r : Nat, shared : BOOLEAN,
                        then : BOOLEAN]
            /\ wk.i = Size => wk'.st = "next" /\ ~wk'.shared
            /\ wk.i # Size => wk'.st = "element" /\ wk'.i = wk.i + 1 /\ (wk'.shared <=> wk.shared)
        BY <1>t, <1>1, <1>3, NextElementEffect
      <3>2. FanTypes'
        BY <1>t, <1>1, <1>2, <2>2, <3>1, EndsHereTypes DEF FanTypes
      <3>3. wk'.st # "next" => wk'.i \in 1 .. Size
        BY <1>4, <3>1, BatchAssumption
      <3>4. wk.o # 0
        BY <1>t, <1>1 DEF FanControl, Working
      <3>5. pub.st = "sending" => pub.r # 0
        BY <1>t, BatchAssumption DEF FanControl
      <3>6. FanControl'
        BY <1>t, <1>1, <1>4, <2>2, <3>1, <3>3, <3>4, <3>5 DEF FanControl
      <3> QED BY <2>2, <3>2, <3>6
    <2> QED BY <1>5, <2>1, <2>2
  <1>7. CASE wk.shared
    BY <1>1, <1>2, <1>6, <1>7, EndsHereKeeps
  <1>8. CASE ~wk.shared
    <2>1. UNCHANGED <<fan, report, ended, failed, heard, followed>>
      BY <1>2, <1>8 DEF F!EndsHere, F!Ends, F!Mine
    <2>2. ~On /\ ~(On') /\ wk.o \in Nat
      BY <1>t, <1>4, <1>8 DEF On, FanTypes
    <2>3. Quiet
      BY <1>1, <1>4, <1>6, <2>1, <2>2 DEF Quiet
    <2> QED BY <1>6, <2>3, QuietKeeps
  <1> QED BY <1>7, <1>8

\* A copy armed for an outcome without .error.
LEMMA ArmsAloneKeeps ==
  ASSUME FanInv, F!Arms, ~wk.shared
  PROVE  FanInv'
  <1>t. FanTypes /\ FanControl
    BY DEF FanInv
  <1>1. /\ wk.st = "arm" /\ wk.st \in Working /\ F!NextElement
        /\ rec' = [rec EXCEPT ![wk.r] = [st |-> "due", part |-> F!NoPart]]
        /\ UNCHANGED <<pub, slot, fan, report, ended, failed, heard, followed>>
    BY DEF F!Arms, F!WorkerIn, F!outcomeVars, Working, F!Mine
  <1>2. /\ wk' \in [st : WorkerStates, o : Nat, i : Nat, r : Nat, shared : BOOLEAN, then : BOOLEAN]
        /\ wk'.o = wk.o /\ wk'.r = 0 /\ wk.i \in 1 .. Size
        /\ wk.i = Size => wk'.st = "next" /\ ~wk'.shared
        /\ wk.i # Size => wk'.st = "element" /\ wk'.i = wk.i + 1 /\ (wk'.shared <=> wk.shared)
    BY <1>t, <1>1, NextElementEffect
  <1>3. /\ wk.r \in 1 .. Store /\ rec[wk.r].part = F!NoPart /\ Size \in Nat /\ Store \in Nat
        /\ wk.o \in Nat /\ wk.o # 0 /\ wk.i \in Nat
        /\ rec \in [1 .. Store -> [st : {"free", "taken", "due", "sending"}, part : Parts]]
        /\ pub.st = "sending" => pub.r \in 1 .. Store /\ rec[pub.r].st = "sending" /\ pub.r # wk.r
    BY <1>t, <1>1, BatchAssumption DEF FanTypes, FanControl
  <1>4. F!NoPart \in Parts
    BY DEF F!NoPart, F!Part, Parts
  <1>5. /\ rec' \in [1 .. Store -> [st : {"free", "taken", "due", "sending"}, part : Parts]]
        /\ rec'[wk.r].st = "due" /\ rec'[wk.r].part = F!NoPart
        /\ \A q \in 1 .. Store : q # wk.r => rec'[q] = rec[q]
    BY <1>1, <1>3, <1>4
  <1>6. FanTypes'
    BY <1>t, <1>1, <1>2, <1>5 DEF FanTypes
  <1>7. wk'.st # "next" => wk'.i \in 1 .. Size
    BY <1>2, <1>3
  <1>8. \A q \in 1 .. Store : rec'[q].st = "free" => rec'[q].part = F!NoPart
    BY <1>t, <1>5 DEF FanControl
  <1>9. pub'.st = "sending" => pub'.r \in 1 .. Store /\ rec'[pub'.r].st = "sending" /\ pub'.r # 0
    BY <1>1, <1>3, <1>5
  <1>10. FanControl'
    BY <1>t, <1>1, <1>2, <1>3, <1>7, <1>8, <1>9 DEF FanControl
  <1>11. ~On /\ ~(On')
    BY <1>2 DEF On
  <1>12. \A q \in 1 .. Store : rec'[q].part = rec[q].part
    BY <1>3, <1>5
  <1>13. Quiet
    BY <1>1, <1>2, <1>3, <1>11, <1>12 DEF Quiet
  <1> QED BY <1>6, <1>10, <1>13, QuietKeeps

LEMMA FanStep ==
  ASSUME FanInv, F!Next \/ UNCHANGED F!vars
  PROVE  FanInv'
  <1>1. CASE F!Returns
    BY <1>1, ReturnsQuiet, QuietKeeps
  <1>2. CASE F!Stops
    BY <1>2, StopsQuiet, QuietKeeps
  <1>3. CASE F!Begin
    BY <1>3, BeginKeeps
  <1>4. CASE F!SettlesUnpublished \/ F!Sent \/ F!FindsFull \/ F!DropFails
    BY <1>4, EndingStepKeeps
  <1>5. CASE F!Prepares
    BY <1>5, PreparesQuiet, QuietKeeps
  <1>6. CASE F!Arms
    BY <1>6, ArmsKeeps, ArmsAloneKeeps
  <1>7. CASE F!SendsNow
    BY <1>7, SendsNowQuiet, QuietKeeps
  <1>8. CASE F!PublishesDue
    BY <1>8, PublishesDueQuiet, QuietKeeps
  <1>9. CASE F!Published
    BY <1>9, PublishedKeeps
  <1>10. CASE F!Gives
    BY <1>10, GivesKeeps
  <1>11. CASE F!PublishingEnds \/ F!ReporterEnds \/ (\E a \in F!Actors : F!FollowEnds(a))
              \/ UNCHANGED F!vars
    BY <1>11, EndingsQuiet, QuietKeeps
  <1>12. CASE F!Takes
    BY <1>12, TakesKeeps
  <1>13. CASE \E a \in F!Actors : F!ReactEnds(a)
    BY <1>13, ReactEndsKeeps
  <1> QED
    BY <1>1, <1>2, <1>3, <1>4, <1>5, <1>6, <1>7, <1>8, <1>9, <1>10, <1>11, <1>12, <1>13
    DEF F!Next, F!WorkerStep, F!Driver, F!Reporter

\* The parts on their way are told to the outcome they belong to.
LEMMA FanGathers ==
  ASSUME FanInv
  PROVE  F!PartsReachTheirOutcome
  <1>1. F!Cardinality(F!OnTheWay) = Cardinality(F!OnTheWay)
    BY DEF F!Cardinality, Cardinality, F!IsFiniteSet, IsFiniteSet
  <1> QED BY <1>1 DEF F!PartsReachTheirOutcome, FanInv, PartsInv, CountInv, BusyInv, On

-----------------------------------------------------------------------------
(* The rendezvous of a build with a heap. *)

GatherTypes ==
  /\ at \in Nat
  /\ el \in [1 .. Size -> {"todo", "sending", "waiting", "leaving", "told", "reported"}]
  /\ gathered \in [pending : Int, sent : BOOLEAN, failures : Seq(1 .. Size), after : BOOLEAN]
  /\ last = [st |-> last.st, failures |-> last.failures, after |-> last.after]
  /\ last.st \in {"none", "handed", "ran"} /\ last.after \in BOOLEAN
  /\ ended \in [{1} -> SUBSET (1 .. Size)] /\ failed \in [{1} -> SUBSET (1 .. Size)]
  /\ heard \in [{1} -> Seq(Nat)] /\ followed \in [{1} -> BOOLEAN]

HasReported == {i \in 1 .. Size : el[i] = "reported"}

\* An element ended when its publish did, and counts as failed only when it has reported.
ElementsInv ==
  /\ \A i \in 1 .. Size : i \in ended[1] <=> el[i] \in {"told", "reported"}
  /\ \A i \in 1 .. Size : i \in failed[1] => el[i] = "reported"

\* The rendezvous waits for the elements that have not reported and has the failures of the others.
RendezvousInv ==
  /\ IsFiniteSet(HasReported)
  /\ gathered.pending = Size - Cardinality(HasReported)
  /\ last.st = "none" <=> gathered.pending > 0
  /\ gathered.pending > 0 =>
       /\ ToSet(gathered.failures) = failed[1]
       /\ Differ(gathered.failures)
       /\ gathered.sent => \E i \in 1 .. Size : el[i] = "reported" /\ i \notin failed[1]

\* The whole runs once, on every failure in the order of the batch.
WholeInv ==
  /\ last.st # "ran" => heard[1] = << >> /\ ~followed[1]
  /\ last.st = "handed" =>
       /\ last.failures \in Seq(Nat)
       /\ ToSet(last.failures) = failed[1] /\ Rising(last.failures)
       /\ last.after => failed[1] # 1 .. Size

GatherInv == GatherTypes /\ ElementsInv /\ RendezvousInv /\ WholeInv

LEMMA GatherInitially ==
  ASSUME G!Init
  PROVE  GatherInv
  <1> DEFINE none == << >>
  <1>1. PICK after \in BOOLEAN :
          gathered = [pending |-> Size, sent |-> FALSE, failures |-> none, after |-> after]
    BY DEF G!Init
  <1>2. none \in Seq(Nat) /\ none \in Seq(1 .. Size) /\ ToSet(none) = {} /\ Differ(none)
    BY DEF ToSet, Differ
  <1>3. last = [st |-> "none", failures |-> none, after |-> FALSE]
    BY DEF G!Init, G!NoLast
  <1>4. /\ at \in Nat
        /\ el = [i \in 1 .. Size |-> "todo"]
        /\ ended = [o \in {1} |-> {}] /\ failed = [o \in {1} |-> {}]
        /\ heard = [o \in {1} |-> none] /\ followed = [o \in {1} |-> FALSE]
    BY DEF G!Init, G!Fresh, G!Elements, G!Outcomes
  <1> HIDE DEF none
  <1>5. /\ gathered \in [pending : Int, sent : BOOLEAN, failures : Seq(1 .. Size), after : BOOLEAN]
        /\ gathered.pending = Size /\ gathered.failures = none /\ ~gathered.sent
    BY <1>1, <1>2, BatchAssumption
  <1>6. GatherTypes
    BY <1>2, <1>3, <1>4, <1>5 DEF GatherTypes
  <1>7. HasReported = {}
    BY <1>4 DEF HasReported
  <1>8. ElementsInv
    BY <1>4 DEF ElementsInv
  <1>9. RendezvousInv
    BY <1>2, <1>3, <1>4, <1>5, <1>7, BatchAssumption, FS_EmptySet DEF RendezvousInv
  <1>10. WholeInv
    BY <1>3, <1>4 DEF WholeInv, none
  <1> QED BY <1>6, <1>8, <1>9, <1>10 DEF GatherInv

\* A report keeps the invariant; the last one, where it runs the whole, is the outcome's end.
LEMMA ReportKeeps ==
  ASSUME GatherInv, NEW i \in 1 .. Size, NEW ok \in BOOLEAN, NEW here \in BOOLEAN,
         el[i] # "reported", G!Move(i, "reported"), G!Report(i, ok, here), at' \in Nat,
         ended' = [ended EXCEPT ![1] = @ \cup {i}],
         failed' = IF ok THEN failed ELSE [failed EXCEPT ![1] = @ \cup {i}]
  PROVE  /\ GatherInv'
         /\ S!React(1) \/ UNCHANGED heard
         /\ S!Follow(1) \/ UNCHANGED followed
  <1>t. GatherTypes /\ ElementsInv /\ RendezvousInv /\ WholeInv
    BY DEF GatherInv
  <1>1. /\ el' = [el EXCEPT ![i] = "reported"]
        /\ el' \in [1 .. Size -> {"todo", "sending", "waiting", "leaving", "told", "reported"}]
        /\ el'[i] = "reported" /\ \A j \in 1 .. Size : j # i => el'[j] = el[j]
    BY <1>t DEF G!Move, GatherTypes
  <1>2. HasReported' = HasReported \cup {i} /\ i \notin HasReported
    BY <1>1 DEF HasReported
  <1>3. /\ IsFiniteSet(HasReported') /\ IsFiniteSet(HasReported)
        /\ Cardinality(HasReported') = Cardinality(HasReported) + 1
        /\ Cardinality(HasReported) \in Nat
    BY <1>t, <1>2, FS_AddElement, FS_CardinalityType DEF RendezvousInv
  <1>4. /\ Cardinality(HasReported') <= Size
        /\ Cardinality(HasReported') = Size => HasReported' = 1 .. Size
    <2>1. IsFiniteSet(1 .. Size) /\ Cardinality(1 .. Size) = Size
      <3>1. 1 \in Int /\ Size \in Int /\ ~(1 > Size) /\ Size - 1 + 1 = Size
        BY BatchAssumption
      <3> QED BY <3>1, FS_Interval
    <2>2. HasReported' \subseteq 1 .. Size
      BY DEF HasReported
    <2> HIDE DEF HasReported
    <2> QED BY <2>1, <2>2, FS_Subset
  <1>5. /\ gathered.pending \in Nat /\ gathered.pending > 0 /\ last.st = "none"
        /\ gathered.pending - 1 = Size - Cardinality(HasReported')
    BY <1>t, <1>3, <1>4, BatchAssumption DEF RendezvousInv
  <1>6. /\ ended' \in [{1} -> SUBSET (1 .. Size)] /\ failed' \in [{1} -> SUBSET (1 .. Size)]
        /\ ended'[1] = ended[1] \cup {i}
        /\ failed'[1] = IF ok THEN failed[1] ELSE failed[1] \cup {i}
        /\ i \notin failed[1]
    BY <1>t DEF GatherTypes, ElementsInv
  <1>7. ElementsInv'
    BY <1>t, <1>1, <1>6 DEF ElementsInv
  <1>8. heard[1] = << >> /\ ~followed[1]
    BY <1>t, <1>5 DEF WholeInv
  <1> DEFINE failures == IF ok THEN gathered.failures ELSE Append(gathered.failures, i)
             sent == gathered.sent \/ ok
             more == gathered.after /\ sent
             left == gathered.after /\ ~sent
             none == << >>
             sorted == G!Sorted(failures)
  <1>9. failures \in Seq(1 .. Size) /\ Differ(failures) /\ ToSet(failures) = failed'[1]
    <2> DEFINE s == gathered.failures
    <2>1. s \in Seq(1 .. Size) /\ Differ(s) /\ ToSet(s) = failed[1]
      BY <1>t, <1>5 DEF GatherTypes, RendezvousInv
    <2> HIDE DEF s
    <2>2. CASE ok
      BY <1>6, <2>1, <2>2 DEF s
    <2>3. CASE ~ok
      <3> DEFINE t == Append(s, i)
      <3>1. /\ t \in Seq(1 .. Size) /\ Len(t) = Len(s) + 1 /\ t[Len(s) + 1] = i
            /\ \A j \in 1 .. Len(s) : t[j] = s[j]
        BY <2>1
      <3>2. Len(s) \in Nat /\ DOMAIN s = 1 .. Len(s)
        BY <2>1
      <3>3. DOMAIN t = 1 .. Len(s) + 1
        BY <3>1
      <3> HIDE DEF t
      <3>4. \A j \in 1 .. Len(s) : s[j] # i
        BY <1>6, <2>1, <3>2 DEF ToSet
      <3>5. \A j \in 1 .. Len(s) + 1 : j = Len(s) + 1 \/ j \in 1 .. Len(s)
        BY <3>2
      <3>6. Differ(t)
        BY <2>1, <3>1, <3>4, <3>5 DEF Differ
      <3>7. ToSet(t) = ToSet(s) \cup {i}
        <4>1. ToSet(t) = {t[j] : j \in 1 .. Len(s) + 1} /\ ToSet(s) = {s[j] : j \in 1 .. Len(s)}
          BY <3>2, <3>3 DEF ToSet
        <4>2. Len(s) + 1 \in 1 .. Len(s) + 1 /\ \A j \in 1 .. Len(s) : j \in 1 .. Len(s) + 1
          BY <3>2
        <4>3. ASSUME NEW x \in ToSet(t) PROVE x \in ToSet(s) \cup {i}
          BY <3>1, <3>5, <4>1
        <4>4. ASSUME NEW x \in ToSet(s) PROVE x \in ToSet(t)
          BY <3>1, <4>1, <4>2
        <4>5. i \in ToSet(t)
          BY <3>1, <4>1, <4>2
        <4> QED BY <4>3, <4>4, <4>5
      <3> QED BY <1>6, <2>1, <2>3, <3>1, <3>6, <3>7 DEF s, t
    <2> QED BY <2>2, <2>3
  <1>10. failures \in Seq(Nat)
    <2> HIDE DEF failures
    <2>1. failures \in [1 .. Len(failures) -> 1 .. Size] /\ Len(failures) \in Nat
      BY <1>9, LenProperties
    <2>2. failures \in [1 .. Len(failures) -> Nat]
      BY <2>1, BatchAssumption
    <2> QED BY <2>1, <2>2, SeqDef
  <1>11. /\ sorted \in Seq(Nat) /\ ToSet(sorted) = failed'[1] /\ Rising(sorted)
    <2> HIDE DEF failures
    <2> QED BY <1>9, <1>10, SortedRises
  <1>12. sent => \E j \in 1 .. Size : el'[j] = "reported" /\ j \notin failed'[1]
    BY <1>t, <1>1, <1>5, <1>6 DEF RendezvousInv
  <1>13. sent \in BOOLEAN /\ more \in BOOLEAN /\ left \in BOOLEAN /\ gathered.after \in BOOLEAN
    BY <1>t DEF GatherTypes
  <1>14. gathered.pending - 1 > 0 =>
           /\ gathered' = [gathered EXCEPT !.pending = gathered.pending - 1, !.sent = sent,
                                           !.failures = failures]
           /\ UNCHANGED <<last, heard, followed>>
    BY DEF G!Report
  <1>15. ~(gathered.pending - 1 > 0) =>
           gathered' = [pending |-> 0, sent |-> sent, failures |-> none, after |-> left]
    BY DEF G!Report
  <1>16. ~(gathered.pending - 1 > 0) /\ ~here =>
           /\ last' = [st |-> "handed", failures |-> sorted, after |-> more]
           /\ UNCHANGED <<heard, followed>>
    BY DEF G!Report
  <1>17. ~(gathered.pending - 1 > 0) /\ here =>
           /\ last' = [st |-> "ran", failures |-> none, after |-> FALSE]
           /\ heard' = IF sorted # none THEN [heard EXCEPT ![1] = sorted] ELSE heard
           /\ followed' = IF more THEN [followed EXCEPT ![1] = TRUE] ELSE followed
    BY DEF G!Report, G!Run, G!NoLast
  <1>18. none \in Seq(1 .. Size)
    OBVIOUS
  <1>19. more => sent
    OBVIOUS
  <1> HIDE DEF failures, sent, more, left, sorted, none
  <1>20. CASE gathered.pending - 1 > 0
    <2>1. /\ gathered' \in [pending : Int, sent : BOOLEAN, failures : Seq(1 .. Size),
                            after : BOOLEAN]
          /\ gathered'.pending = gathered.pending - 1 /\ gathered'.failures = failures
          /\ gathered'.sent <=> sent
      <3> DEFINE p == gathered.pending - 1
      <3>1. p \in Int
        BY <1>5
      <3>2. gathered' = [gathered EXCEPT !.pending = p, !.sent = sent, !.failures = failures]
        BY <1>14, <1>20
      <3> HIDE DEF p
      <3>3. /\ gathered' \in [pending : Int, sent : BOOLEAN, failures : Seq(1 .. Size),
                              after : BOOLEAN]
            /\ gathered'.pending = p /\ gathered'.failures = failures /\ gathered'.sent = sent
        BY <1>t, <1>9, <1>13, <3>1, <3>2 DEF GatherTypes
      <3> QED BY <3>3 DEF p
    <2>2. GatherTypes'
      BY <1>t, <1>1, <1>6, <1>14, <1>20, <2>1 DEF GatherTypes
    <2>3. RendezvousInv'
      BY <1>t, <1>3, <1>5, <1>9, <1>12, <1>14, <1>20, <2>1 DEF RendezvousInv
    <2>4. WholeInv'
      BY <1>5, <1>8, <1>14, <1>20 DEF WholeInv
    <2> QED BY <1>7, <1>14, <1>20, <2>2, <2>3, <2>4 DEF GatherInv
  <1>21. CASE ~(gathered.pending - 1 > 0)
    <2>1. /\ gathered' \in [pending : Int, sent : BOOLEAN, failures : Seq(1 .. Size),
                            after : BOOLEAN]
          /\ gathered'.pending = 0 /\ gathered.pending - 1 = 0
      BY <1>5, <1>13, <1>15, <1>18, <1>21
    <2>2. HasReported' = 1 .. Size /\ ended'[1] = 1 .. Size
      <3>1. HasReported' = 1 .. Size
        BY <1>3, <1>4, <1>5, <2>1, BatchAssumption
      <3>2. \A j \in 1 .. Size : el'[j] = "reported"
        BY <3>1 DEF HasReported
      <3>3. \A j \in 1 .. Size : j \in ended'[1]
        BY <1>7, <3>2 DEF ElementsInv
      <3> QED BY <1>6, <3>1, <3>3
    <2>3. more => failed'[1] # 1 .. Size
      BY <1>12, <1>19
    <2>4. CASE ~here
      <3>1. /\ last' = [st |-> last'.st, failures |-> last'.failures, after |-> last'.after]
            /\ last'.st = "handed" /\ last'.failures = sorted /\ (last'.after <=> more)
            /\ last'.after \in BOOLEAN
        BY <1>13, <1>16, <1>21, <2>4
      <3>2. UNCHANGED <<heard, followed>>
        BY <1>16, <1>21, <2>4
      <3>3. GatherTypes'
        BY <1>t, <1>1, <1>6, <2>1, <3>1, <3>2 DEF GatherTypes
      <3>4. RendezvousInv'
        BY <1>3, <1>5, <2>1, <3>1 DEF RendezvousInv
      <3>5. WholeInv'
        BY <1>8, <1>11, <2>3, <3>1, <3>2 DEF WholeInv
      <3> QED BY <1>7, <3>2, <3>3, <3>4, <3>5 DEF GatherInv
    <2>5. CASE here
      <3>1. /\ last' = [st |-> last'.st, failures |-> last'.failures, after |-> last'.after]
            /\ last'.st = "ran" /\ last'.after \in BOOLEAN
        <4>1. last' = [st |-> "ran", failures |-> none, after |-> FALSE]
          BY <1>17, <1>21, <2>5
        <4>2. last'.st = "ran" /\ last'.failures = none /\ last'.after = FALSE
          BY <4>1
        <4> QED BY <4>1, <4>2
      <3>2. /\ heard' = IF sorted # none THEN [heard EXCEPT ![1] = sorted] ELSE heard
            /\ followed' = IF more THEN [followed EXCEPT ![1] = TRUE] ELSE followed
        BY <1>17, <1>21, <2>5
      <3>3. heard \in [{1} -> Seq(Nat)] /\ followed \in [{1} -> BOOLEAN]
        BY <1>t DEF GatherTypes
      <3>4. heard' \in [{1} -> Seq(Nat)] /\ followed' \in [{1} -> BOOLEAN]
        BY <1>11, <3>2, <3>3
      <3>5. GatherTypes'
        BY <1>t, <1>1, <1>6, <2>1, <3>1, <3>4 DEF GatherTypes
      <3>6. RendezvousInv'
        BY <1>3, <1>5, <2>1, <3>1 DEF RendezvousInv
      <3>7. WholeInv'
        BY <3>1 DEF WholeInv
      <3>8. S!React(1) \/ UNCHANGED heard
        <4> SUFFICES ASSUME sorted # none PROVE S!React(1)
          BY <3>2
        <4>1. heard' = [heard EXCEPT ![1] = sorted] /\ heard'[1] = sorted
          BY <3>2, <3>3
        <4>2. S!InOrder(sorted, failed'[1])
          BY <1>11 DEF S!InOrder, S!ToSet, ToSet, Rising
        <4>3. failed'[1] # {}
          <5>1. Len(sorted) # 0 /\ DOMAIN sorted = 1 .. Len(sorted) /\ Len(sorted) \in Nat
            BY <1>11 DEF none
          <5>2. 1 \in DOMAIN sorted
            BY <5>1
          <5> QED BY <1>11, <5>2 DEF ToSet
        <4> QED BY <1>8, <2>2, <4>1, <4>2, <4>3 DEF S!React
      <3>9. S!Follow(1) \/ UNCHANGED followed
        BY <1>8, <2>2, <2>3, <3>2 DEF S!Follow
      <3> QED BY <1>7, <3>5, <3>6, <3>7, <3>8, <3>9 DEF GatherInv
    <2> QED BY <2>4, <2>5
  <1> QED BY <1>20, <1>21

\* A step after which the elements have reported what they had.
LEMMA NoReportKeeps ==
  ASSUME GatherInv, NEW i \in 1 .. Size, NEW place \in {"sending", "waiting", "leaving", "told"},
         el[i] \notin {"told", "reported"}, G!Move(i, place), at' \in Nat,
         UNCHANGED <<gathered, last, heard, followed, failed>>,
         ended' = IF place = "told" THEN [ended EXCEPT ![1] = @ \cup {i}] ELSE ended
  PROVE  GatherInv'
  <1>t. GatherTypes /\ ElementsInv /\ RendezvousInv /\ WholeInv
    BY DEF GatherInv
  <1>1. /\ el' \in [1 .. Size -> {"todo", "sending", "waiting", "leaving", "told", "reported"}]
        /\ el'[i] = place /\ \A j \in 1 .. Size : j # i => el'[j] = el[j]
    BY <1>t DEF G!Move, GatherTypes
  <1>2. HasReported' = HasReported
    BY <1>1 DEF HasReported
  <1>3. /\ ended' \in [{1} -> SUBSET (1 .. Size)]
        /\ ended'[1] = IF place = "told" THEN ended[1] \cup {i} ELSE ended[1]
    BY <1>t DEF GatherTypes
  <1>4. GatherTypes'
    BY <1>t, <1>1, <1>3 DEF GatherTypes
  <1>5. ElementsInv'
    BY <1>t, <1>1, <1>3 DEF ElementsInv
  <1>6. gathered.sent /\ gathered.pending > 0 =>
          \E j \in 1 .. Size : el'[j] = "reported" /\ j \notin failed'[1]
    BY <1>t, <1>1 DEF RendezvousInv
  <1>7. RendezvousInv'
    BY <1>t, <1>2, <1>6 DEF RendezvousInv
  <1>8. WholeInv'
    BY <1>t DEF WholeInv
  <1> QED BY <1>4, <1>5, <1>7, <1>8 DEF GatherInv

\* The whole runs when the host polls it.
LEMMA LastPolledKeeps ==
  ASSUME GatherInv, G!LastPolled
  PROVE  /\ GatherInv'
         /\ S!React(1) \/ UNCHANGED heard
         /\ S!Follow(1) \/ UNCHANGED followed
  <1>t. GatherTypes /\ ElementsInv /\ RendezvousInv /\ WholeInv
    BY DEF GatherInv
  <1> DEFINE none == << >>
             f == last.failures
  <1>1. /\ last.st = "handed"
        /\ heard' = IF f # none THEN [heard EXCEPT ![1] = f] ELSE heard
        /\ followed' = IF last.after THEN [followed EXCEPT ![1] = TRUE] ELSE followed
        /\ last' = [st |-> "ran", failures |-> none, after |-> FALSE]
        /\ UNCHANGED <<at, el, gathered, ended, failed>>
    BY DEF G!LastPolled, G!Run, G!NoLast
  <1>2. /\ f \in Seq(Nat) /\ ToSet(f) = failed[1] /\ Rising(f)
        /\ last.after => failed[1] # 1 .. Size
        /\ heard[1] = << >> /\ ~followed[1]
    BY <1>t, <1>1 DEF WholeInv
  <1>3. f # none => failed[1] # {}
    <2> HIDE DEF f
    <2> SUFFICES ASSUME f # none PROVE failed[1] # {}
      OBVIOUS
    <2>1. Len(f) # 0 /\ DOMAIN f = 1 .. Len(f) /\ Len(f) \in Nat
      BY <1>2
    <2>2. 1 \in DOMAIN f
      BY <2>1
    <2> QED BY <1>2, <2>2 DEF ToSet
  <1>4. S!InOrder(f, failed[1])
    BY <1>2 DEF S!InOrder, S!ToSet, ToSet, Rising
  <1> HIDE DEF none, f
  <1>5. /\ heard \in [{1} -> Seq(Nat)] /\ followed \in [{1} -> BOOLEAN]
        /\ heard' \in [{1} -> Seq(Nat)] /\ followed' \in [{1} -> BOOLEAN]
    BY <1>t, <1>1, <1>2 DEF GatherTypes
  <1>6. /\ last' = [st |-> last'.st, failures |-> last'.failures, after |-> last'.after]
        /\ last'.st = "ran" /\ last'.after \in BOOLEAN
    <2>1. last'.st = "ran" /\ last'.failures = none /\ last'.after = FALSE
      BY <1>1
    <2> QED BY <1>1, <2>1
  <1>7. HasReported' = HasReported
    BY <1>1 DEF HasReported
  <1>8. ~(gathered.pending > 0) /\ gathered.pending = Size - Cardinality(HasReported)
    BY <1>t, <1>1 DEF RendezvousInv
  <1>9. ended[1] = 1 .. Size
    <2>1. IsFiniteSet(1 .. Size) /\ Cardinality(1 .. Size) = Size
      <3>1. 1 \in Int /\ Size \in Int /\ ~(1 > Size) /\ Size - 1 + 1 = Size
        BY BatchAssumption
      <3> QED BY <3>1, FS_Interval
    <2>2. HasReported \subseteq 1 .. Size /\ IsFiniteSet(HasReported)
      BY <1>t DEF HasReported, RendezvousInv
    <2>3. HasReported = 1 .. Size
      <3> HIDE DEF HasReported
      <3>1. Cardinality(HasReported) <= Size /\ Cardinality(HasReported) \in Nat
        BY <2>1, <2>2, FS_Subset, FS_CardinalityType
      <3>2. Cardinality(HasReported) = Size
        BY <1>8, <3>1, BatchAssumption
      <3> QED BY <2>1, <2>2, <3>2, FS_Subset
    <2>4. \A j \in 1 .. Size : j \in ended[1]
      BY <1>t, <2>3 DEF HasReported, ElementsInv
    <2> QED BY <1>t, <2>4 DEF GatherTypes
  <1>10. GatherTypes'
    BY <1>t, <1>1, <1>5, <1>6 DEF GatherTypes
  <1>11. ElementsInv'
    BY <1>t, <1>1 DEF ElementsInv
  <1>12. RendezvousInv'
    BY <1>t, <1>1, <1>6, <1>7, <1>8 DEF RendezvousInv
  <1>13. WholeInv'
    BY <1>6 DEF WholeInv
  <1>14. S!React(1) \/ UNCHANGED heard
    BY <1>1, <1>2, <1>3, <1>4, <1>5, <1>9 DEF S!React
  <1>15. S!Follow(1) \/ UNCHANGED followed
    BY <1>1, <1>2, <1>9 DEF S!Follow
  <1> QED BY <1>10, <1>11, <1>12, <1>13, <1>14, <1>15 DEF GatherInv

\* What a step of the outcome is, for the one of a rendezvous.
OutcomeStep(o) ==
  /\ (\E i \in 1 .. Size, ok \in BOOLEAN : S!End(o, i, ok)) \/ UNCHANGED <<ended, failed>>
  /\ S!React(o) \/ UNCHANGED heard
  /\ S!Follow(o) \/ UNCHANGED followed

\* The publish of an element ended, in the worker or in the store's driver.
LEMMA LeavesToHostKeeps ==
  ASSUME GatherInv, NEW i \in 1 .. Size, el[i] \notin {"told", "reported"}, G!LeavesToHost(i),
         at' \in Nat
  PROVE  GatherInv' /\ OutcomeStep(1)
  <1>1. i \notin ended[1]
    BY DEF GatherInv, ElementsInv
  <1>2. CASE /\ G!Move(i, "told") /\ G!Ends(i, TRUE)
             /\ UNCHANGED <<gathered, last, heard, followed>>
    <2>1. ended' = [ended EXCEPT ![1] = @ \cup {i}] /\ failed' = failed
      BY <1>2 DEF G!Ends
    <2>2. GatherInv'
      BY <1>2, <2>1, NoReportKeeps
    <2>3. S!End(1, i, TRUE)
      BY <1>1, <2>1 DEF S!End
    <2> QED BY <1>2, <2>2, <2>3 DEF OutcomeStep
  <1>3. CASE G!Move(i, "reported") /\ G!Ends(i, FALSE) /\ G!Report(i, FALSE, FALSE)
    <2>1. /\ ended' = [ended EXCEPT ![1] = @ \cup {i}]
          /\ failed' = IF FALSE THEN failed ELSE [failed EXCEPT ![1] = @ \cup {i}]
      BY <1>3 DEF G!Ends
    <2>2. GatherInv' /\ (S!React(1) \/ UNCHANGED heard) /\ (S!Follow(1) \/ UNCHANGED followed)
      BY <1>3, <2>1, ReportKeeps
    <2>3. S!End(1, i, FALSE)
      BY <1>1, <2>1 DEF S!End
    <2> QED BY <2>2, <2>3 DEF OutcomeStep
  <1> QED BY <1>2, <1>3 DEF G!LeavesToHost

LEMMA GatherStep ==
  ASSUME GatherInv, G!Next \/ UNCHANGED G!vars
  PROVE  GatherInv' /\ OutcomeStep(1)
  <1>t. GatherTypes /\ ElementsInv /\ RendezvousInv /\ WholeInv
    BY DEF GatherInv
  <1>1. CASE G!SettlesUnpublished
    <2>1. /\ at \in 1 .. Size /\ el[at] = "todo" /\ G!Move(at, "told") /\ at' = at + 1
          /\ UNCHANGED <<gathered, last, heard, followed>>
          /\ ended' = [ended EXCEPT ![1] = @ \cup {at}] /\ failed' = failed
      BY <1>1 DEF G!SettlesUnpublished, G!Settling, G!Elements, G!NextElement, G!Ends
    <2>2. at' \in Nat /\ at \notin ended[1]
      BY <1>t, <2>1 DEF GatherTypes, ElementsInv
    <2>3. GatherInv'
      BY <2>1, <2>2, NoReportKeeps
    <2>4. S!End(1, at, TRUE)
      BY <2>1, <2>2 DEF S!End
    <2> QED BY <2>1, <2>3, <2>4 DEF OutcomeStep
  <1>2. CASE G!Drops
    <2>1. /\ at \in 1 .. Size /\ el[at] = "todo"
          /\ UNCHANGED <<gathered, last, ended, failed, heard, followed>>
          /\ at' = at \/ at' = at + 1
      BY <1>2 DEF G!Drops, G!Settling, G!Elements, G!NextElement
    <2>2. PICK place \in {"sending", "waiting"} : G!Move(at, place)
      BY <1>2 DEF G!Drops
    <2>3. at' \in Nat
      BY <1>t, <2>1 DEF GatherTypes
    <2>4. GatherInv'
      BY <2>1, <2>2, <2>3, NoReportKeeps
    <2> QED BY <2>1, <2>4 DEF OutcomeStep
  <1>3. CASE G!Sent
    <2>1. at \in 1 .. Size /\ el[at] = "sending" /\ G!LeavesToHost(at) /\ at' = at + 1
      BY <1>3 DEF G!Sent, G!Settling, G!Elements, G!NextElement
    <2>2. at' \in Nat
      BY <1>t, <2>1 DEF GatherTypes
    <2> QED BY <2>1, <2>2, LeavesToHostKeeps
  <1>4. CASE G!LastPolled
    <2>1. UNCHANGED <<ended, failed>>
      BY <1>4 DEF G!LastPolled
    <2> QED BY <1>4, <2>1, LastPolledKeeps DEF OutcomeStep
  <1>5. CASE G!Abort \/ UNCHANGED G!vars
    <2>1. UNCHANGED <<at, el, gathered, last, ended, failed, heard, followed>>
      BY <1>5 DEF G!Abort, G!vars
    <2>2. GatherTypes' /\ ElementsInv' /\ WholeInv'
      BY <1>t, <2>1 DEF GatherTypes, ElementsInv, WholeInv
    <2>3. HasReported' = HasReported
      BY <2>1 DEF HasReported
    <2>4. RendezvousInv'
      BY <1>t, <2>1, <2>3 DEF RendezvousInv
    <2> QED BY <2>1, <2>2, <2>4 DEF GatherInv, OutcomeStep
  <1>6. ASSUME NEW i \in 1 .. Size, G!Due(i)
        PROVE  GatherInv' /\ OutcomeStep(1)
    <2>1. /\ el[i] = "waiting" /\ G!Move(i, "leaving")
          /\ UNCHANGED <<at, gathered, last, ended, failed, heard, followed>>
      BY <1>6 DEF G!Due
    <2>2. at' \in Nat
      BY <1>t, <2>1 DEF GatherTypes
    <2>3. GatherInv'
      BY <2>1, <2>2, NoReportKeeps
    <2> QED BY <2>1, <2>3 DEF OutcomeStep
  <1>7. ASSUME NEW i \in 1 .. Size, G!Leaves(i)
        PROVE  GatherInv' /\ OutcomeStep(1)
    <2>1. el[i] = "leaving" /\ at' = at
      BY <1>7 DEF G!Leaves
    <2>2. at' \in Nat /\ i \notin ended[1]
      BY <1>t, <2>1 DEF GatherTypes, ElementsInv
    <2>3. CASE G!LeavesToHost(i)
      BY <2>1, <2>2, <2>3, LeavesToHostKeeps
    <2>4. CASE \E ok \in BOOLEAN :
                 G!Move(i, "reported") /\ G!Ends(i, ok) /\ G!Report(i, ok, TRUE)
      <3>1. PICK ok \in BOOLEAN :
              G!Move(i, "reported") /\ G!Ends(i, ok) /\ G!Report(i, ok, TRUE)
        BY <2>4
      <3>2. /\ ended' = [ended EXCEPT ![1] = @ \cup {i}]
            /\ failed' = IF ok THEN failed ELSE [failed EXCEPT ![1] = @ \cup {i}]
        BY <3>1 DEF G!Ends
      <3>3. GatherInv' /\ (S!React(1) \/ UNCHANGED heard) /\ (S!Follow(1) \/ UNCHANGED followed)
        BY <2>1, <2>2, <3>1, <3>2, ReportKeeps
      <3>4. S!End(1, i, ok)
        BY <2>2, <3>2 DEF S!End
      <3> QED BY <3>3, <3>4 DEF OutcomeStep
    <2> QED BY <1>7, <2>3, <2>4 DEF G!Leaves
  <1>8. ASSUME NEW i \in 1 .. Size, G!Polled(i)
        PROVE  GatherInv' /\ OutcomeStep(1)
    <2>1. /\ el[i] = "told" /\ at' = at /\ G!Report(i, TRUE, TRUE) /\ G!Move(i, "reported")
          /\ ended' = ended /\ failed' = failed
      BY <1>8 DEF G!Polled
    <2>2. at' \in Nat /\ ended' = [ended EXCEPT ![1] = @ \cup {i}]
      <3>1. i \in ended[1] /\ ended \in [{1} -> SUBSET (1 .. Size)]
        BY <1>t, <2>1 DEF GatherTypes, ElementsInv
      <3> QED BY <1>t, <2>1, <3>1 DEF GatherTypes
    <2>3. failed' = IF TRUE THEN failed ELSE [failed EXCEPT ![1] = @ \cup {i}]
      BY <2>1
    <2>4. GatherInv' /\ (S!React(1) \/ UNCHANGED heard) /\ (S!Follow(1) \/ UNCHANGED followed)
      BY <2>1, <2>2, <2>3, ReportKeeps
    <2> QED BY <2>1, <2>4 DEF OutcomeStep
  <1> QED
    BY <1>1, <1>2, <1>3, <1>4, <1>5, <1>6, <1>7, <1>8
    DEF G!Next, G!Worker, G!Task, G!Elements

\* The rendezvous counts the elements that have not reported.
LEMMA GatherWaits ==
  ASSUME GatherInv
  PROVE  G!GatherCounts
  <1>1. G!Cardinality(HasReported) = Cardinality(HasReported)
    BY DEF G!Cardinality, Cardinality, G!IsFiniteSet, IsFiniteSet
  <1>2. \A u : G!ToSet(u) = ToSet(u)
    BY DEF G!ToSet, ToSet
  <1>3. {i \in 1 .. Size : el[i] = "reported"} = HasReported
    BY DEF HasReported
  <1>4. failed[1] = failed[1] \cap HasReported
    BY DEF GatherInv, GatherTypes, ElementsInv, HasReported
  <1>5. RendezvousInv
    BY DEF GatherInv
  <1> HIDE DEF HasReported
  <1> QED BY <1>1, <1>2, <1>3, <1>4, <1>5 DEF G!GatherCounts, G!Elements, RendezvousInv

-----------------------------------------------------------------------------
(* A step of the fan is a step of the outcome it gathers, or of none. *)

\* The fan's outcome is one of those the worker has begun.
LEMMA GatheredOutcome ==
  ASSUME FanInv, fan.error # 0
  PROVE  /\ fan.error \in 1 .. MaxOutcomes
         /\ heard[fan.error] = << >> /\ ~followed[fan.error]
         /\ failed[fan.error] \subseteq ended[fan.error]
         /\ ended[fan.error] \subseteq 1 .. Size
         /\ \A i \in 1 .. Size : i \in ended[fan.error] <=> ~Left(i)
         /\ ToSet(fan.order) = {i \in failed[fan.error] : ~Unreported(i)}
         /\ fan.sent => failed[fan.error] # ended[fan.error]
         /\ fan.then \in {0, fan.error}
  <1>t. FanTypes /\ FanControl /\ GatheredInv
    BY DEF FanInv
  <1>1. /\ wk.o \in Nat /\ wk.o <= MaxOutcomes /\ MaxOutcomes \in Nat
        /\ ended \in [1 .. MaxOutcomes -> SUBSET (1 .. Size)]
    BY <1>t, BatchAssumption DEF FanTypes, FanControl
  <1>2. fan.error \in 1 .. wk.o
    BY <1>t DEF GatheredInv
  <1>3. fan.error \in 1 .. MaxOutcomes
    BY <1>1, <1>2
  <1>4. ended[fan.error] \subseteq 1 .. Size
    BY <1>1, <1>3
  <1> QED BY <1>t, <1>3, <1>4 DEF GatheredInv

\* The report that ends the outcome runs its .error on every failure and its .then after a success.
LEMMA LastReport ==
  ASSUME FanInv, NEW a \in F!Actors, NEW told \in Reports, NEW order, NEW sent, NEW error,
         NEW then, Reported(a, told, order, sent, error, then), fan.pending = 1, fan.error # 0,
         ended'[fan.error] = 1 .. Size, ToSet(order) = failed'[fan.error],
         sent => failed'[fan.error] # 1 .. Size
  PROVE  /\ S!React(fan.error) \/ UNCHANGED heard
         /\ S!Follow(fan.error) \/ UNCHANGED followed
  <1> DEFINE o == fan.error
  <1>1. /\ o \in 1 .. MaxOutcomes /\ heard[o] = << >> /\ ~followed[o] /\ fan.then \in {0, o}
    BY GatheredOutcome
  <1>2. /\ heard \in [1 .. MaxOutcomes -> Seq(Nat)] /\ followed \in [1 .. MaxOutcomes -> BOOLEAN]
    BY DEF FanInv, FanTypes
  <1>3. /\ order \in Seq(Nat) /\ Rising(order)
        /\ error = IF order # << >> THEN o ELSE 0
        /\ then = IF sent THEN fan.then ELSE 0
        /\ heard' = IF error # 0 THEN [heard EXCEPT ![error] = order] ELSE heard
        /\ followed' = IF then # 0 THEN [followed EXCEPT ![then] = TRUE] ELSE followed
    BY DEF Reported
  <1>4. o # 0 /\ ended'[o] = 1 .. Size /\ ToSet(order) = failed'[o]
        /\ (sent => failed'[o] # 1 .. Size)
    OBVIOUS
  <1> HIDE DEF o
  <1>5. S!React(o) \/ UNCHANGED heard
    <2>1. CASE order = << >>
      BY <1>3, <2>1
    <2>2. CASE order # << >>
      <3>1. heard' = [heard EXCEPT ![o] = order]
        BY <1>3, <1>4, <2>2
      <3>2. heard'[o] = order
        BY <1>1, <1>2, <3>1
      <3>3. Len(order) # 0 /\ DOMAIN order = 1 .. Len(order) /\ Len(order) \in Nat
        BY <1>3, <2>2
      <3>4. 1 \in DOMAIN order
        BY <3>3
      <3>5. failed'[o] # {}
        BY <1>4, <3>4 DEF ToSet
      <3>6. S!InOrder(order, failed'[o])
        BY <1>3, <1>4 DEF S!InOrder, S!ToSet, ToSet, Rising
      <3> QED BY <1>1, <1>4, <3>1, <3>2, <3>5, <3>6 DEF S!React
    <2> QED BY <2>1, <2>2
  <1>6. S!Follow(o) \/ UNCHANGED followed
    BY <1>1, <1>3, <1>4 DEF S!Follow
  <1> QED BY <1>5, <1>6 DEF o

\* An element that ends in the worker's hands.
LEMMA WorkerImplements ==
  ASSUME FanInv, wk.st \in Working, wk.shared, NEW ok \in BOOLEAN, F!EndsHere(ok)
  PROVE  wk.o \in 1 .. MaxOutcomes /\ OutcomeStep(wk.o)
  <1>t. /\ FanTypes /\ FanControl /\ PartsInv /\ CountInv
    BY DEF FanInv
  <1> DEFINE told == [p |-> F!Mine, ok |-> ok]
             o == wk.o
             i == wk.i
  <1>1. /\ On /\ F!Mine = [o |-> wk.o, i |-> wk.i] /\ F!Mine # F!NoPart /\ fan.error = wk.o
        /\ wk.i \notin ended[wk.o] /\ fan.pending > 0 /\ wk.o \in 1 .. MaxOutcomes
    BY WorkerReports
  <1>2. PICK order, sent, error, then : Reported("worker", told, order, sent, error, then)
    BY WorkerReports
  <1>3. /\ Size \in Nat /\ wk.i \in 1 .. Size /\ wk.i \in Nat /\ wk.o \in Nat /\ MaxOutcomes \in Nat
        /\ wk.o # 0 /\ fan.pending \in Nat
    BY <1>t, <1>1, BatchAssumption DEF FanTypes, FanControl, Working
  <1>4. told \in Reports /\ told.p.i = wk.i /\ told.ok = ok /\ "worker" \in F!Actors
    BY <1>1, <1>3 DEF Reports, Parts, F!Actors
  <1> HIDE DEF told
  <1>5. /\ ended' = [ended EXCEPT ![o] = @ \cup {i}]
        /\ failed' = IF ok THEN failed ELSE [failed EXCEPT ![o] = @ \cup {i}]
    <2>1. F!Ends(F!Mine, ok)
      BY DEF F!EndsHere
    <2>2. F!Mine.o = wk.o /\ F!Mine.i = wk.i
      BY <1>1
    <2> QED BY <1>1, <2>1, <2>2 DEF F!Ends
  <1>6. /\ ended'[o] = ended[o] \cup {i}
        /\ failed'[o] = IF ok THEN failed[o] ELSE failed[o] \cup {i}
    BY <1>t, <1>1, <1>5 DEF FanTypes
  <1>7. S!End(o, i, ok)
    BY <1>1, <1>3, <1>5 DEF S!End
  <1>8. CASE fan.pending # 1
    <2>1. heard' = heard /\ followed' = followed
      BY <1>1, <1>2, <1>4, <1>8, ReportedFan
    <2> QED BY <1>1, <1>3, <1>7, <2>1 DEF OutcomeStep
  <1>9. CASE fan.pending = 1
    <2>1. /\ fan.pending = Cardinality(F!OnTheWay) + F!Unsettled /\ F!Unsettled \in Nat
          /\ Cardinality(F!OnTheWay) \in Nat /\ F!Unsettled > 0 /\ F!Unsettled = Size + 1 - wk.i
          /\ F!OnTheWay # {} => Cardinality(F!OnTheWay) > 0
      BY <1>t, <1>1, CountFacts DEF CountInv
    <2>2. F!OnTheWay = {} /\ wk.i = Size
      BY <1>3, <1>9, <2>1
    <2>3. /\ \A r \in 1 .. Store : rec[r].part = F!NoPart
          /\ slot.p = F!NoPart /\ pub.told.p = F!NoPart
      BY <2>2 DEF F!OnTheWay, F!Under, F!Records
    <2>4. \A j \in Nat : F!Part(o, j) # F!NoPart
      BY <1>3 DEF F!Part, F!NoPart
    <2>5. /\ fan.error # 0 /\ failed[o] \subseteq ended[o] /\ ended[o] \subseteq 1 .. Size
          /\ \A j \in 1 .. Size : j \in ended[o] <=> ~Left(j)
          /\ ToSet(fan.order) = {j \in failed[o] : ~Unreported(j)}
          /\ fan.sent => failed[o] # ended[o]
      BY <1>1, <1>3, GatheredOutcome
    <2>6. \A j \in 1 .. Size : j \in Nat /\ (j = wk.i \/ ~(wk.i <= j))
      BY <1>3, <2>2
    <2>7. \A j \in 1 .. Size : j = wk.i \/ ~Left(j)
      <3> HIDE DEF On
      <3> QED BY <1>1, <2>3, <2>4, <2>6 DEF Left
    <2>8. \A j \in Nat : ~Unreported(j)
      BY <1>1, <2>3, <2>4 DEF Unreported
    <2>9. ended'[o] = 1 .. Size
      BY <1>3, <1>6, <2>5, <2>7
    <2>10. ToSet(fan.order) = failed[o]
      BY <2>5, <2>6, <2>8
    <2>11. ToSet(order) = failed'[o]
      BY <1>2, <1>4, <1>6, <2>10 DEF Reported
    <2>12. sent => failed'[o] # 1 .. Size
      <3>1. sent <=> fan.sent \/ ok
        BY <1>2, <1>4 DEF Reported
      <3> QED BY <1>1, <1>3, <1>6, <2>5, <2>9, <3>1
    <2>13. /\ S!React(fan.error) \/ UNCHANGED heard
           /\ S!Follow(fan.error) \/ UNCHANGED followed
      BY <1>1, <1>2, <1>4, <1>9, <2>5, <2>9, <2>11, <2>12, LastReport
    <2> QED BY <1>1, <1>3, <1>7, <2>13 DEF OutcomeStep
  <1> QED BY <1>8, <1>9

\* A report of the store's driver.
LEMMA ReporterImplements ==
  ASSUME FanInv, F!Takes
  PROVE  fan.error \in 1 .. MaxOutcomes /\ OutcomeStep(fan.error)
  <1>t. /\ FanTypes /\ FanControl /\ OnePlace /\ PartsInv /\ CountInv /\ GatheredInv
    BY DEF FanInv
  <1> DEFINE o == fan.error
             p == slot.p
  <1>1. /\ slot.p \in F!OnTheWay /\ slot.p # F!NoPart /\ fan.pending > 0 /\ fan.error # 0
        /\ slot.p.o = fan.error /\ slot.p.i \in 1 .. Size
    BY ReporterReports
  <1>2. PICK order, sent, error, then : Reported("reporter", slot, order, sent, error, then)
    BY ReporterReports
  <1>3. UNCHANGED <<ended, failed>>
    BY DEF F!Takes
  <1>4. /\ slot \in Reports /\ slot.p \in Parts /\ slot.ok \in BOOLEAN /\ "reporter" \in F!Actors
        /\ fan.error \in Nat /\ fan.pending \in Nat
    BY <1>t DEF FanTypes, Reports, F!Actors
  <1>5. /\ fan.error \in 1 .. MaxOutcomes
        /\ failed[o] \subseteq ended[o] /\ ended[o] \subseteq 1 .. Size
        /\ \A j \in 1 .. Size : j \in ended[o] <=> ~Left(j)
        /\ ToSet(fan.order) = {j \in failed[o] : ~Unreported(j)}
        /\ fan.sent => failed[o] # ended[o]
    BY <1>1, GatheredOutcome
  <1>6. CASE fan.pending # 1
    <2>1. heard' = heard /\ followed' = followed
      BY <1>1, <1>2, <1>4, <1>6, ReportedFan
    <2> QED BY <1>3, <1>5, <2>1 DEF OutcomeStep
  <1>7. CASE fan.pending = 1
    <2>1. /\ fan.pending = Cardinality(F!OnTheWay) + F!Unsettled /\ F!Unsettled \in Nat
          /\ Cardinality(F!OnTheWay) \in Nat /\ Cardinality(F!OnTheWay) > 0
          /\ On => F!Unsettled > 0
      BY <1>t, <1>1, CountFacts DEF CountInv
    <2>2. Cardinality(F!OnTheWay) = 1 /\ ~On
      <3> HIDE DEF On
      <3> QED BY <1>7, <2>1
    <2>3. F!OnTheWay = {slot.p}
      <3>1. IsFiniteSet(F!OnTheWay)
        BY <1>t DEF CountInv
      <3>2. /\ IsFiniteSet(F!OnTheWay \ {slot.p})
            /\ Cardinality(F!OnTheWay \ {slot.p}) = Cardinality(F!OnTheWay) - 1
        BY <1>1, <3>1, FS_RemoveElement
      <3>3. Cardinality(F!OnTheWay \ {slot.p}) = 0
        BY <2>2, <3>2
      <3>4. F!OnTheWay \ {slot.p} = {}
        BY <3>2, <3>3, FS_EmptySet
      <3> QED BY <1>1, <3>4
    <2>4. \A r \in 1 .. Store : rec[r].part = F!NoPart
      <3> SUFFICES ASSUME NEW r \in 1 .. Store, rec[r].part # F!NoPart PROVE FALSE
        OBVIOUS
      <3>1. rec[r].part \in F!OnTheWay
        BY DEF F!OnTheWay, F!Under, F!Records
      <3> QED BY <1>t, <2>3, <3>1 DEF OnePlace
    <2>5. pub.told.p = F!NoPart
      <3> SUFFICES ASSUME pub.told.p # F!NoPart PROVE FALSE
        OBVIOUS
      <3>1. pub.told.p \in F!OnTheWay
        BY DEF F!OnTheWay, F!Under
      <3> QED BY <1>t, <1>1, <2>3, <3>1 DEF OnePlace
    <2>6. \A j \in Nat : F!Part(o, j) # F!NoPart /\ (F!Part(o, j) = p <=> j = p.i)
      BY <1>1, <1>4 DEF F!Part, F!NoPart, Parts
    <2>7. \A j \in 1 .. Size : j \in Nat
      BY BatchAssumption
    <2>8. \A j \in 1 .. Size : ~Left(j)
      <3> HIDE DEF On
      <3> QED BY <2>2, <2>4, <2>6, <2>7 DEF Left
    <2>9. \A j \in Nat : Unreported(j) <=> j = p.i
      BY <2>5, <2>6 DEF Unreported
    <2>10. ended[o] = 1 .. Size
      BY <1>5, <2>8
    <2>11. slot.ok <=> p.i \notin failed[o]
      BY <1>t, <1>1 DEF GatheredInv
    <2>12. failed[o] \subseteq Nat
      BY <1>5, <2>7
    <2>13. ToSet(order) = failed[o]
      <3>1. ToSet(order) = ToSet(fan.order) \cup (IF slot.ok THEN {} ELSE {p.i})
        BY <1>2 DEF Reported
      <3> QED BY <1>5, <2>9, <2>11, <2>12, <3>1
    <2>14. sent => failed[o] # 1 .. Size
      <3>1. sent <=> fan.sent \/ slot.ok
        BY <1>2 DEF Reported
      <3> QED BY <1>1, <1>5, <2>10, <2>11, <3>1
    <2>15. /\ S!React(fan.error) \/ UNCHANGED heard
           /\ S!Follow(fan.error) \/ UNCHANGED followed
      BY <1>1, <1>2, <1>3, <1>4, <1>7, <2>10, <2>13, <2>14, LastReport
    <2> QED BY <1>3, <1>5, <2>15 DEF OutcomeStep
  <1> QED BY <1>6, <1>7

\* A due copy that left, or did not.
LEMMA PublishedImplements ==
  ASSUME FanInv, F!Published
  PROVE  UNCHANGED F!outcomeVars \/ \E o \in 1 .. MaxOutcomes : OutcomeStep(o)
  <1>t. FanTypes /\ FanControl /\ PartsInv
    BY DEF FanInv
  <1> DEFINE p == rec[pub.r].part
  <1>1. PICK ok \in BOOLEAN : F!Ends(p, ok)
    BY DEF F!Published
  <1>2. heard' = heard /\ followed' = followed /\ pub.r \in 1 .. Store
    BY <1>t DEF F!Published, FanControl
  <1>3. CASE p = F!NoPart
    BY <1>1, <1>2, <1>3 DEF F!Ends, F!outcomeVars
  <1>4. CASE p # F!NoPart
    <2>1. p \in F!OnTheWay /\ p \in Parts
      BY <1>t, <1>2, <1>4 DEF F!OnTheWay, F!Under, F!Records, FanTypes
    <2>2. p.o = fan.error /\ p.i \in 1 .. Size
      BY <1>t, <2>1 DEF PartsInv
    <2>3. fan.error # 0
      BY <1>t, <2>1, CountFacts DEF CountInv, FanInv
    <2>4. p = F!Part(fan.error, p.i)
      BY <2>1, <2>2 DEF Parts, F!Part
    <2>5. Left(p.i)
      BY <1>2, <2>4 DEF Left
    <2>6. p.o \in 1 .. MaxOutcomes /\ p.i \notin ended[p.o]
      BY <2>2, <2>3, <2>5, GatheredOutcome
    <2>7. S!End(p.o, p.i, ok)
      BY <1>1, <1>4, <2>2, <2>6 DEF F!Ends, S!End
    <2> HIDE DEF p
    <2>8. OutcomeStep(p.o)
      BY <1>2, <2>2, <2>7 DEF OutcomeStep
    <2> QED BY <2>6, <2>8
  <1> QED BY <1>3, <1>4

LEMMA FanImplements ==
  ASSUME FanInv, F!Next \/ UNCHANGED F!vars
  PROVE  UNCHANGED F!outcomeVars \/ \E o \in 1 .. MaxOutcomes : OutcomeStep(o)
  <1>1. CASE F!SettlesUnpublished \/ F!Sent \/ F!FindsFull \/ F!DropFails
    <2>1. wk.st \in Working
      BY <1>1 DEF F!SettlesUnpublished, F!Sent, F!FindsFull, F!DropFails, F!WorkerIn, Working
    <2>2. PICK ok \in BOOLEAN : F!EndsHere(ok)
      BY <1>1 DEF F!SettlesUnpublished, F!Sent, F!FindsFull, F!DropFails
    <2>3. CASE wk.shared
      <3>1. wk.o \in 1 .. MaxOutcomes /\ OutcomeStep(wk.o)
        BY <2>1, <2>2, <2>3, WorkerImplements
      <3> QED BY <3>1
    <2>4. CASE ~wk.shared
      BY <2>2, <2>4 DEF F!EndsHere, F!Ends, F!Mine, F!outcomeVars
    <2> QED BY <2>3, <2>4
  <1>2. CASE F!Published
    BY <1>2, PublishedImplements
  <1>3. CASE F!Takes
    <2>1. fan.error \in 1 .. MaxOutcomes /\ OutcomeStep(fan.error)
      BY <1>3, ReporterImplements
    <2> QED BY <2>1
  <1>4. CASE \/ F!Returns \/ F!Stops \/ F!Begin \/ F!Prepares \/ F!Arms \/ F!SendsNow
             \/ F!PublishesDue \/ F!Gives \/ F!PublishingEnds \/ F!ReporterEnds
             \/ (\E a \in F!Actors : F!ReactEnds(a) \/ F!FollowEnds(a)) \/ UNCHANGED F!vars
    BY <1>4
    DEF F!Returns, F!Stops, F!Begin, F!Prepares, F!Arms, F!SendsNow, F!PublishesDue, F!Gives,
        F!PublishingEnds, F!ReporterEnds, F!ReactEnds, F!FollowEnds, F!vars, F!outcomeVars
  <1> QED
    BY <1>1, <1>2, <1>3, <1>4 DEF F!Next, F!WorkerStep, F!Driver, F!Reporter

-----------------------------------------------------------------------------
(* The theorems. *)

\* The invariant of the build with a heap or of the one without.
SharedInv ==
  /\ kind = "fan" => FanInv
  /\ kind = "gather" => GatherInv
  /\ kind = "single" => NoOutcome

LEMMA SharedInitially ==
  ASSUME InitSettle
  PROVE  SharedInv
  <1>1. CASE kind = "single" /\ NoOutcome
    BY <1>1 DEF SharedInv
  <1>2. CASE kind = "fan" /\ F!Init
    BY <1>2, FanInitially DEF SharedInv
  <1>3. CASE kind = "gather" /\ G!Init
    BY <1>3, GatherInitially DEF SharedInv
  <1> QED BY <1>1, <1>2, <1>3 DEF InitSettle

\* A step of one kind is a step of its component, or leaves it alone.
LEMMA KindSteps ==
  ASSUME SharedInv, NextSettle \/ UNCHANGED settleVars
  PROVE  /\ kind' = kind
         /\ kind = "fan" => F!Next \/ UNCHANGED F!vars
         /\ kind = "gather" => G!Next \/ UNCHANGED G!vars
         /\ kind \notin {"fan", "gather"} => UNCHANGED outcomeOnly
  <1>1. CASE OfSingle(Next)
    BY <1>1 DEF OfSingle
  <1>2. CASE OfFan(F!Next)
    BY <1>2 DEF OfFan
  <1>3. CASE OfGather(G!Next)
    BY <1>3 DEF OfGather
  <1>4. CASE UNCHANGED settleVars
    BY <1>4 DEF settleVars, fanOnly, gatherOnly, outcomeOnly, F!vars, G!vars
  <1> QED BY <1>1, <1>2, <1>3, <1>4 DEF NextSettle

LEMMA SharedStep ==
  ASSUME SharedInv, NextSettle \/ UNCHANGED settleVars
  PROVE  SharedInv'
  <1>1. /\ kind' = kind
        /\ kind = "fan" => F!Next \/ UNCHANGED F!vars
        /\ kind = "gather" => G!Next \/ UNCHANGED G!vars
        /\ kind \notin {"fan", "gather"} => UNCHANGED outcomeOnly
    BY KindSteps
  <1>2. kind = "fan" => FanInv'
    BY <1>1, FanStep DEF SharedInv
  <1>3. kind = "gather" => GatherInv'
    BY <1>1, GatherStep DEF SharedInv
  <1>4. kind = "single" => NoOutcome'
    BY <1>1 DEF SharedInv, NoOutcome, outcomeOnly
  <1> QED BY <1>1, <1>2, <1>3, <1>4 DEF SharedInv

\* A step of either build is a step of one outcome.
LEMMA SharedSimulates ==
  ASSUME SharedInv, NextSettle \/ UNCHANGED settleVars
  PROVE  S!Next \/ UNCHANGED S!vars
  <1>1. /\ kind = "fan" => F!Next \/ UNCHANGED F!vars
        /\ kind = "gather" => G!Next \/ UNCHANGED G!vars
        /\ kind \notin {"fan", "gather"} => UNCHANGED outcomeOnly
    BY KindSteps
  <1>2. \A o : OutcomeStep(o) <=> S!Step(o)
    BY DEF OutcomeStep, S!Step
  <1>3. CASE kind = "fan"
    <2>1. FanInv /\ DOMAIN ended = 1 .. MaxOutcomes
      BY <1>3 DEF SharedInv, FanInv, FanTypes
    <2>2. UNCHANGED F!outcomeVars \/ \E o \in 1 .. MaxOutcomes : OutcomeStep(o)
      BY <1>1, <1>3, <2>1, FanImplements
    <2> QED BY <1>2, <2>1, <2>2 DEF F!outcomeVars, S!vars, S!Next, S!Outcomes
  <1>4. CASE kind = "gather"
    <2>1. GatherInv /\ DOMAIN ended = {1}
      BY <1>4 DEF SharedInv, GatherInv, GatherTypes
    <2>2. OutcomeStep(1)
      BY <1>1, <1>4, <2>1, GatherStep
    <2> QED BY <1>2, <2>1, <2>2 DEF S!Next, S!Outcomes
  <1>5. CASE kind \notin {"fan", "gather"}
    BY <1>1, <1>5 DEF outcomeOnly, S!vars
  <1> QED BY <1>3, <1>4, <1>5

LEMMA OutcomeInitially ==
  ASSUME InitSettle
  PROVE  S!Init
  <1>1. CASE NoOutcome
    BY <1>1 DEF NoOutcome, S!Init, S!Outcomes
  <1>2. CASE F!Init
    <2>1. DOMAIN ended = 1 .. MaxOutcomes
      BY <1>2 DEF F!Init, F!Outcomes
    <2> QED BY <1>2, <2>1 DEF F!Init, F!Outcomes, S!Init, S!Outcomes
  <1>3. CASE G!Init
    <2>1. DOMAIN ended = {1}
      BY <1>3 DEF G!Init, G!Outcomes
    <2> QED BY <1>3, <2>1 DEF G!Init, G!Outcomes, S!Init, S!Outcomes
  <1> QED BY <1>1, <1>2, <1>3 DEF InitSettle

\* Whatever the size of the batch and of the store: the fan holds the outcome of every part on
\* its way (fixed.rs names no outcome in a part) and waits for exactly these, and the rendezvous
\* of boxed.rs for the elements that have not reported.
THEOREM EveryPartIsTold == SafeSettle => []ReportsReachTheirOutcome
<1>1. InitSettle => SharedInv
  BY SharedInitially
<1>2. SharedInv /\ [NextSettle]_settleVars => SharedInv'
  BY SharedStep
<1>3. SharedInv => ReportsReachTheirOutcome
  BY FanGathers, GatherWaits DEF SharedInv, ReportsReachTheirOutcome
<1> QED BY <1>1, <1>2, <1>3, PTL DEF SafeSettle

\* Both builds keep what an outcome for a batch promises: its .error runs at most once, after the
\* last publish and on every failure in the order of the batch, its .then at most once and only
\* when an element had no failed publish: its copy went out, or it made none.
THEOREM OutcomesImplemented == SafeSettle => ImplementsOutcome
<1>1. InitSettle => SharedInv /\ S!Init
  BY SharedInitially, OutcomeInitially
<1>2. SharedInv /\ [NextSettle]_settleVars => SharedInv'
  BY SharedStep
<1>3. SharedInv /\ [NextSettle]_settleVars => [S!Next]_S!vars
  BY SharedSimulates
<1> QED BY <1>1, <1>2, <1>3, PTL DEF SafeSettle, ImplementsOutcome, S!Spec
=============================================================================
