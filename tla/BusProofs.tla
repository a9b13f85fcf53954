----------------------------- MODULE BusProofs -----------------------------
(***************************************************************************)
(* What the bus of the in-memory broker guarantees whatever the            *)
(* subscriptions, names, transactions, requests and retention bounds: of   *)
(* two different patterns that match one name one is the more specific,    *)
(* the fan-out over the registry reaches exactly the subscriptions the     *)
(* harness's rule picks and has one winner under MostSpecific, the bus     *)
(* sees of a transaction a prefix of what was published into it, a request *)
(* is answered by a reply to itself and leaves nothing behind, and every   *)
(* log is the longest end of its history that fits its bounds.             *)
(***************************************************************************)
EXTENDS MemoryBus, WellFoundedInduction, SequenceTheorems, FiniteSetTheorems, TLAPS

(***************************************************************************)
(* Patterns: MostSpecific has exactly one winner, whatever the patterns,   *)
(* the name and the order the subscriptions were opened in                 *)
(***************************************************************************)
\* What distinguishes two tokens that both match a part of a name: their ranks.
LEMMA RankTells ==
  ASSUME NEW left \in STRING, NEW right \in STRING, NEW part,
         left # ">" => TokenMatches(left, part),
         right # ">" => TokenMatches(right, part),
         left # right
  PROVE  Rank(left) \in 0 .. 2 /\ Rank(right) \in 0 .. 2 /\ Rank(left) # Rank(right)
<1>1. CASE left = ">"
  <2>1. CASE right = "*" BY <1>1, <2>1 DEF Rank
  <2>2. CASE right \notin {">", "*"} BY <1>1, <2>2 DEF Rank
  <2> QED BY <1>1, <2>1, <2>2
<1>2. CASE left = "*"
  <2>1. CASE right = ">" BY <1>2, <2>1 DEF Rank
  <2>2. CASE right \notin {">", "*"} BY <1>2, <2>2 DEF Rank
  <2> QED BY <1>2, <2>1, <2>2
<1>3. CASE left \notin {">", "*"}
  <2>1. CASE right \in {">", "*"} BY <1>3, <2>1 DEF Rank
  <2>2. CASE right \notin {">", "*"} BY <1>3, <2>2 DEF TokenMatches
  <2> QED BY <2>1, <2>2
<1> QED BY <1>1, <1>2, <1>3

\* A token of a matching pattern that is not `>` matches the name's part at its place.
LEMMA TokenAt ==
  ASSUME NEW text \in Texts, NEW name \in Texts, Matches(text, name),
         NEW i \in 1 .. Len(text), text[i] # ">"
  PROVE  TokenMatches(text[i], name[i])
<1> DEFINE own == IF text[Len(text)] = ">" THEN Len(text) - 1 ELSE Len(text)
<1>1. \A k \in 1 .. own : TokenMatches(text[k], name[k]) BY Zenon DEF Matches
<1>2. Len(text) \in Nat BY DEF Texts
<1>3. i \in 1 .. own BY <1>2
<1> QED BY <1>1, <1>3

\* The least number of a nonempty set of naturals.
LEMMA LeastOf ==
  ASSUME NEW D, D \subseteq Nat, D # {}
  PROVE  \E i \in D : \A j \in D : i <= j
<1> DEFINE R == OpToRel(<, Nat)
<1>1. IsWellFoundedOn(R, Nat) BY NatLessThanWellFounded
<1>2. PICK i \in D : \A j \in D : ~(<<j, i>> \in R)
  <2> HIDE DEF R
  <2> QED BY <1>1, WFMin
<1>3. \A j \in D : j < i => <<j, i>> \in R BY DEF OpToRel
<1>4. \A j \in D : ~(j < i)
  <2> HIDE DEF R
  <2> QED BY <1>2, <1>3, Zenon
<1>5. \A j \in D : j \in Nat OBVIOUS
<1> QED BY <1>4, <1>5

\* Routing::MostSpecific: two different patterns that match the same name are never equally
\* specific, so max_by has exactly one greatest group whatever the order of registration.
THEOREM OneIsMoreSpecific ==
  ASSUME NEW left \in Texts, NEW right \in Texts, NEW name \in Texts,
         Matches(left, name), Matches(right, name), left # right
  PROVE  MoreSpecific(left, right) \/ MoreSpecific(right, left)
<1> DEFINE D == {i \in 1 .. Len(left) : i <= Len(right) /\ left[i] # right[i]}
<1>0. /\ Len(left) \in Nat /\ Len(right) \in Nat
      /\ \A i \in 1 .. Len(left) : left[i] \in STRING
      /\ \A i \in 1 .. Len(right) : right[i] \in STRING
  BY DEF Texts
<1>1. CASE D = {}
  <2>1. \A i \in 1 .. Len(left) : i <= Len(right) => left[i] = right[i] BY <1>1
  <2>2. Len(left) # Len(right)
    <3>1. SUFFICES ASSUME Len(left) = Len(right) PROVE left = right OBVIOUS
    <3> QED BY <2>1, <3>1, <1>0 DEF Texts
  <2>3. CASE Len(left) < Len(right)
    <3>1. Len(left) + 1 \in 1 .. Len(right) BY <2>3, <1>0
    <3>2. \A j \in 1 .. Len(left) : j <= Len(left) /\ Rank(right[j]) = Rank(left[j])
      BY <2>1, <2>3, <1>0
    <3> QED BY <3>1, <3>2, <1>0 DEF MoreSpecific
  <2>4. CASE Len(right) < Len(left)
    <3>1. Len(right) + 1 \in 1 .. Len(left) BY <2>4, <1>0
    <3>2. \A j \in 1 .. Len(right) : j <= Len(right) /\ Rank(left[j]) = Rank(right[j])
      BY <2>1, <2>4, <1>0
    <3> QED BY <3>1, <3>2, <1>0 DEF MoreSpecific
  <2> QED BY <2>2, <2>3, <2>4, <1>0
<1>2. CASE D # {}
  <2>1. PICK i \in D : \A j \in D : i <= j 
    <3>1. D \subseteq Nat OBVIOUS
    <3> HIDE DEF D
    <3> QED BY <1>2, <3>1, LeastOf
  <2>2. i \in 1 .. Len(left) /\ i \in 1 .. Len(right) /\ left[i] # right[i] BY <2>1, <1>0
  <2>3. \A j \in 1 .. i - 1 : left[j] = right[j] /\ j <= Len(left) /\ j <= Len(right)
    BY <2>1, <2>2, <1>0
  <2>4. left[i] # ">" => TokenMatches(left[i], name[i]) BY <2>2, TokenAt
  <2>5. right[i] # ">" => TokenMatches(right[i], name[i]) BY <2>2, TokenAt
  <2>6. Rank(left[i]) \in 0 .. 2 /\ Rank(right[i]) \in 0 .. 2 /\ Rank(left[i]) # Rank(right[i])
    BY <2>2, <2>4, <2>5, <1>0, RankTells
  <2>7. CASE Rank(left[i]) > Rank(right[i]) BY <2>2, <2>3, <2>7 DEF MoreSpecific
  <2>8. CASE Rank(right[i]) > Rank(left[i]) BY <2>2, <2>3, <2>8 DEF MoreSpecific
  <2> QED BY <2>6, <2>7, <2>8
<1> QED BY <1>1, <1>2

LEMMA RankType == \A token : Rank(token) \in 0 .. 2
<1>1. TAKE token
<1>2. CASE token = ">" BY <1>2 DEF Rank
<1>3. CASE token = "*" BY <1>3 DEF Rank
<1>4. CASE token \notin {">", "*"} BY <1>4 DEF Rank
<1> QED BY <1>2, <1>3, <1>4

\* Pattern::specificity: of two patterns at most one is the more specific, so the comparison
\* max_by is given is a strict order on the patterns that match a name.
THEOREM NotBothMoreSpecific ==
  ASSUME NEW left \in Texts, NEW right \in Texts, MoreSpecific(left, right)
  PROVE  ~MoreSpecific(right, left)
<1>1. SUFFICES ASSUME MoreSpecific(right, left) PROVE FALSE OBVIOUS
<1>0. Len(left) \in Nat /\ Len(right) \in Nat BY DEF Texts
<1>2. PICK i \in 1 .. Len(left) :
        /\ \A j \in 1 .. i - 1 : j <= Len(right) /\ Rank(left[j]) = Rank(right[j])
        /\ i > Len(right) \/ Rank(left[i]) > Rank(right[i])
  BY DEF MoreSpecific
<1>3. PICK k \in 1 .. Len(right) :
        /\ \A j \in 1 .. k - 1 : j <= Len(left) /\ Rank(right[j]) = Rank(left[j])
        /\ k > Len(left) \/ Rank(right[k]) > Rank(left[k])
  BY <1>1 DEF MoreSpecific
<1>4. Rank(left[i]) \in 0 .. 2 /\ Rank(right[i]) \in 0 .. 2 /\ Rank(left[k]) \in 0 .. 2
      /\ Rank(right[k]) \in 0 .. 2
  BY RankType
<1>5. CASE i < k
  <2>1. Rank(right[i]) = Rank(left[i]) /\ i <= Len(right) BY <1>0, <1>2, <1>3, <1>5
  <2> QED BY <1>0, <1>2, <1>4, <2>1
<1>6. CASE k < i
  <2>1. Rank(right[k]) = Rank(left[k]) /\ k <= Len(left) BY <1>0, <1>2, <1>3, <1>6
  <2> QED BY <1>0, <1>3, <1>4, <2>1
<1>7. CASE i = k BY <1>0, <1>2, <1>3, <1>4, <1>7
<1> QED BY <1>0, <1>5, <1>6, <1>7

\* Specificity is transitive: the comparison of Pattern::specificity is an order.
LEMMA MoreSpecificTransitive ==
  ASSUME NEW a \in Texts, NEW b \in Texts, NEW c \in Texts, MoreSpecific(a, b), MoreSpecific(b, c)
  PROVE  MoreSpecific(a, c)
<1>0. Len(a) \in Nat /\ Len(b) \in Nat /\ Len(c) \in Nat BY DEF Texts
<1>1. PICK i \in 1 .. Len(a) :
        /\ \A j \in 1 .. i - 1 : j <= Len(b) /\ Rank(a[j]) = Rank(b[j])
        /\ i > Len(b) \/ Rank(a[i]) > Rank(b[i])
  BY DEF MoreSpecific
<1>2. PICK k \in 1 .. Len(b) :
        /\ \A j \in 1 .. k - 1 : j <= Len(c) /\ Rank(b[j]) = Rank(c[j])
        /\ k > Len(c) \/ Rank(b[k]) > Rank(c[k])
  BY DEF MoreSpecific
<1>3. \A j \in Nat : Rank(a[j]) \in 0 .. 2 /\ Rank(b[j]) \in 0 .. 2 /\ Rank(c[j]) \in 0 .. 2
  BY RankType
<1>4. CASE i < k
  <2>1. i \in 1 .. k - 1 /\ i <= Len(b) BY <1>0, <1>4
  <2>2. i <= Len(c) /\ Rank(b[i]) = Rank(c[i]) /\ Rank(a[i]) > Rank(b[i]) BY <1>0, <1>1, <1>2, <2>1
  <2>3. \A j \in 1 .. i - 1 : j <= Len(c) /\ Rank(a[j]) = Rank(c[j])
    <3>1. \A j \in 1 .. i - 1 : j \in 1 .. k - 1 BY <1>4
    <3> QED BY <1>1, <1>2, <3>1
  <2>4. Rank(a[i]) > Rank(c[i]) BY <2>2
  <2> QED BY <2>3, <2>4 DEF MoreSpecific
<1>5. CASE i = k
  <2>1. Rank(a[i]) > Rank(b[i]) BY <1>0, <1>1, <1>5
  <2>2. i > Len(c) \/ Rank(a[i]) > Rank(c[i])
    <3>1. CASE i > Len(c) BY <3>1
    <3>2. CASE Rank(b[i]) > Rank(c[i])
      <4>1. Rank(a[i]) \in 0 .. 2 /\ Rank(b[i]) \in 0 .. 2 /\ Rank(c[i]) \in 0 .. 2 BY <1>3
      <4> QED BY <2>1, <3>2, <4>1
    <3> QED BY <1>2, <1>5, <3>1, <3>2
  <2>3. \A j \in 1 .. i - 1 : j <= Len(c) /\ Rank(a[j]) = Rank(c[j]) BY <1>1, <1>2, <1>5
  <2> QED BY <2>2, <2>3 DEF MoreSpecific
<1>6. CASE k < i
  <2>1. k \in 1 .. i - 1 /\ k \in 1 .. Len(a) BY <1>0, <1>6
  <2>2. Rank(a[k]) = Rank(b[k]) BY <1>1, <2>1
  <2>3. \A j \in 1 .. k - 1 : j <= Len(c) /\ Rank(a[j]) = Rank(c[j])
    <3>1. \A j \in 1 .. k - 1 : j \in 1 .. i - 1 BY <1>6
    <3> QED BY <1>1, <1>2, <3>1
  <2>4. k > Len(c) \/ Rank(a[k]) > Rank(c[k]) BY <1>2, <2>2
  <2> QED BY <2>1, <2>3, <2>4 DEF MoreSpecific
<1> QED BY <1>0, <1>4, <1>5, <1>6

\* What Iterator::max_by looks for: none before it is greater, and it is greater than all after.
LastGreatest(texts, indices, i) ==
  \A j \in indices \ {i} : IF j < i THEN ~MoreSpecific(texts[j], texts[i])
                                    ELSE MoreSpecific(texts[i], texts[j])

\* Of patterns that match one name there is a last greatest, by the least number of subscriptions
\* among which there would be none.
LEMMA LastGreatestExists ==
  ASSUME NEW texts, NEW name \in Texts, NEW N \in Nat,
         NEW I \in SUBSET (1 .. N), I # {},
         \A i \in I : texts[i] \in Texts /\ Matches(texts[i], name)
  PROVE  \E i \in I : LastGreatest(texts, I, i)
<1> DEFINE Good(J) == \A i \in J : texts[i] \in Texts /\ Matches(texts[i], name)
           Bad == {n \in Nat : \E J \in SUBSET (1 .. n) : /\ J # {} /\ Good(J)
                                                         /\ \A i \in J : ~LastGreatest(texts, J, i)}
<1>1. SUFFICES ASSUME Bad # {} PROVE FALSE
  <2>1. N \notin Bad BY <1>1
  <2> QED BY <2>1
<1>2. PICK n \in Bad : \A k \in Bad : n <= k
  <2>1. Bad \subseteq Nat OBVIOUS
  <2> HIDE DEF Bad
  <2> QED BY <1>1, <2>1, LeastOf
<1>3. n \in Nat BY <1>2
<1>4. PICK J \in SUBSET (1 .. n) : /\ J # {} /\ Good(J) /\ \A i \in J : ~LastGreatest(texts, J, i)
  BY <1>2
<1>5. n # 0
  <2>1. SUFFICES ASSUME n = 0 PROVE FALSE OBVIOUS
  <2>2. 1 .. n = {} BY <2>1
  <2>3. J \in SUBSET {} /\ J # {} BY <1>4, <2>2
  <2> QED BY <2>3
<1>6. \A k \in Nat : k < n => \A K \in SUBSET (1 .. k) :
        K # {} /\ Good(K) => \E i \in K : LastGreatest(texts, K, i)
  BY <1>2, <1>3
<1> HIDE DEF Bad
<1>7. n - 1 \in Nat /\ n - 1 < n BY <1>3, <1>5
<1>8. n \in J
  <2>1. SUFFICES ASSUME n \notin J PROVE FALSE OBVIOUS
  <2>2. J \in SUBSET (1 .. n - 1) BY <1>3, <2>1
  <2> QED BY <1>4, <1>6, <1>7, <2>2
<1> DEFINE K == J \ {n}
<1>9. K # {}
  <2>1. SUFFICES ASSUME K = {} PROVE FALSE OBVIOUS
  <2>2. J = {n} BY <1>8, <2>1
  <2> QED BY <1>4, <2>2 DEF LastGreatest
<1>10. K \in SUBSET (1 .. n - 1) /\ Good(K) BY <1>3, <1>4
<1>11. PICK m \in K : LastGreatest(texts, K, m) BY <1>6, <1>7, <1>9, <1>10
<1>12. m \in J /\ m < n /\ m \in Nat /\ \A j \in K : j \in Nat /\ j < n BY <1>3, <1>10
<1>13. CASE MoreSpecific(texts[m], texts[n])
  <2>1. LastGreatest(texts, J, m) BY <1>3, <1>11, <1>12, <1>13 DEF LastGreatest
  <2> QED BY <1>4, <1>12, <2>1
<1>14. CASE ~MoreSpecific(texts[m], texts[n])
  <2>1. ASSUME NEW j \in K PROVE ~MoreSpecific(texts[j], texts[n])
    <3>1. SUFFICES ASSUME MoreSpecific(texts[j], texts[n]) PROVE FALSE OBVIOUS
    <3>2. /\ texts[j] \in Texts /\ texts[m] \in Texts /\ texts[n] \in Texts
          /\ Matches(texts[j], name) /\ Matches(texts[m], name)
      BY <1>4, <1>8, <1>12
    <3>3. texts[j] # texts[m] BY <1>14, <3>1
    <3>4. j # m BY <3>3
    <3>5. MoreSpecific(texts[m], texts[j])
      <4>1. CASE j < m
        <5>1. ~MoreSpecific(texts[j], texts[m]) BY <1>11, <3>4, <4>1 DEF LastGreatest
        <5> QED BY <3>2, <3>3, <5>1, OneIsMoreSpecific
      <4>2. CASE ~(j < m) BY <1>11, <3>4, <4>2 DEF LastGreatest
      <4> QED BY <4>1, <4>2
    <3> QED BY <1>14, <3>1, <3>2, <3>5, MoreSpecificTransitive
  <2>2. LastGreatest(texts, J, n) BY <1>12, <2>1 DEF LastGreatest
  <2> QED BY <1>4, <1>8, <2>2
<1> QED BY <1>13, <1>14

\* Routing::reach and Routing::routes: max_by returns one of the patterns it is given, and any
\* other of them has the same text or is less specific.
THEOREM MaxByIsGreatest ==
  ASSUME NEW texts, NEW name \in Texts, NEW N \in Nat,
         NEW I \in SUBSET (1 .. N), I # {},
         \A i \in I : texts[i] \in Texts /\ Matches(texts[i], name)
  PROVE  /\ MaxBy(texts, I) \in I
         /\ \A j \in I : \/ texts[j] = texts[MaxBy(texts, I)]
                         \/ MoreSpecific(texts[MaxBy(texts, I)], texts[j])
<1> DEFINE m == MaxBy(texts, I)
<1>1. \E i \in I : LastGreatest(texts, I, i) BY LastGreatestExists
<1>2. m \in I /\ LastGreatest(texts, I, m) BY <1>1 DEF MaxBy, LastGreatest
<1> HIDE DEF m
<1>3. ASSUME NEW j \in I PROVE texts[j] = texts[m] \/ MoreSpecific(texts[m], texts[j])
  <2>1. SUFFICES ASSUME texts[j] # texts[m] PROVE MoreSpecific(texts[m], texts[j]) OBVIOUS
  <2>2. j # m BY <2>1
  <2>3. CASE j < m
    <3>1. ~MoreSpecific(texts[j], texts[m]) BY <1>2, <2>2, <2>3 DEF LastGreatest
    <3> QED BY <1>2, <2>1, <3>1, OneIsMoreSpecific
  <2>4. CASE ~(j < m) BY <1>2, <2>2, <2>4 DEF LastGreatest
  <2> QED BY <2>3, <2>4
<1> QED BY <1>2, <1>3 DEF m

(***************************************************************************)
(* The inductive invariant                                                 *)
(***************************************************************************)
\* What may be sent: a direct publish, a transaction's message, a request or a reply.
Senders == {<<"direct">>} \cup {<<"txn", t>> : t \in Nat} \cup {<<"ask", r>> : r \in Asks}
             \cup {<<"reply", r>> : r \in Asks}
Msgs == [by : Senders, n : Int, inbox : Int, size : conf.sizes \cup {0, 1}]

\* What is published into a transaction.
Entries == [name : conf.names, msg : {m \in Msgs : m.by[1] = "txn" /\ m.inbox = -1}]

AskStates == {"idle", "registered", "waiting", "leaving", "forgetting", "done", "cancelled"}
TxnStates == {"open", "committing", "committed", "failed", "aborted"}

SubRecords == [state : {"idle", "open", "gone", "refused"}, text : Seq(STRING), epoch : Nat]
TxnRecords ==
  [kind : {"handle", "owned"}, state : TxnStates, buffered : Seq(Entries), wrote : Seq(Entries)]
AskRecords ==
  [state : AskStates, inbox : Nat, outcome : {"none", "ShutDown", "Reply", "Timeout"},
   reply : {<< >>} \cup Senders, late : BOOLEAN]

Typed ==
  /\ conf \in Confs
  /\ live \in BOOLEAN
  /\ sub \in [Subs -> SubRecords]
  /\ got \in [Receivers -> Seq(Msgs)]
  /\ txns \in Seq(TxnRecords)
  /\ handle \in 0 .. Len(txns)
  /\ asks \in [Asks -> AskRecords]
  /\ inbox_seq \in Nat
  /\ sent \in Seq(Seq(Entries))
  /\ published \in Nat
  /\ revivals \in Nat

\* What a transaction's buffer and the bus have of it is what was published into it, in order.
Splits(front, rest, whole) ==
  /\ Len(whole) = Len(front) + Len(rest)
  /\ \A i \in 1 .. Len(front) : whole[i] = front[i]
  /\ \A i \in 1 .. Len(rest) : whole[Len(front) + i] = rest[i]

\* Of transaction t, its record and what the bus has seen of it.
TxnHolds(t, txn, seen) ==
  /\ \A i \in 1 .. Len(txn.buffered) : txn.buffered[i].msg.by = <<"txn", t>>
  /\ txn.state \in {"open", "committing", "committed"} => Splits(seen, txn.buffered, txn.wrote)
  /\ txn.state \in {"open", "aborted"} => Len(seen) = 0
  /\ txn.state = "committed" => Len(txn.buffered) = 0
  /\ txn.state = "failed" => /\ Len(seen) < Len(txn.wrote)
                             /\ \A i \in 1 .. Len(seen) : txn.wrote[i] = seen[i]

TxnInv ==
  /\ handle # 0 => txns[handle].kind = "handle" /\ txns[handle].state = "open"
  /\ Len(sent) = Len(txns)
  /\ \A t \in DOMAIN txns : TxnHolds(t, txns[t], sent[t])

\* An inbox is numbered once: no two requests have the same, and none a number still to come.
NumberInv ==
  /\ \A r \in Asks : asks[r].state # "idle" => asks[r].inbox < inbox_seq
  /\ \A r, q \in Asks :
       asks[r].state # "idle" /\ asks[q].state # "idle" /\ asks[r].inbox = asks[q].inbox => r = q

\* The request whose inbox it is, and that has not left.
Owns(r, name) ==
  /\ name = InboxName(asks[r].inbox)
  /\ asks[r].state \in {"registered", "waiting", "leaving", "cancelled"}

NamesInv ==
  /\ \A name \in DOMAIN names : names[name] \in Seq(Receivers)
  /\ \A name \in DOMAIN names : \A r \in Asks :
       <<"ask", r>> \in Range(names[name]) => Owns(r, name)
  /\ \A name \in DOMAIN names : name[1] = "_inbox" => \E r \in Asks : Owns(r, name)

GroupRecords == [text : Texts, senders : Seq(Receivers)]

\* Only subscriptions are in a group.
GroupsInv ==
  /\ groups \in Seq(GroupRecords)
  /\ \A g \in DOMAIN groups : \A r \in Asks : <<"ask", r>> \notin Range(groups[g].senders)

\* What reached an inbox answers the request that owns it; what names an inbox is that request.
GotInv ==
  /\ \A r \in Asks : \A i \in 1 .. Len(got[<<"ask", r>>]) : got[<<"ask", r>>][i].by = <<"reply", r>>
  /\ \A s \in Subs : \A i \in 1 .. Len(got[<<"sub", s>>]) :
       got[<<"sub", s>>][i].inbox # -1 =>
         \E r \in Asks : /\ got[<<"sub", s>>][i].by = <<"ask", r>>
                         /\ got[<<"sub", s>>][i].inbox = asks[r].inbox
                         /\ asks[r].state # "idle"
  /\ ReplyIsMine

\* A log under an inbox is of a request that has not returned, or was written after it did.
LogOf(r, name) ==
  /\ name = InboxName(asks[r].inbox)
  /\ asks[r].state # "idle"
  /\ asks[r].state = "done" => asks[r].late

LogsInv == \A name \in DOMAIN logs : name[1] = "_inbox" => \E r \in Asks : LogOf(r, name)

\* The registry of a live bus is the subscriptions of this life of it, dropped ones included.
Registered(s, text) ==
  sub[s].text = text /\ sub[s].epoch = revivals /\ sub[s].state \in {"open", "gone"}

NamedSubs ==
  \A name \in DOMAIN names : \A s \in Subs :
    <<"sub", s>> \in Range(names[name]) =>
      Registered(s, name) /\ ~HasWildcard(name) /\ name[1] # "_inbox"

GroupedSubs ==
  \A g \in DOMAIN groups : \A s \in Subs :
    <<"sub", s>> \in Range(groups[g].senders) => Registered(s, groups[g].text)

GroupTexts ==
  /\ \A g \in DOMAIN groups : Parses(groups[g].text)
  /\ \A g, h \in DOMAIN groups : groups[g].text = groups[h].text => g = h

\* A subscription's sender is where a publish looks for it.
Listed(s) ==
  /\ sub[s].text \in Texts
  /\ \/ /\ ~HasWildcard(sub[s].text) /\ sub[s].text \in DOMAIN names
        /\ <<"sub", s>> \in Range(names[sub[s].text])
     \/ \E g \in DOMAIN groups : /\ groups[g].text = sub[s].text
                                 /\ <<"sub", s>> \in Range(groups[g].senders)

RegistryInv ==
  /\ NamedSubs /\ GroupedSubs /\ GroupTexts
  /\ live => \A s \in OpenSubs : Listed(s)
  /\ ~live => DOMAIN names = {} /\ DOMAIN groups = {}
  /\ \A s \in Subs : sub[s].epoch <= revivals
  /\ routing \in Routings

Inv == Typed /\ TxnInv /\ NumberInv /\ NamesInv /\ GroupsInv /\ GotInv /\ LogsInv /\ RegistryInv

(***************************************************************************)
(* The operators                                                           *)
(***************************************************************************)
LEMMA PutFacts ==
  ASSUME NEW f, NEW key, NEW value
  PROVE  /\ DOMAIN Put(f, key, value) = DOMAIN f \cup {key}
         /\ Put(f, key, value)[key] = value
         /\ \A k \in DOMAIN f : k # key => Put(f, key, value)[k] = f[k]
BY DEF Put

LEMMA WithoutFacts ==
  ASSUME NEW f, NEW key
  PROVE  /\ DOMAIN Without(f, key) = DOMAIN f \ {key}
         /\ \A k \in DOMAIN f : k # key => Without(f, key)[k] = f[k]
BY DEF Without, Restrict

LEMMA RangeOfAppend ==
  ASSUME NEW S, NEW q \in Seq(S), NEW x \in S
  PROVE  Append(q, x) \in Seq(S) /\ Range(Append(q, x)) = Range(q) \cup {x}
<1>1. Append(q, x) \in Seq(S) /\ Len(Append(q, x)) = Len(q) + 1 /\ Len(q) \in Nat
  OBVIOUS
<1>2. \A i \in 1 .. Len(q) : Append(q, x)[i] = q[i]
  OBVIOUS
<1>3. Append(q, x)[Len(q) + 1] = x
  OBVIOUS
<1>4. DOMAIN q = 1 .. Len(q) /\ DOMAIN Append(q, x) = 1 .. Len(q) + 1
  BY <1>1
<1>5. ASSUME NEW y \in Range(Append(q, x)) PROVE y \in Range(q) \cup {x}
  <2>1. PICK i \in 1 .. Len(q) + 1 : y = Append(q, x)[i]
    BY <1>4 DEF Range
  <2>2. CASE i = Len(q) + 1
    BY <2>1, <2>2, <1>3
  <2>3. CASE i \in 1 .. Len(q)
    BY <2>1, <2>3, <1>2, <1>4 DEF Range
  <2> QED BY <1>1, <2>2, <2>3
<1>6. ASSUME NEW y \in Range(q) PROVE y \in Range(Append(q, x))
  <2>1. PICK i \in 1 .. Len(q) : y = q[i]
    BY <1>4 DEF Range
  <2>2. i \in 1 .. Len(q) + 1
    BY <1>1
  <2> QED BY <2>1, <2>2, <1>2, <1>4 DEF Range
<1>7. x \in Range(Append(q, x))
  <2>1. Len(q) + 1 \in 1 .. Len(q) + 1
    BY <1>1
  <2> QED BY <2>1, <1>3, <1>4 DEF Range
<1> QED BY <1>1, <1>5, <1>6, <1>7

LEMMA RangeOfNone == Range(<< >>) = {} /\ \A S : << >> \in Seq(S)
<1>1. DOMAIN << >> = {}
  OBVIOUS
<1> QED BY <1>1 DEF Range

LEMMA RangeOfOne ==
  ASSUME NEW S, NEW x \in S
  PROVE  <<x>> \in Seq(S) /\ Range(<<x>>) = {x}
<1>1. DOMAIN <<x>> = {1} /\ <<x>>[1] = x
  OBVIOUS
<1> QED BY <1>1 DEF Range

\* No step changes what an instance is about.
LEMMA ConfKept ==
  ASSUME [Next]_vars
  PROVE  /\ conf' = conf /\ Subs' = Subs /\ Asks' = Asks /\ Receivers' = Receivers
         /\ Senders' = Senders /\ Msgs' = Msgs /\ Entries' = Entries
         /\ SubRecords' = SubRecords /\ TxnRecords' = TxnRecords /\ AskRecords' = AskRecords
<1>1. conf' = conf
  BY ZenonT(30) DEF Next, vars, SetRouting, Shutdown, Connect, BeginTransaction,
     OpenTransaction, Open, Subscribe, Unsubscribe, Reply, PublishDirect, PublishOnHandle,
     PublishOwned, Buffer, Commit, CommitOne, Committed, Abort, Request, Register, Awaited,
     Unregister, Forget, Cancel
<1>2. Subs' = Subs /\ Asks' = Asks
  BY <1>1 DEF Subs, Asks
<1>3. Receivers' = Receivers /\ Senders' = Senders
  BY <1>2 DEF Receivers, Senders
<1>4. Msgs' = Msgs
  BY <1>1, <1>3 DEF Msgs
<1>5. Entries' = Entries
  BY <1>1, <1>4 DEF Entries
<1> QED BY <1>1, <1>2, <1>3, <1>4, <1>5 DEF SubRecords, TxnRecords, TxnStates, AskRecords, AskStates

LEMMA SeqUpdate ==
  ASSUME NEW S, NEW q \in Seq(S), NEW k, NEW v, k \in DOMAIN q => v \in S
  PROVE  [q EXCEPT ![k] = v] \in Seq(S) /\ Len([q EXCEPT ![k] = v]) = Len(q)
<1>1. CASE k \in DOMAIN q
  BY <1>1
<1>2. CASE k \notin DOMAIN q
  <2>1. [q EXCEPT ![k] = v] = q
    BY <1>2
  <2> QED BY <2>1
<1> QED BY <1>1, <1>2

\* A publish into a transaction, and a fan-out of its first buffered message.
LEMMA SplitsGrows ==
  ASSUME NEW S, NEW front \in Seq(S), NEW rest \in Seq(S), NEW whole \in Seq(S), NEW e \in S,
         Splits(front, rest, whole)
  PROVE  Splits(front, Append(rest, e), Append(whole, e))
<1>1. /\ Len(Append(rest, e)) = Len(rest) + 1 /\ Len(Append(whole, e)) = Len(whole) + 1
      /\ Len(front) \in Nat /\ Len(rest) \in Nat /\ Len(whole) = Len(front) + Len(rest)
  BY DEF Splits
<1>2. /\ \A i \in 1 .. Len(rest) : Append(rest, e)[i] = rest[i]
      /\ \A i \in 1 .. Len(whole) : Append(whole, e)[i] = whole[i]
      /\ Append(rest, e)[Len(rest) + 1] = e /\ Append(whole, e)[Len(whole) + 1] = e
  BY <1>1
<1>3. \A i \in 1 .. Len(front) : Append(whole, e)[i] = front[i]
  <2> TAKE i \in 1 .. Len(front)
  <2>1. i \in 1 .. Len(whole) /\ whole[i] = front[i]
    BY <1>1 DEF Splits
  <2> QED BY <1>2, <2>1
<1>4. \A i \in 1 .. Len(rest) + 1 : Append(whole, e)[Len(front) + i] = Append(rest, e)[i]
  <2> TAKE i \in 1 .. Len(rest) + 1
  <2>1. CASE i \in 1 .. Len(rest)
    <3>1. Len(front) + i \in 1 .. Len(whole) /\ whole[Len(front) + i] = rest[i]
      BY <1>1, <2>1 DEF Splits
    <3> QED BY <1>2, <2>1, <3>1
  <2>2. CASE i = Len(rest) + 1
    <3>1. Len(front) + i = Len(whole) + 1
      BY <1>1, <2>2
    <3> QED BY <1>2, <2>2, <3>1
  <2> QED BY SMTT(30), <1>1, <2>1, <2>2
<1>5. Len(Append(whole, e)) = Len(front) + Len(Append(rest, e))
  BY <1>1
<1> QED BY <1>1, <1>3, <1>4, <1>5 DEF Splits

LEMMA SplitsMoves ==
  ASSUME NEW S, NEW front \in Seq(S), NEW rest \in Seq(S), NEW whole \in Seq(S), Len(rest) > 0,
         Splits(front, rest, whole)
  PROVE  Splits(Append(front, rest[1]), Tail(rest), whole)
<1>1. /\ Len(Append(front, rest[1])) = Len(front) + 1 /\ Len(Tail(rest)) = Len(rest) - 1
      /\ Len(front) \in Nat /\ Len(rest) \in Nat
  OBVIOUS
<1>2. \A i \in 1 .. Len(Tail(rest)) : Tail(rest)[i] = rest[i + 1] /\ i + 1 \in 1 .. Len(rest)
  BY <1>1
<1>3. \A i \in 1 .. Len(front) : Append(front, rest[1])[i] = front[i]
  BY <1>1
<1>4. Append(front, rest[1])[Len(front) + 1] = rest[1] /\ 1 \in 1 .. Len(rest)
  BY <1>1
<1>5. \A i \in 1 .. Len(Tail(rest)) : whole[Len(Append(front, rest[1])) + i] = Tail(rest)[i]
  <2> TAKE i \in 1 .. Len(Tail(rest))
  <2>1. whole[Len(front) + (i + 1)] = rest[i + 1]
    BY <1>2 DEF Splits
  <2>2. Len(front) + (i + 1) = Len(Append(front, rest[1])) + i
    BY <1>1
  <2> QED BY <1>2, <2>1, <2>2
<1>6. \A i \in 1 .. Len(Append(front, rest[1])) : whole[i] = Append(front, rest[1])[i]
  <2> TAKE i \in 1 .. Len(Append(front, rest[1]))
  <2>1. CASE i \in 1 .. Len(front)
    BY <1>3, <2>1 DEF Splits
  <2>2. CASE i = Len(front) + 1
    BY <1>1, <1>4, <2>2 DEF Splits
  <2> QED BY <1>1, <2>1, <2>2
<1>0. Len(whole) = Len(front) + Len(rest)
  BY DEF Splits
<1>7. Len(whole) = Len(Append(front, rest[1])) + Len(Tail(rest))
  <2> DEFINE a == Len(Append(front, rest[1]))  b == Len(Tail(rest))
             f == Len(front)  n == Len(rest)  w == Len(whole)
  <2>1. a = f + 1 /\ b = n - 1 /\ f \in Nat /\ n \in Nat /\ w = f + n
    BY <1>0, <1>1
  <2> HIDE DEF a, b, f, n, w
  <2>2. w = a + b
    BY <2>1
  <2> QED BY <2>2 DEF a, b, w
<1> QED BY <1>5, <1>6, <1>7 DEF Splits

LEMMA PrefixOf ==
  ASSUME NEW S, NEW front \in Seq(S), NEW whole \in Seq(S), Len(front) <= Len(whole),
         \A i \in 1 .. Len(front) : whole[i] = front[i]
  PROVE  front = SubSeq(whole, 1, Len(front))
<1>1. Len(front) \in Nat /\ Len(whole) \in Nat
  OBVIOUS
<1>2. /\ SubSeq(whole, 1, Len(front)) \in Seq(S) /\ Len(SubSeq(whole, 1, Len(front))) = Len(front)
      /\ \A i \in 1 .. Len(front) : SubSeq(whole, 1, Len(front))[i] = whole[i]
  BY <1>1
<1> QED BY <1>1, <1>2

(***************************************************************************)
(* What the steps have in common                                           *)
(***************************************************************************)
LEMMA MessageTypes ==
  ASSUME NEW n \in Nat
  PROVE  /\ \A size \in conf.sizes : Message(<<"direct">>, n, -1, size) \in Msgs
         /\ \A r \in Asks : Message(<<"reply", r>>, n, -1, 1) \in Msgs
         /\ \A r \in Asks, id \in Nat : Message(<<"ask", r>>, 1, id, 0) \in Msgs
         /\ \A name \in conf.names, t \in Nat, size \in conf.sizes :
              [name |-> name, msg |-> Message(<<"txn", t>>, n, -1, size)] \in Entries
         /\ \A e \in Entries : e.msg \in Msgs /\ e.name \in conf.names /\ e.msg.by[1] = "txn"
                               /\ e.msg.inbox = -1 /\ [name |-> e.name, msg |-> e.msg] = e
<1>1. /\ <<"direct">> \in Senders /\ \A t \in Nat : <<"txn", t>> \in Senders
      /\ \A r \in Asks : <<"ask", r>> \in Senders /\ <<"reply", r>> \in Senders
  BY DEF Senders
<1>2. -1 \in Int /\ 1 \in Int /\ n \in Int /\ \A id \in Nat : id \in Int
  OBVIOUS
<1>3. \A size \in conf.sizes : Message(<<"direct">>, n, -1, size) \in Msgs
  BY <1>1, <1>2 DEF Message, Msgs
<1>4. \A r \in Asks : Message(<<"reply", r>>, n, -1, 1) \in Msgs
  BY <1>1, <1>2 DEF Message, Msgs
<1>5. \A r \in Asks, id \in Nat : Message(<<"ask", r>>, 1, id, 0) \in Msgs
  BY <1>1, <1>2 DEF Message, Msgs
<1>6. ASSUME NEW name \in conf.names, NEW t \in Nat, NEW size \in conf.sizes
      PROVE  [name |-> name, msg |-> Message(<<"txn", t>>, n, -1, size)] \in Entries
  <2> DEFINE m == Message(<<"txn", t>>, n, -1, size)
  <2>1. m \in Msgs
    BY <1>1, <1>2 DEF Message, Msgs
  <2>2. m.by = <<"txn", t>> /\ m.inbox = -1
    BY DEF Message
  <2>3. m.by[1] = "txn"
    BY <2>2
  <2> HIDE DEF m
  <2>4. [name |-> name, msg |-> m] \in Entries
    BY <2>1, <2>2, <2>3 DEF Entries
  <2> QED BY <2>4 DEF m
<1>7. \A e \in Entries : e.msg \in Msgs /\ e.name \in conf.names /\ e.msg.by[1] = "txn"
                         /\ e.msg.inbox = -1 /\ [name |-> e.name, msg |-> e.msg] = e
  BY DEF Entries
<1> QED BY <1>3, <1>4, <1>5, <1>6, <1>7

\* A fan-out sends to whom it reaches, records under its name, and notes a transaction's message.
LEMMA FanoutEffect ==
  ASSUME Typed, NEW name, NEW msg \in Msgs, Fanout(name, msg)
  PROVE  /\ got' \in [Receivers -> Seq(Msgs)]
         /\ \A r \in Receivers :
              got'[r] = got[r] \/ (r \in Reached(name) /\ got'[r] = Append(got[r], msg))
         /\ DOMAIN logs' \subseteq DOMAIN logs \cup {name}
         /\ DOMAIN logs \subseteq DOMAIN logs'
<1> DEFINE R == Reached(name)
<1>1. got' = [r \in Receivers |-> IF r \in R THEN Append(got[r], msg) ELSE got[r]]
  BY DEF Fanout
<1>2. got \in [Receivers -> Seq(Msgs)]
  BY DEF Typed
<1>3. \A r \in Receivers : got[r] \in Seq(Msgs) /\ Append(got[r], msg) \in Seq(Msgs)
  BY <1>2
<1>4. DOMAIN logs' \subseteq DOMAIN logs \cup {name} /\ DOMAIN logs \subseteq DOMAIN logs'
  <2>1. CASE ~conf.recording
    BY <2>1 DEF Fanout
  <2>2. CASE conf.recording
    <3> DEFINE v == Push(conf.retention, IF name \in DOMAIN logs THEN logs[name] ELSE EmptyLog,
                         msg.size)
    <3>1. logs' = Put(logs, name, v)
      BY <2>2 DEF Fanout
    <3> HIDE DEF v
    <3>2. DOMAIN logs' = DOMAIN logs \cup {name}
      BY <3>1 DEF Put
    <3> QED BY <3>2
  <2> QED BY <2>1, <2>2
<1> HIDE DEF R
<1>5. got' \in [Receivers -> Seq(Msgs)]
  BY <1>1, <1>3
<1>6. \A r \in Receivers : got'[r] = got[r] \/ (r \in R /\ got'[r] = Append(got[r], msg))
  BY <1>1
<1> QED BY <1>4, <1>5, <1>6 DEF R

\* A publish of the application: direct or of a request.  Nothing of a transaction is noted.
LEMMA NotATransaction ==
  ASSUME NEW name, NEW msg, Fanout(name, msg), msg.by[1] # "txn"
  PROVE  sent' = sent
BY DEF Fanout

LEMMA OfATransaction ==
  ASSUME NEW t \in Nat, NEW e \in Entries, e.msg.by = <<"txn", t>>, Fanout(e.name, e.msg)
  PROVE  sent' = [sent EXCEPT ![t] = Append(@, e)]
<1>1. e.msg.by[1] = "txn" /\ e.msg.by[2] = t
  OBVIOUS
<1>2. [name |-> e.name, msg |-> e.msg] = e
  BY MessageTypes
<1> DEFINE e2 == [name |-> e.name, msg |-> e.msg]
<1>3. sent' = [sent EXCEPT ![e.msg.by[2]] = Append(@, e2)]
  BY <1>1 DEF Fanout
<1> HIDE DEF e2
<1>4. e2 = e
  BY <1>2 DEF e2
<1> QED BY <1>1, <1>3, <1>4

\* A publish made by a responder, and by the handle with no transaction open.
LEMMA ReplyFacts ==
  ASSUME Typed, GotInv, NEW s \in Subs, Reply(s)
  PROVE  \E r \in Asks : \E msg \in Msgs :
           /\ asks[r].state # "idle" /\ msg = Message(<<"reply", r>>, published + 1, -1, 1)
           /\ PublishDirect(InboxName(asks[r].inbox), msg)
           /\ asks' = [asks EXCEPT ![r].late = @ \/ (asks[r].state = "done" /\ live)]
           /\ UNCHANGED <<txns, handle>>
<1>1. PICK i \in DOMAIN got[<<"sub", s>>] :
        /\ got[<<"sub", s>>][i].inbox # -1
        /\ PublishDirect(InboxName(got[<<"sub", s>>][i].inbox),
                         Message(<<"reply", got[<<"sub", s>>][i].by[2]>>, published + 1, -1, 1))
        /\ asks' = [asks EXCEPT ![got[<<"sub", s>>][i].by[2]].late =
                      @ \/ (asks[got[<<"sub", s>>][i].by[2]].state = "done" /\ live)]
        /\ UNCHANGED <<txns, handle>>
  BY DEF Reply
<1>2. <<"sub", s>> \in Receivers
  BY DEF Receivers
<1>3. i \in 1 .. Len(got[<<"sub", s>>])
  BY <1>2 DEF Typed
<1>4. PICK r \in Asks : /\ got[<<"sub", s>>][i].by = <<"ask", r>>
                        /\ got[<<"sub", s>>][i].inbox = asks[r].inbox
                        /\ asks[r].state # "idle"
  BY <1>1, <1>3 DEF GotInv
<1>5. got[<<"sub", s>>][i].by[2] = r
  BY <1>4
<1>6. published + 1 \in Nat
  BY DEF Typed
<1>7. Message(<<"reply", r>>, published + 1, -1, 1) \in Msgs
  BY <1>6, MessageTypes
<1> QED BY <1>1, <1>4, <1>5, <1>7

\* The fields of a record that is kept in a function: what an update of one of them leaves.
LEMMA AskUpdates ==
  ASSUME asks \in [Asks -> AskRecords], NEW r \in Asks, NEW state \in AskStates
  PROVE  /\ [asks EXCEPT ![r].state = state] \in [Asks -> AskRecords]
         /\ \A id \in Nat : [asks EXCEPT ![r].state = state, ![r].inbox = id]
                               \in [Asks -> AskRecords]
         /\ \A id \in Nat :
              [asks EXCEPT ![r].state = state, ![r].inbox = id, ![r].outcome = "ShutDown"]
                \in [Asks -> AskRecords]
         /\ [asks EXCEPT ![r].state = state, ![r].outcome = "ShutDown"] \in [Asks -> AskRecords]
         /\ [asks EXCEPT ![r].state = state, ![r].outcome = "Timeout"] \in [Asks -> AskRecords]
         /\ \A by \in Senders :
              [asks EXCEPT ![r].state = state, ![r].outcome = "Reply", ![r].reply = by]
                \in [Asks -> AskRecords]
         /\ \A b \in BOOLEAN : [asks EXCEPT ![r].late = @ \/ b] \in [Asks -> AskRecords]
<1>1. [asks EXCEPT ![r].state = state] \in [Asks -> AskRecords]
  BY DEF AskRecords
<1>2. \A id \in Nat : [asks EXCEPT ![r].state = state, ![r].inbox = id] \in [Asks -> AskRecords]
  BY ZenonT(30) DEF AskRecords
<1>3. \A id \in Nat : [asks EXCEPT ![r].state = state, ![r].inbox = id, ![r].outcome = "ShutDown"]
                               \in [Asks -> AskRecords]
  BY ZenonT(30) DEF AskRecords
<1>4. [asks EXCEPT ![r].state = state, ![r].outcome = "ShutDown"] \in [Asks -> AskRecords]
  BY DEF AskRecords
<1>5. [asks EXCEPT ![r].state = state, ![r].outcome = "Timeout"] \in [Asks -> AskRecords]
  BY DEF AskRecords
<1>6. \A by \in Senders :
              [asks EXCEPT ![r].state = state, ![r].outcome = "Reply", ![r].reply = by]
                \in [Asks -> AskRecords]
  <2>1. SUFFICES ASSUME NEW by \in Senders
                 PROVE  [asks EXCEPT ![r].state = state, ![r].outcome = "Reply", ![r].reply = by]
                          \in [Asks -> AskRecords]
    OBVIOUS
  <2>2. PICK value \in AskRecords :
          value = [asks[r] EXCEPT !.state = state, !.outcome = "Reply", !.reply = by]
    <3>1. asks[r] \in AskRecords
      OBVIOUS
    <3>2. [asks[r] EXCEPT !.state = state, !.outcome = "Reply", !.reply = by] \in AskRecords
      BY <2>1, <3>1 DEF AskRecords
    <3> QED BY <3>2
  <2>3. [asks EXCEPT ![r].state = state, ![r].outcome = "Reply", ![r].reply = by]
          = [asks EXCEPT ![r] = value]
    BY <2>2
  <2> QED BY <2>2, <2>3
<1>7. \A b \in BOOLEAN : [asks EXCEPT ![r].late = @ \/ b] \in [Asks -> AskRecords]
  BY DEF AskRecords
<1> QED BY <1>1, <1>2, <1>3, <1>4, <1>5, <1>6, <1>7

LEMMA TxnUpdates ==
  ASSUME txns \in Seq(TxnRecords), NEW t \in DOMAIN txns, NEW value \in TxnRecords
  PROVE  /\ [txns EXCEPT ![t] = value] \in Seq(TxnRecords)
         /\ Len([txns EXCEPT ![t] = value]) = Len(txns)
         /\ DOMAIN [txns EXCEPT ![t] = value] = DOMAIN txns
         /\ [txns EXCEPT ![t] = value][t] = value
         /\ \A u \in DOMAIN txns : u # t => [txns EXCEPT ![t] = value][u] = txns[u]
OBVIOUS

\* What each step of a transaction makes of its record.
LEMMA TxnSteps ==
  ASSUME Typed, NEW t \in DOMAIN txns
  PROVE  /\ t \in Nat /\ t # 0 /\ txns[t] \in TxnRecords
         /\ \A name \in conf.names, size \in conf.sizes : Buffer(t, name, size) =>
              \E e \in Entries, value \in TxnRecords :
                /\ e.msg.by = <<"txn", t>>
                /\ value.kind = txns[t].kind /\ txns[t].state = "open" /\ value.state = "open"
                /\ value.buffered = Append(txns[t].buffered, e)
                /\ value.wrote = Append(txns[t].wrote, e)
                /\ txns' = [txns EXCEPT ![t] = value]
         /\ Commit(t) =>
              \E value \in TxnRecords :
                /\ value.kind = txns[t].kind /\ txns[t].state = "open"
                /\ value.state = "committing" /\ value.buffered = txns[t].buffered
                /\ value.wrote = txns[t].wrote
                /\ txns' = [txns EXCEPT ![t] = value]
         /\ Committed(t) =>
              \E value \in TxnRecords :
                /\ value.kind = txns[t].kind /\ txns[t].state = "committing"
                /\ Len(txns[t].buffered) = 0
                /\ value.state = "committed" /\ value.buffered = txns[t].buffered
                /\ value.wrote = txns[t].wrote
                /\ txns' = [txns EXCEPT ![t] = value]
         /\ Abort(t) =>
              \E value \in TxnRecords :
                /\ value.kind = txns[t].kind /\ txns[t].state = "open"
                /\ value.state = "aborted" /\ value.buffered = << >>
                /\ value.wrote = txns[t].wrote
                /\ txns' = [txns EXCEPT ![t] = value]
         /\ CommitOne(t) =>
              /\ txns[t].state = "committing" /\ Len(txns[t].buffered) > 0
              /\ \E value \in TxnRecords :
                /\ value.kind = txns[t].kind
                /\ value.wrote = txns[t].wrote
                /\ live => /\ value.state = "committing" /\ value.buffered = Tail(txns[t].buffered)
                           /\ Fanout(txns[t].buffered[1].name, txns[t].buffered[1].msg)
                /\ ~live => value.state = "failed" /\ value.buffered = << >> /\ sent' = sent
                /\ txns' = [txns EXCEPT ![t] = value]
<1>1. /\ t \in Nat /\ t # 0 /\ txns[t] \in TxnRecords /\ t \in 1 .. Len(txns)
  BY DEF Typed
<1>2. /\ txns[t].buffered \in Seq(Entries) /\ txns[t].wrote \in Seq(Entries)
      /\ txns[t].state \in TxnStates /\ txns[t].kind \in {"handle", "owned"}
  BY <1>1 DEF TxnRecords
<1>n. << >> \in Seq(Entries) /\ "failed" \in TxnStates /\ "aborted" \in TxnStates
  BY DEF TxnStates
<1>3. ASSUME NEW name \in conf.names, NEW size \in conf.sizes, Buffer(t, name, size)
      PROVE  \E e \in Entries, value \in TxnRecords :
                /\ e.msg.by = <<"txn", t>>
                /\ value.kind = txns[t].kind /\ txns[t].state = "open" /\ value.state = "open"
                /\ value.buffered = Append(txns[t].buffered, e)
                /\ value.wrote = Append(txns[t].wrote, e)
                /\ txns' = [txns EXCEPT ![t] = value]
  <2> DEFINE e == [name |-> name, msg |-> Message(<<"txn", t>>, Len(txns[t].wrote) + 1, -1, size)]
             value == [txns[t] EXCEPT !.buffered = Append(@, e), !.wrote = Append(@, e)]
  <2>1. e \in Entries
    <3>1. Len(txns[t].wrote) + 1 \in Nat
      BY <1>2
    <3> QED BY <1>1, <3>1, MessageTypes
  <2>2. e.msg.by = <<"txn", t>>
    BY DEF Message
  <2>3. /\ txns[t].state = "open"
        /\ txns' = [txns EXCEPT ![t].buffered = Append(@, e), ![t].wrote = Append(@, e)]
    BY <1>3 DEF Buffer
  <2> HIDE DEF e
  <2>4. value \in TxnRecords
    <3>1. Append(txns[t].buffered, e) \in Seq(Entries) /\ Append(txns[t].wrote, e) \in Seq(Entries)
      BY <1>2, <2>1
    <3> QED BY <1>1, <3>1 DEF TxnRecords
  <2>5. txns' = [txns EXCEPT ![t] = value]
    BY <1>1, <2>3 DEF Typed
  <2>6. /\ value.kind = txns[t].kind /\ value.state = txns[t].state
        /\ value.buffered = Append(txns[t].buffered, e)
        /\ value.wrote = Append(txns[t].wrote, e)
    BY <1>1 DEF TxnRecords
  <2> HIDE DEF value
  <2> QED BY <2>1, <2>2, <2>3, <2>4, <2>5, <2>6
<1>4. ASSUME Commit(t)
      PROVE  \E value \in TxnRecords :
                /\ value.kind = txns[t].kind /\ txns[t].state = "open"
                /\ value.state = "committing" /\ value.buffered = txns[t].buffered
                /\ value.wrote = txns[t].wrote
                /\ txns' = [txns EXCEPT ![t] = value]
  <2> DEFINE value == [txns[t] EXCEPT !.state = "committing"]
  <2>1. value \in TxnRecords
    BY <1>1 DEF TxnRecords, TxnStates
  <2>2. txns[t].state = "open" /\ txns' = [txns EXCEPT ![t] = value]
    BY <1>4 DEF Commit
  <2>3. /\ value.kind = txns[t].kind /\ value.state = "committing"
        /\ value.buffered = txns[t].buffered /\ value.wrote = txns[t].wrote
    BY <1>1 DEF TxnRecords
  <2> HIDE DEF value
  <2> QED BY <2>1, <2>2, <2>3
<1>5. ASSUME Committed(t)
      PROVE  \E value \in TxnRecords :
                /\ value.kind = txns[t].kind /\ txns[t].state = "committing"
                /\ Len(txns[t].buffered) = 0
                /\ value.state = "committed" /\ value.buffered = txns[t].buffered
                /\ value.wrote = txns[t].wrote
                /\ txns' = [txns EXCEPT ![t] = value]
  <2> DEFINE value == [txns[t] EXCEPT !.state = "committed"]
  <2>1. value \in TxnRecords
    BY <1>1 DEF TxnRecords, TxnStates
  <2>2. /\ txns[t].state = "committing" /\ txns[t].buffered = << >>
        /\ txns' = [txns EXCEPT ![t] = value]
    BY <1>5 DEF Committed
  <2>3. /\ value.kind = txns[t].kind /\ value.state = "committed"
        /\ value.buffered = txns[t].buffered /\ value.wrote = txns[t].wrote
    BY <1>1 DEF TxnRecords
  <2>4. Len(txns[t].buffered) = 0
    BY <2>2
  <2> HIDE DEF value
  <2> QED BY <2>1, <2>2, <2>3, <2>4
<1>6. ASSUME Abort(t)
      PROVE  \E value \in TxnRecords :
                /\ value.kind = txns[t].kind /\ txns[t].state = "open"
                /\ value.state = "aborted" /\ value.buffered = << >>
                /\ value.wrote = txns[t].wrote
                /\ txns' = [txns EXCEPT ![t] = value]
  <2> DEFINE value == [txns[t] EXCEPT !.state = "aborted", !.buffered = << >>]
  <2>1. value \in TxnRecords
    BY <1>1, <1>n DEF TxnRecords, TxnStates
  <2>2. /\ txns[t].state = "open"
        /\ txns' = [txns EXCEPT ![t].state = "aborted", ![t].buffered = << >>]
    BY <1>6 DEF Abort
  <2>3. txns' = [txns EXCEPT ![t] = value]
    BY <1>1, <2>2 DEF Typed
  <2>4. /\ value.kind = txns[t].kind /\ value.state = "aborted" /\ value.buffered = << >>
        /\ value.wrote = txns[t].wrote
    BY <1>1 DEF TxnRecords
  <2> HIDE DEF value
  <2> QED BY <2>1, <2>2, <2>3, <2>4
<1>7. ASSUME CommitOne(t)
      PROVE  /\ txns[t].state = "committing" /\ Len(txns[t].buffered) > 0
             /\ \E value \in TxnRecords :
                /\ value.kind = txns[t].kind
                /\ value.wrote = txns[t].wrote
                /\ live => /\ value.state = "committing" /\ value.buffered = Tail(txns[t].buffered)
                           /\ Fanout(txns[t].buffered[1].name, txns[t].buffered[1].msg)
                /\ ~live => value.state = "failed" /\ value.buffered = << >> /\ sent' = sent
                /\ txns' = [txns EXCEPT ![t] = value]
  <2>1. txns[t].state = "committing" /\ txns[t].buffered # << >>
    BY <1>7 DEF CommitOne
  <2>2. Len(txns[t].buffered) > 0 /\ Head(txns[t].buffered) = txns[t].buffered[1]
    BY <1>2, <2>1
  <2>3. CASE live
    <3> DEFINE value == [txns[t] EXCEPT !.buffered = Tail(@)]
    <3>1. Tail(txns[t].buffered) \in Seq(Entries)
      BY <1>2, <2>1
    <3>2. value \in TxnRecords
      BY <1>1, <3>1 DEF TxnRecords
    <3>3. /\ Fanout(txns[t].buffered[1].name, txns[t].buffered[1].msg)
          /\ txns' = [txns EXCEPT ![t].buffered = Tail(@)]
      BY <1>7, <2>2, <2>3 DEF CommitOne
    <3>4. txns' = [txns EXCEPT ![t] = value]
      BY <3>3
    <3>5. /\ value.kind = txns[t].kind /\ value.state = txns[t].state
          /\ value.buffered = Tail(txns[t].buffered) /\ value.wrote = txns[t].wrote
      BY <1>1 DEF TxnRecords
    <3> HIDE DEF value
    <3> QED BY <2>1, <2>2, <2>3, <3>2, <3>3, <3>4, <3>5
  <2>4. CASE ~live
    <3> DEFINE value == [txns[t] EXCEPT !.state = "failed", !.buffered = << >>]
    <3>2. value \in TxnRecords
      BY <1>1, <1>n DEF TxnRecords, TxnStates
    <3>3. /\ sent' = sent
          /\ txns' = [txns EXCEPT ![t].state = "failed", ![t].buffered = << >>]
      BY <1>7, <2>4 DEF CommitOne
    <3>4. txns' = [txns EXCEPT ![t] = value]
      BY <1>1, <3>3 DEF Typed
    <3>5. /\ value.kind = txns[t].kind /\ value.state = "failed" /\ value.buffered = << >>
          /\ value.wrote = txns[t].wrote
      BY <1>1 DEF TxnRecords
    <3> HIDE DEF value
    <3> QED BY <2>1, <2>2, <2>4, <3>2, <3>3, <3>4, <3>5
  <2> QED BY <2>3, <2>4
<1> QED BY <1>1, <1>3, <1>4, <1>5, <1>6, <1>7

LEMMA BufferStep ==
  ASSUME Typed, NEW t \in DOMAIN txns, NEW name \in conf.names, NEW size \in conf.sizes,
         Buffer(t, name, size)
  PROVE  \E e \in Entries, value \in TxnRecords :
           /\ e.msg.by = <<"txn", t>>
           /\ value.kind = txns[t].kind /\ txns[t].state = "open" /\ value.state = "open"
           /\ value.buffered = Append(txns[t].buffered, e)
           /\ value.wrote = Append(txns[t].wrote, e)
           /\ txns' = [txns EXCEPT ![t] = value]
BY TxnSteps

\* What a direct publish, a request's and a reply leave, whether the bus took it or refused it.
LEMMA DirectEffect ==
  ASSUME Typed, NEW name, NEW msg \in Msgs, msg.by[1] # "txn", PublishDirect(name, msg)
  PROVE  /\ got' \in [Receivers -> Seq(Msgs)] /\ sent' = sent /\ published' \in Nat
         /\ \A r \in Receivers :
              got'[r] = got[r] \/ (r \in Reached(name) /\ got'[r] = Append(got[r], msg))
         /\ DOMAIN logs' \subseteq DOMAIN logs \cup {name}
         /\ ~live => logs' = logs
         /\ UNCHANGED <<conf, live, routing, names, groups, sub, inbox_seq, revivals>>
<1>1. /\ published' \in Nat
      /\ UNCHANGED <<conf, live, routing, names, groups, sub, inbox_seq, revivals>>
  BY DEF PublishDirect, Typed
<1>2. CASE live
  <2>1. Fanout(name, msg)
    BY <1>2 DEF PublishDirect
  <2> QED BY <1>1, <1>2, <2>1, FanoutEffect, NotATransaction
<1>3. CASE ~live
  <2>1. UNCHANGED <<got, sent, logs>>
    BY <1>3 DEF PublishDirect
  <2> QED BY <1>1, <2>1 DEF Typed
<1> QED BY <1>2, <1>3

LEMMA HandlePublish ==
  ASSUME Typed, NEW name \in conf.names, NEW size \in conf.sizes, PublishOnHandle(name, size)
  PROVE  \/ handle \in DOMAIN txns /\ Buffer(handle, name, size)
         \/ /\ UNCHANGED <<txns, handle, asks>>
            /\ \E msg \in Msgs : msg.by[1] # "txn" /\ msg.inbox = -1 /\ PublishDirect(name, msg)
<1>1. CASE handle # 0
  <2>1. handle \in DOMAIN txns
    BY <1>1 DEF Typed
  <2> QED BY <1>1, <2>1 DEF PublishOnHandle
<1>2. CASE handle = 0
  <2> DEFINE msg == Message(<<"direct">>, published + 1, -1, size)
  <2>1. published + 1 \in Nat
    BY DEF Typed
  <2>2. msg \in Msgs
    BY <2>1, MessageTypes
  <2>3. msg.by[1] # "txn" /\ msg.inbox = -1
    BY DEF Message
  <2>4. PublishDirect(name, msg) /\ UNCHANGED <<txns, handle, asks>>
    BY <1>2 DEF PublishOnHandle
  <2> HIDE DEF msg
  <2> QED BY <2>2, <2>3, <2>4
<1> QED BY <1>1, <1>2

\* A request that goes out.
LEMMA RequestEffect ==
  ASSUME Typed, NEW r \in Asks, NEW name \in conf.names, Request(r, name)
  PROVE  \E msg \in Msgs :
           /\ msg.by = <<"ask", r>> /\ msg.inbox = asks[r].inbox
           /\ got' \in [Receivers -> Seq(Msgs)] /\ sent' = sent
           /\ \A q \in Receivers :
                got'[q] = got[q] \/ (q \in Reached(name) /\ got'[q] = Append(got[q], msg))
           /\ DOMAIN logs' \subseteq DOMAIN logs \cup {name}
<1> DEFINE msg == Message(<<"ask", r>>, 1, asks[r].inbox, 0)
<1>1. asks[r].inbox \in Nat /\ 0 \in Nat
  BY DEF Typed, AskRecords
<1>2. msg \in Msgs
  BY <1>1, MessageTypes
<1>3. msg.by = <<"ask", r>> /\ msg.inbox = asks[r].inbox
  BY DEF Message
<1>4. msg.by[1] # "txn"
  BY <1>3
<1>5. CASE live
  <2>1. Fanout(name, msg)
    BY <1>5 DEF Request
  <2> HIDE DEF msg
  <2> QED BY <1>2, <1>3, <1>4, <2>1, FanoutEffect, NotATransaction
<1>6. CASE ~live
  <2>1. UNCHANGED <<got, sent, logs>>
    BY <1>6 DEF Request
  <2> HIDE DEF msg
  <2> QED BY <1>2, <1>3, <2>1 DEF Typed
<1> QED BY <1>5, <1>6

\* What each step of a request makes of its record.
LEMMA AskSteps ==
  ASSUME Typed, NEW r \in Asks
  PROVE  /\ Register(r) => /\ asks[r].state = "idle" /\ asks'[r].inbox = inbox_seq
                           /\ asks'[r].state = IF live THEN "registered" ELSE "done"
                           /\ asks'[r].outcome = IF live THEN asks[r].outcome ELSE "ShutDown"
                           /\ asks'[r].reply = asks[r].reply
         /\ \A name \in conf.names : Request(r, name) =>
                           /\ asks[r].state = "registered" /\ asks'[r].inbox = asks[r].inbox
                           /\ asks'[r].state = IF live THEN "waiting" ELSE "leaving"
                           /\ asks'[r].outcome = IF live THEN asks[r].outcome ELSE "ShutDown"
                           /\ asks'[r].reply = asks[r].reply
         /\ Awaited(r) =>  /\ asks[r].state = "waiting" /\ asks'[r].inbox = asks[r].inbox
                           /\ asks'[r].state = "leaving"
                           /\ asks'[r].outcome = "Reply" =>
                                /\ got[<<"ask", r>>] # << >>
                                /\ asks'[r].reply = Head(got[<<"ask", r>>]).by
         /\ Unregister(r) => /\ asks[r].state = "leaving" /\ asks'[r].inbox = asks[r].inbox
                             /\ asks'[r].state = "forgetting"
                             /\ asks'[r].outcome = asks[r].outcome /\ asks'[r].reply = asks[r].reply
         /\ Forget(r) =>   /\ asks[r].state = "forgetting" /\ asks'[r].inbox = asks[r].inbox
                           /\ asks'[r].state = "done"
                           /\ asks'[r].outcome = asks[r].outcome /\ asks'[r].reply = asks[r].reply
         /\ Cancel(r) =>   /\ asks[r].state = "waiting" /\ asks'[r].inbox = asks[r].inbox
                           /\ asks'[r].state = "cancelled"
                           /\ asks'[r].outcome = asks[r].outcome /\ asks'[r].reply = asks[r].reply
<1>1. asks \in [Asks -> AskRecords] /\ asks[r] \in AskRecords
  BY DEF Typed
<1>2. ASSUME Register(r)
      PROVE  /\ asks[r].state = "idle" /\ asks'[r].inbox = inbox_seq
             /\ asks'[r].state = IF live THEN "registered" ELSE "done"
             /\ asks'[r].outcome = IF live THEN asks[r].outcome ELSE "ShutDown"
             /\ asks'[r].reply = asks[r].reply
  BY <1>1, <1>2 DEF Register, AskRecords
<1>3. ASSUME NEW name \in conf.names, Request(r, name)
      PROVE  /\ asks[r].state = "registered" /\ asks'[r].inbox = asks[r].inbox
             /\ asks'[r].state = IF live THEN "waiting" ELSE "leaving"
             /\ asks'[r].outcome = IF live THEN asks[r].outcome ELSE "ShutDown"
             /\ asks'[r].reply = asks[r].reply
  BY <1>1, <1>3 DEF Request, AskRecords
<1>4. ASSUME Awaited(r)
      PROVE  /\ asks[r].state = "waiting" /\ asks'[r].inbox = asks[r].inbox
             /\ asks'[r].state = "leaving"
             /\ asks'[r].outcome = "Reply" =>
                  /\ got[<<"ask", r>>] # << >>
                  /\ asks'[r].reply = Head(got[<<"ask", r>>]).by
  BY <1>1, <1>4 DEF Awaited, AskRecords
<1>5. ASSUME Unregister(r)
      PROVE  /\ asks[r].state = "leaving" /\ asks'[r].inbox = asks[r].inbox
             /\ asks'[r].state = "forgetting"
             /\ asks'[r].outcome = asks[r].outcome /\ asks'[r].reply = asks[r].reply
  BY <1>1, <1>5 DEF Unregister, AskRecords
<1>6. ASSUME Forget(r)
      PROVE  /\ asks[r].state = "forgetting" /\ asks'[r].inbox = asks[r].inbox
             /\ asks'[r].state = "done"
             /\ asks'[r].outcome = asks[r].outcome /\ asks'[r].reply = asks[r].reply
  BY <1>1, <1>6 DEF Forget, AskRecords
<1>7. ASSUME Cancel(r)
      PROVE  /\ asks[r].state = "waiting" /\ asks'[r].inbox = asks[r].inbox
             /\ asks'[r].state = "cancelled"
             /\ asks'[r].outcome = asks[r].outcome /\ asks'[r].reply = asks[r].reply
  BY <1>1, <1>7 DEF Cancel, AskRecords
<1> QED BY <1>2, <1>3, <1>4, <1>5, <1>6, <1>7

\* The other requests go on undisturbed.
LEMMA AskOthers ==
  ASSUME Typed, NEW r \in Asks,
         \/ Register(r) \/ Awaited(r) \/ Unregister(r) \/ Forget(r) \/ Cancel(r)
         \/ \E name \in conf.names : Request(r, name)
  PROVE  \A q \in Asks : q # r => asks'[q] = asks[q]
BY DEF Typed, Register, Awaited, Unregister, Forget, Cancel, Request

\* A reply to r touches nothing of the requests but whether r was answered late.
LEMMA ReplyAsks ==
  ASSUME Typed, NEW r \in Asks,
         asks' = [asks EXCEPT ![r].late = @ \/ (asks[r].state = "done" /\ live)]
  PROVE  /\ \A q \in Asks : /\ asks'[q].state = asks[q].state /\ asks'[q].inbox = asks[q].inbox
                            /\ asks'[q].outcome = asks[q].outcome /\ asks'[q].reply = asks[q].reply
                            /\ asks[q].late => asks'[q].late
         /\ asks[r].state = "done" /\ live => asks'[r].late
<1>1. asks \in [Asks -> AskRecords] /\ \A q \in Asks : asks[q] \in AskRecords
  BY DEF Typed
<1>2. \A q \in Asks : q # r => asks'[q] = asks[q]
  BY <1>1
<1>3. /\ asks'[r].state = asks[r].state /\ asks'[r].inbox = asks[r].inbox
      /\ asks'[r].outcome = asks[r].outcome /\ asks'[r].reply = asks[r].reply
      /\ asks'[r].late <=> asks[r].late \/ (asks[r].state = "done" /\ live)
  BY <1>1 DEF AskRecords
<1> QED BY <1>2, <1>3

(***************************************************************************)
(* Whom a fan-out reaches                                                  *)
(***************************************************************************)
Matching(name) == {g \in DOMAIN groups : Matches(groups[g].text, name)}
Reading(name) == Matching(name) \cap LiveGroups
Claimed(name) == \E r \in Exact(name) : Receiving(r)

\* The groups the fan-out picks are registered ones that match, and under MostSpecific, with no
\* exact name that took it, the most specific of the live ones.
LEMMA PickedFacts ==
  ASSUME GroupsInv, routing \in Routings, NEW name \in Texts
  PROVE  /\ Picked(name) \subseteq Matching(name)
         /\ routing = "EveryMatch" => Picked(name) = Matching(name)
         /\ routing = "MostSpecific" /\ Claimed(name) => Picked(name) = {}
         /\ routing = "MostSpecific" /\ ~Claimed(name) /\ Reading(name) = {} => Picked(name) = {}
         /\ routing = "MostSpecific" /\ ~Claimed(name) /\ Reading(name) # {} =>
              \E g \in Reading(name) :
                /\ Picked(name) = {g}
                /\ \A h \in Reading(name) :
                     \/ groups[h].text = groups[g].text
                     \/ MoreSpecific(groups[g].text, groups[h].text)
<1> DEFINE texts == [g \in DOMAIN groups |-> groups[g].text]
<1>1. \A g \in DOMAIN groups : texts[g] = groups[g].text /\ texts[g] \in Texts
  <2> TAKE g \in DOMAIN groups
  <2>1. groups[g] \in GroupRecords
    BY DEF GroupsInv
  <2>2. groups[g].text \in Texts
    BY <2>1 DEF GroupRecords
  <2> QED BY <2>2
<1>2. DOMAIN groups = 1 .. Len(groups) /\ Len(groups) \in Nat
  BY DEF GroupsInv
<1>3. DOMAIN texts = DOMAIN groups
  OBVIOUS
<1>4. Picked(name) = Reach(routing, texts, LiveGroups, name, Claimed(name))
  BY DEF Picked, Claimed
<1> HIDE DEF texts
<1>5. {i \in DOMAIN texts : Matches(texts[i], name)} = Matching(name)
  BY <1>1, <1>3 DEF Matching
<1>6. Picked(name) = CASE routing = "EveryMatch"                    -> Matching(name)
                       [] routing = "MostSpecific" /\ Claimed(name) -> {}
                       [] OTHER -> IF Reading(name) = {} THEN {} ELSE {MaxBy(texts, Reading(name))}
  BY <1>4, <1>5 DEF Reach, Reading
<1>7. Reading(name) \subseteq Matching(name) /\ Reading(name) \in SUBSET (1 .. Len(groups))
  BY <1>2 DEF Reading, Matching
<1>8. \A g \in Reading(name) : texts[g] \in Texts /\ Matches(texts[g], name)
  BY <1>1 DEF Reading, Matching
<1>9. ASSUME Reading(name) # {}
      PROVE  /\ MaxBy(texts, Reading(name)) \in Reading(name)
             /\ \A h \in Reading(name) :
                  \/ texts[h] = texts[MaxBy(texts, Reading(name))]
                  \/ MoreSpecific(texts[MaxBy(texts, Reading(name))], texts[h])
  BY <1>2, <1>7, <1>8, <1>9, MaxByIsGreatest
<1>10. CASE routing = "EveryMatch"
  BY <1>6, <1>10
<1>11. CASE routing = "MostSpecific"
  <2>1. CASE Claimed(name)
    BY <1>6, <1>11, <2>1
  <2>2. CASE ~Claimed(name) /\ Reading(name) = {}
    BY <1>6, <1>11, <2>2
  <2>3. CASE ~Claimed(name) /\ Reading(name) # {}
    <3> DEFINE g == MaxBy(texts, Reading(name))
    <3>1. Picked(name) = {g}
      BY <1>6, <1>11, <2>3
    <3>2. g \in Reading(name) /\ \A h \in Reading(name) :
            texts[h] = texts[g] \/ MoreSpecific(texts[g], texts[h])
      BY <1>9, <2>3
    <3> HIDE DEF g
    <3>3. \A h \in Reading(name) : texts[h] = groups[h].text
      BY <1>1, <1>7 DEF Matching
    <3>4. \A h \in Reading(name) :
            groups[h].text = groups[g].text \/ MoreSpecific(groups[g].text, groups[h].text)
      BY <3>2, <3>3
    <3> QED BY <1>7, <1>11, <2>3, <3>1, <3>2, <3>4
  <2> QED BY <2>1, <2>2, <2>3
<1> QED BY <1>10, <1>11 DEF Routings

\* Only a publish to its inbox reaches a request.
LEMMA AskReached ==
  ASSUME NamesInv, GroupsInv, routing \in Routings, NEW name \in Texts,
         NEW r \in Asks, <<"ask", r>> \in Reached(name)
  PROVE  Owns(r, name)
<1>1. \A g \in Picked(name) : <<"ask", r>> \notin Range(groups[g].senders)
  BY PickedFacts DEF GroupsInv, Matching
<1>2. <<"ask", r>> \in Exact(name)
  BY <1>1 DEF Reached
<1> QED BY <1>2 DEF Exact, NamesInv

\* The text of a number, write!(.., "_inbox.{id}"): a name, and another for another number.
InboxesDiffer ==
  \A i, j \in Nat : InboxName(i) \in Texts /\ (InboxName(i) = InboxName(j) => i = j)

LEMMA InboxNames ==
  ASSUME InboxesDiffer, NEW i \in Nat
  PROVE  /\ InboxName(i) \in Texts /\ InboxName(i)[1] = "_inbox"
         /\ \A j \in Nat : InboxName(i) = InboxName(j) => i = j
<1>1. InboxName(i)[1] = "_inbox"
  BY DEF InboxName
<1> QED BY <1>1 DEF InboxesDiffer

\* register_pattern: the sender joins the group of the text, which is a new one if there was none.
LEMMA JoinedFacts ==
  ASSUME GroupsInv, NEW text \in Texts, NEW sender \in Receivers
  PROVE  /\ Joined(text, sender) \in Seq(GroupRecords)
         /\ DOMAIN groups \subseteq DOMAIN Joined(text, sender)
         /\ \A g \in DOMAIN groups :
              /\ Joined(text, sender)[g].text = groups[g].text
              /\ Range(Joined(text, sender)[g].senders) =
                   Range(groups[g].senders) \cup (IF groups[g].text = text THEN {sender} ELSE {})
         /\ \A g \in DOMAIN Joined(text, sender) \ DOMAIN groups :
              /\ g = Len(groups) + 1 /\ Joined(text, sender)[g].text = text
              /\ Range(Joined(text, sender)[g].senders) = {sender}
              /\ \A h \in DOMAIN groups : groups[h].text # text
         /\ \E g \in DOMAIN Joined(text, sender) : Joined(text, sender)[g].text = text
<1> DEFINE J == Joined(text, sender)
<1>1. groups \in Seq(GroupRecords) /\ DOMAIN groups = 1 .. Len(groups) /\ Len(groups) \in Nat
  BY DEF GroupsInv
<1>2. \A g \in DOMAIN groups : groups[g] \in GroupRecords
  BY <1>1
<1>3. \A g \in DOMAIN groups : groups[g].text \in Texts /\ groups[g].senders \in Seq(Receivers)
  BY <1>2 DEF GroupRecords
<1>4. CASE \E g \in DOMAIN groups : groups[g].text = text
  <2> DEFINE New(g) == IF groups[g].text = text
                         THEN [groups[g] EXCEPT !.senders = Append(@, sender)] ELSE groups[g]
  <2>1. J = [g \in DOMAIN groups |-> New(g)]
    BY <1>4 DEF Joined
  <2>2. ASSUME NEW g \in DOMAIN groups
        PROVE  /\ New(g) \in GroupRecords /\ New(g).text = groups[g].text
               /\ Range(New(g).senders) =
                    Range(groups[g].senders) \cup (IF groups[g].text = text THEN {sender} ELSE {})
    <3>1. CASE groups[g].text = text
      <4> DEFINE q == Append(groups[g].senders, sender)
      <4>1. q \in Seq(Receivers) /\ Range(q) = Range(groups[g].senders) \cup {sender}
        BY <1>3, RangeOfAppend
      <4>2. New(g) = [groups[g] EXCEPT !.senders = q]
        BY <3>1
      <4> HIDE DEF q, New
      <4>3. New(g) \in GroupRecords /\ New(g).text = groups[g].text /\ New(g).senders = q
        BY <1>2, <4>1, <4>2 DEF GroupRecords
      <4> QED BY <3>1, <4>1, <4>3
    <3>2. CASE groups[g].text # text
      <4>1. New(g) = groups[g]
        BY <3>2
      <4> HIDE DEF New
      <4> QED BY <1>2, <3>2, <4>1
    <3> QED BY <3>1, <3>2
  <2> HIDE DEF New, J
  <2>3. DOMAIN J = DOMAIN groups /\ \A g \in DOMAIN groups : J[g] = New(g)
    BY <2>1
  <2>4. J \in Seq(GroupRecords)
    <3>1. J = [g \in 1 .. Len(groups) |-> J[g]] /\ \A g \in 1 .. Len(groups) : J[g] \in GroupRecords
      BY <1>1, <2>1, <2>2, <2>3
    <3> QED BY <1>1, <3>1
  <2>5. \E g \in DOMAIN J : J[g].text = text
    BY <1>4, <2>2, <2>3
  <2>6. \A g \in DOMAIN groups :
          /\ J[g].text = groups[g].text
          /\ Range(J[g].senders) =
               Range(groups[g].senders) \cup (IF groups[g].text = text THEN {sender} ELSE {})
    BY <2>2, <2>3
  <2> QED BY <2>3, <2>4, <2>5, <2>6 DEF J
<1>5. CASE \A g \in DOMAIN groups : groups[g].text # text
  <2> DEFINE new == [text |-> text, senders |-> <<sender>>]
  <2>1. J = Append(groups, new)
    BY <1>5 DEF Joined
  <2>2. new \in GroupRecords /\ new.text = text /\ Range(new.senders) = {sender}
    <3>1. <<sender>> \in Seq(Receivers) /\ Range(<<sender>>) = {sender}
      BY RangeOfOne
    <3> DEFINE q == <<sender>>
    <3>2. new = [text |-> text, senders |-> q]
      OBVIOUS
    <3> HIDE DEF q, new
    <3>3. q \in Seq(Receivers) /\ Range(q) = {sender}
      BY <3>1 DEF q
    <3>4. new \in GroupRecords /\ new.text = text /\ new.senders = q
      BY <3>2, <3>3 DEF GroupRecords
    <3> QED BY <3>3, <3>4
  <2> HIDE DEF new, J
  <2>3. /\ J \in Seq(GroupRecords) /\ DOMAIN J = 1 .. Len(groups) + 1
        /\ J[Len(groups) + 1] = new
        /\ \A g \in DOMAIN groups : J[g] = groups[g]
    BY <1>1, <2>1, <2>2
  <2>4. \A g \in DOMAIN J \ DOMAIN groups : g = Len(groups) + 1
    BY <1>1, <2>3
  <2>5. Len(groups) + 1 \in DOMAIN J /\ DOMAIN groups \subseteq DOMAIN J
    BY <1>1, <2>3
  <2>6. \A g \in DOMAIN J \ DOMAIN groups :
          /\ g = Len(groups) + 1 /\ J[g].text = text /\ Range(J[g].senders) = {sender}
    BY <2>2, <2>3, <2>4
  <2>7. \A g \in DOMAIN groups :
          /\ J[g].text = groups[g].text
          /\ Range(J[g].senders) =
               Range(groups[g].senders) \cup (IF groups[g].text = text THEN {sender} ELSE {})
    BY <1>5, <2>3
  <2> QED BY <1>5, <2>2, <2>3, <2>5, <2>6, <2>7 DEF J
<1> QED BY <1>4, <1>5

\* The groups after a pattern's subscription.
LEMMA JoinedStep ==
  ASSUME GroupsInv, NEW text \in Texts, NEW sender \in Receivers, groups' = Joined(text, sender)
  PROVE  /\ groups' \in Seq(GroupRecords)
         /\ DOMAIN groups \subseteq DOMAIN groups'
         /\ \A g \in DOMAIN groups :
              /\ groups'[g].text = groups[g].text
              /\ Range(groups'[g].senders) =
                   Range(groups[g].senders) \cup (IF groups[g].text = text THEN {sender} ELSE {})
         /\ \A g \in DOMAIN groups' \ DOMAIN groups :
              /\ g = Len(groups) + 1 /\ groups'[g].text = text
              /\ Range(groups'[g].senders) = {sender}
              /\ \A h \in DOMAIN groups : groups[h].text # text
         /\ \E g \in DOMAIN groups' : groups'[g].text = text
<1>1. PICK J : J = groups'
  OBVIOUS
<1>2. J = Joined(text, sender)
  BY <1>1
<1>3. J \in Seq(GroupRecords) /\ DOMAIN groups \subseteq DOMAIN J
  BY <1>2, JoinedFacts
<1>4. \A g \in DOMAIN groups :
        /\ J[g].text = groups[g].text
        /\ Range(J[g].senders) =
             Range(groups[g].senders) \cup (IF groups[g].text = text THEN {sender} ELSE {})
  BY <1>2, JoinedFacts
<1>5. \A g \in DOMAIN J \ DOMAIN groups :
        /\ g = Len(groups) + 1 /\ J[g].text = text
        /\ Range(J[g].senders) = {sender}
        /\ \A h \in DOMAIN groups : groups[h].text # text
  BY <1>2, JoinedFacts
<1>6. \E g \in DOMAIN J : J[g].text = text
  BY <1>2, JoinedFacts
<1> QED BY <1>1, <1>3, <1>4, <1>5, <1>6

\* The three ends of a subscribe: refused, under an exact name, in the group of a pattern.
LEMMA SubscribeCases ==
  ASSUME Typed, NEW s \in Subs, Subscribe(s)
  PROVE  \E text \in Texts, state \in {"open", "refused"} :
           /\ sub[s].state = "idle"
           /\ sub' = [sub EXCEPT ![s] = [state |-> state, text |-> text, epoch |-> revivals]]
           /\ \/ /\ state = "refused" /\ names' = names /\ groups' = groups
              \/ /\ state = "open" /\ live /\ ~HasWildcard(text) /\ text[1] # "_inbox"
                 /\ groups' = groups
                 /\ names' = Put(names, text,
                                 Append(IF text \in DOMAIN names THEN names[text] ELSE << >>,
                                        <<"sub", s>>))
              \/ /\ state = "open" /\ live /\ Parses(text) /\ names' = names
                 /\ groups' = Joined(text, <<"sub", s>>)
<1>1. PICK target \in conf.targets :
        IF target.kind = "name" THEN SubscribeName(s, target.text)
                                ELSE SubscribePattern(s, target.text)
  BY DEF Subscribe
<1>2. target.text \in Texts /\ (target.kind = "name" => target.text[1] # "_inbox")
  BY ConfsAssumption DEF Typed
<1>3. sub[s].state = "idle"
  BY DEF Subscribe
<1> DEFINE text == target.text
<1>4. CASE target.kind = "name"
  <2>1. SubscribeName(s, text)
    BY <1>1, <1>4
  <2> HIDE DEF text
  <2>2. CASE HasWildcard(text) \/ ~live
    BY <1>2, <1>3, <2>1, <2>2 DEF SubscribeName, Refuse, text
  <2>3. CASE ~(HasWildcard(text) \/ ~live)
    BY <1>2, <1>3, <1>4, <2>1, <2>3 DEF SubscribeName, text
  <2> QED BY <2>2, <2>3
<1>5. CASE target.kind # "name"
  <2>1. SubscribePattern(s, text)
    BY <1>1, <1>5
  <2> HIDE DEF text
  <2>2. CASE ~Parses(text) \/ ~live
    BY <1>2, <1>3, <2>1, <2>2 DEF SubscribePattern, Refuse, text
  <2>3. CASE ~(~Parses(text) \/ ~live)
    BY <1>2, <1>3, <2>1, <2>3 DEF SubscribePattern, text
  <2> QED BY <2>2, <2>3
<1> QED BY <1>4, <1>5

\* What a receiver has after a fan-out: what it had, and the message where it was reached.
LEMMA GotGrows ==
  ASSUME Typed, NEW name, NEW msg \in Msgs, NEW x \in Receivers,
         got'[x] = got[x] \/ (x \in Reached(name) /\ got'[x] = Append(got[x], msg)),
         NEW i \in 1 .. Len(got'[x])
  PROVE  \/ i \in 1 .. Len(got[x]) /\ got'[x][i] = got[x][i]
         \/ x \in Reached(name) /\ got'[x][i] = msg
<1>1. got[x] \in Seq(Msgs) /\ Len(got[x]) \in Nat
  BY DEF Typed
<1>2. CASE got'[x] = got[x]
  BY <1>2
<1>3. CASE x \in Reached(name) /\ got'[x] = Append(got[x], msg)
  <2> DEFINE q == got[x]
  <2>1. q \in Seq(Msgs) /\ Len(q) \in Nat /\ got'[x] = Append(q, msg)
    BY <1>1, <1>3
  <2> HIDE DEF q
  <2>2. Len(Append(q, msg)) = Len(q) + 1 /\ Append(q, msg)[Len(q) + 1] = msg
        /\ \A j \in 1 .. Len(q) : Append(q, msg)[j] = q[j]
    BY <2>1
  <2>3. i \in 1 .. Len(q) + 1
    BY <2>1, <2>2
  <2>4. CASE i = Len(q) + 1
    BY <1>3, <2>1, <2>2, <2>4
  <2>5. CASE i \in 1 .. Len(q)
    BY <2>1, <2>2, <2>5 DEF q
  <2> QED BY <2>1, <2>3, <2>4, <2>5
<1> QED BY <1>2, <1>3

\* The requests that have begun go on with the inbox they have.
Ongoing == \A q \in Asks : asks[q].state # "idle" =>
                             asks'[q].state # "idle" /\ asks'[q].inbox = asks[q].inbox

LEMMA GotKept ==
  ASSUME Typed, NamesInv, GroupsInv, GotInv, routing \in Routings, Asks' = Asks, Subs' = Subs,
         NEW name \in Texts, NEW msg \in Msgs,
         \A x \in Receivers :
           got'[x] = got[x] \/ (x \in Reached(name) /\ got'[x] = Append(got[x], msg)),
         \A r \in Asks : Owns(r, name) => msg.by = <<"reply", r>>,
         msg.inbox # -1 => \E r \in Asks : /\ msg.by = <<"ask", r>> /\ msg.inbox = asks'[r].inbox
                                           /\ asks'[r].state # "idle",
         Ongoing, ReplyIsMine'
  PROVE  GotInv'
<1>1. ASSUME NEW r \in Asks, NEW i \in 1 .. Len(got'[<<"ask", r>>])
      PROVE  got'[<<"ask", r>>][i].by = <<"reply", r>>
  <2> DEFINE x == <<"ask", r>>
  <2>1. x \in Receivers
    BY DEF Receivers
  <2>2. x \in Reached(name) => msg.by = <<"reply", r>>
    BY AskReached
  <2>3. \A j \in 1 .. Len(got[x]) : got[x][j].by = <<"reply", r>>
    BY DEF GotInv
  <2>4. i \in 1 .. Len(got'[x])
    BY <1>1
  <2> HIDE DEF x
  <2>5. \/ i \in 1 .. Len(got[x]) /\ got'[x][i] = got[x][i]
        \/ x \in Reached(name) /\ got'[x][i] = msg
    BY <2>1, <2>4, GotGrows
  <2>6. got'[x][i].by = <<"reply", r>>
    BY <2>2, <2>3, <2>5
  <2> QED BY <2>6 DEF x
<1>2. ASSUME NEW s \in Subs, NEW i \in 1 .. Len(got'[<<"sub", s>>]),
             got'[<<"sub", s>>][i].inbox # -1
      PROVE  \E r \in Asks : /\ got'[<<"sub", s>>][i].by = <<"ask", r>>
                             /\ got'[<<"sub", s>>][i].inbox = asks'[r].inbox
                             /\ asks'[r].state # "idle"
  <2> DEFINE x == <<"sub", s>>
  <2>1. x \in Receivers
    BY DEF Receivers
  <2>2. \A j \in 1 .. Len(got[x]) : got[x][j].inbox # -1 =>
          \E r \in Asks : /\ got[x][j].by = <<"ask", r>> /\ got[x][j].inbox = asks[r].inbox
                          /\ asks[r].state # "idle"
    BY DEF GotInv
  <2>3. i \in 1 .. Len(got'[x]) /\ got'[x][i].inbox # -1
    BY <1>2
  <2> HIDE DEF x
  <2>4. \/ i \in 1 .. Len(got[x]) /\ got'[x][i] = got[x][i]
        \/ x \in Reached(name) /\ got'[x][i] = msg
    BY <2>1, <2>3, GotGrows
  <2>5. \E r \in Asks : /\ got'[x][i].by = <<"ask", r>> /\ got'[x][i].inbox = asks'[r].inbox
                        /\ asks'[r].state # "idle"
    BY <2>2, <2>3, <2>4 DEF Ongoing
  <2> QED BY <2>5 DEF x
<1> QED BY <1>1, <1>2 DEF GotInv

LEMMA GotStays ==
  ASSUME GotInv, Asks' = Asks, Subs' = Subs, got' = got, Ongoing, ReplyIsMine'
  PROVE  GotInv'
<1>1. ASSUME NEW s \in Subs, NEW i \in 1 .. Len(got[<<"sub", s>>]), got[<<"sub", s>>][i].inbox # -1
      PROVE  \E r \in Asks : /\ got[<<"sub", s>>][i].by = <<"ask", r>>
                             /\ got[<<"sub", s>>][i].inbox = asks'[r].inbox
                             /\ asks'[r].state # "idle"
  BY <1>1 DEF GotInv, Ongoing
<1> QED BY <1>1 DEF GotInv

(***************************************************************************)
(* Every step keeps the invariant                                          *)
(***************************************************************************)

LEMMA StepTypes ==
  ASSUME Typed, GotInv, [Next]_vars
  PROVE  Typed'
  <1>k. /\ conf' = conf /\ Subs' = Subs /\ Asks' = Asks /\ Receivers' = Receivers
        /\ Senders' = Senders /\ Msgs' = Msgs /\ Entries' = Entries
        /\ SubRecords' = SubRecords /\ TxnRecords' = TxnRecords /\ AskRecords' = AskRecords
    BY ConfKept
  <1>t. /\ conf \in Confs /\ sub \in [Subs -> SubRecords] /\ got \in [Receivers -> Seq(Msgs)]
        /\ txns \in Seq(TxnRecords) /\ handle \in 0 .. Len(txns) /\ asks \in [Asks -> AskRecords]
        /\ inbox_seq \in Nat /\ sent \in Seq(Seq(Entries)) /\ published \in Nat
        /\ revivals \in Nat /\ Typed
    BY DEF Typed
  <1>1. CASE SetRouting
    BY <1>k, <1>t, <1>1 DEF SetRouting, Typed
  <1>2. CASE Shutdown
    BY <1>k, <1>t, <1>2 DEF Shutdown, Typed
  <1>3. CASE Connect
    BY <1>k, <1>t, <1>3 DEF Connect, Typed
  <1>4. CASE BeginTransaction
    BY <1>k, <1>t, <1>4 DEF BeginTransaction, Open, Typed, TxnRecords, TxnStates
  <1>5. CASE OpenTransaction
    BY <1>k, <1>t, <1>5 DEF OpenTransaction, Open, Typed, TxnRecords, TxnStates
  <1>6. ASSUME NEW s \in Subs, Subscribe(s)
        PROVE  Typed'
    <2>1. PICK target \in conf.targets :
            IF target.kind = "name" THEN SubscribeName(s, target.text)
                                    ELSE SubscribePattern(s, target.text)
      BY <1>6 DEF Subscribe
    <2>2. target.text \in Seq(STRING)
      BY <1>t, ConfsAssumption DEF Texts
    <2>3. \E value \in SubRecords : sub' = [sub EXCEPT ![s] = value]
      <3>1. \A state \in {"open", "refused"} :
              [state |-> state, text |-> target.text, epoch |-> revivals] \in SubRecords
        BY <1>t, <2>2 DEF SubRecords
      <3>2. \E state \in {"open", "refused"} :
              sub' = [sub EXCEPT ![s] = [state |-> state, text |-> target.text, epoch |-> revivals]]
        BY <2>1 DEF SubscribeName, SubscribePattern, Refuse
      <3> QED BY <3>1, <3>2
    <2>4. sub' \in [Subs -> SubRecords]
      BY <1>t, <2>3
    <2> QED BY <1>k, <1>t, <2>4, <1>6 DEF Subscribe, Typed
  <1>7. ASSUME NEW s \in Subs, Unsubscribe(s)
        PROVE  Typed'
    BY <1>k, <1>t, <1>7 DEF Unsubscribe, Typed, SubRecords
  <1>8. ASSUME NEW s \in Subs, Reply(s)
        PROVE  Typed'
    <2>1. PICK r \in Asks, msg \in Msgs :
            /\ msg = Message(<<"reply", r>>, published + 1, -1, 1)
            /\ PublishDirect(InboxName(asks[r].inbox), msg)
            /\ asks' = [asks EXCEPT ![r].late = @ \/ (asks[r].state = "done" /\ live)]
            /\ UNCHANGED <<txns, handle>>
      BY <1>t, <1>8, ReplyFacts
    <2>2. msg.by[1] # "txn"
      BY <2>1 DEF Message
    <2>3. asks' \in [Asks -> AskRecords]
      <3>1. "idle" \in AskStates /\ (asks[r].state = "done" /\ live) \in BOOLEAN
        BY DEF AskStates
      <3> QED BY <1>t, <2>1, <3>1, AskUpdates
    <2> QED BY <1>k, <1>t, <2>1, <2>2, <2>3, DirectEffect DEF Typed
  <1>9. ASSUME NEW name \in conf.names, NEW size \in conf.sizes, PublishOnHandle(name, size)
        PROVE  Typed'
    <2>1. CASE handle \in DOMAIN txns /\ Buffer(handle, name, size)
      <3>1. PICK value \in TxnRecords : txns' = [txns EXCEPT ![handle] = value]
        BY <1>t, <2>1, BufferStep
      <3>2. txns' \in Seq(TxnRecords) /\ Len(txns') = Len(txns)
        BY <1>t, <2>1, <3>1, TxnUpdates
      <3> QED BY <1>t, <1>k, <3>2, <2>1 DEF Buffer, Typed
    <2>2. CASE /\ UNCHANGED <<txns, handle, asks>>
               /\ \E msg \in Msgs : msg.by[1] # "txn" /\ msg.inbox = -1 /\ PublishDirect(name, msg)
      BY <1>t, <1>k, <2>2, DirectEffect DEF Typed
    <2> QED BY <1>t, <1>9, <2>1, <2>2, HandlePublish
  <1>10. ASSUME NEW t \in DOMAIN txns, NEW name \in conf.names, NEW size \in conf.sizes,
                PublishOwned(t, name, size)
         PROVE  Typed'
    <2>1. Buffer(t, name, size)
      BY <1>10 DEF PublishOwned
    <2>2. PICK value \in TxnRecords : txns' = [txns EXCEPT ![t] = value]
      BY <1>t, <2>1, BufferStep
    <2>3. txns' \in Seq(TxnRecords) /\ Len(txns') = Len(txns)
      BY <1>t, <2>2, TxnUpdates
    <2> QED BY <1>t, <1>k, <2>1, <2>3 DEF Buffer, Typed
  <1>11. ASSUME NEW t \in DOMAIN txns, Commit(t)
         PROVE  Typed'
    <2>1. PICK value \in TxnRecords : txns' = [txns EXCEPT ![t] = value]
      BY <1>t, <1>11, TxnSteps
    <2>2. txns' \in Seq(TxnRecords) /\ Len(txns') = Len(txns)
      BY <1>t, <2>1, TxnUpdates
    <2>3. handle' \in 0 .. Len(txns)
      BY <1>t, <1>11 DEF Commit, Taken
    <2> QED BY <1>t, <1>k, <2>2, <2>3, <1>11 DEF Commit, Typed
  <1>12. ASSUME NEW t \in DOMAIN txns, CommitOne(t)
         PROVE  Typed'
    <2>1. PICK value \in TxnRecords : txns' = [txns EXCEPT ![t] = value]
      BY <1>t, <1>12, TxnSteps
    <2>2. txns' \in Seq(TxnRecords) /\ Len(txns') = Len(txns)
      BY <1>t, <2>1, TxnUpdates
    <2>3. UNCHANGED <<conf, live, sub, handle, asks, inbox_seq, published, revivals>>
      BY <1>12 DEF CommitOne
    <2>4. got' \in [Receivers -> Seq(Msgs)] /\ sent' \in Seq(Seq(Entries))
      <3>1. CASE ~live
        <4>1. UNCHANGED <<got, sent>>
          BY <3>1, <1>12 DEF CommitOne
        <4> QED BY <1>t, <4>1
      <3>2. CASE live
        <4>1. Len(txns[t].buffered) > 0 /\ Fanout(txns[t].buffered[1].name, txns[t].buffered[1].msg)
          BY <1>t, <3>2, <1>12, TxnSteps
        <4>2. txns[t].buffered \in Seq(Entries)
          <5>1. txns[t] \in TxnRecords
            BY <1>t, TxnSteps
          <5> QED BY <5>1 DEF TxnRecords
        <4>3. PICK e \in Entries : e = txns[t].buffered[1]
          BY <4>1, <4>2
        <4>4. e.msg \in Msgs /\ e.msg.by[1] = "txn" /\ [name |-> e.name, msg |-> e.msg] = e
          BY 0 \in Nat, MessageTypes
        <4>5. sent' = [sent EXCEPT ![e.msg.by[2]] = Append(@, e)]
          BY <4>1, <4>3, <4>4 DEF Fanout
        <4>6. sent' \in Seq(Seq(Entries))
          <5> DEFINE k == e.msg.by[2]
          <5>1. k \in DOMAIN sent => Append(sent[k], e) \in Seq(Entries)
            BY <1>t
          <5>2. sent' = [sent EXCEPT ![k] = Append(sent[k], e)]
            BY <4>5
          <5> HIDE DEF k
          <5> QED BY <1>t, <5>1, <5>2, SeqUpdate
        <4> QED BY <1>t, <4>1, <4>3, <4>4, <4>6, FanoutEffect
      <3> QED BY <3>1, <3>2
    <2> QED BY <1>t, <1>k, <2>2, <2>3, <2>4 DEF Typed
  <1>13. ASSUME NEW t \in DOMAIN txns, Committed(t)
         PROVE  Typed'
    <2>1. PICK value \in TxnRecords : txns' = [txns EXCEPT ![t] = value]
      BY <1>t, <1>13, TxnSteps
    <2>2. txns' \in Seq(TxnRecords) /\ Len(txns') = Len(txns)
      BY <1>t, <2>1, TxnUpdates
    <2>3. handle' \in 0 .. Len(txns)
      BY <1>t, <1>13 DEF Committed, Taken
    <2> QED BY <1>t, <1>k, <2>2, <2>3, <1>13 DEF Committed, Typed
  <1>14. ASSUME NEW t \in DOMAIN txns, Abort(t)
         PROVE  Typed'
    <2>1. PICK value \in TxnRecords : txns' = [txns EXCEPT ![t] = value]
      BY <1>t, <1>14, TxnSteps
    <2>2. txns' \in Seq(TxnRecords) /\ Len(txns') = Len(txns)
      BY <1>t, <2>1, TxnUpdates
    <2>3. handle' \in 0 .. Len(txns)
      BY <1>t, <1>14 DEF Abort, Taken
    <2> QED BY <1>t, <1>k, <2>2, <2>3, <1>14 DEF Abort, Typed
  <1>15. ASSUME NEW r \in Asks, NEW name \in conf.names, Request(r, name)
         PROVE  Typed'
    <2>1. "waiting" \in AskStates /\ "leaving" \in AskStates
      BY DEF AskStates
    <2>2. asks' \in [Asks -> AskRecords]
      <3>1. CASE live
        <4>1. asks' = [asks EXCEPT ![r].state = "waiting"]
          BY <3>1, <1>15 DEF Request
        <4> QED BY <1>t, <2>1, <4>1, AskUpdates
      <3>2. CASE ~live
        <4>1. asks' = [asks EXCEPT ![r].state = "leaving", ![r].outcome = "ShutDown"]
          BY <3>2, <1>15 DEF Request
        <4> QED BY <1>t, <2>1, <4>1, AskUpdates
      <3> QED BY <3>1, <3>2
    <2>3. UNCHANGED <<conf, live, sub, txns, handle, inbox_seq, published, revivals>>
      BY <1>15 DEF Request
    <2> QED BY <1>k, <1>t, <2>2, <2>3, <1>15, RequestEffect DEF Typed
  <1>16. ASSUME NEW r \in Asks, Register(r)
         PROVE  Typed'
    <2>1. "registered" \in AskStates /\ "done" \in AskStates
      BY DEF AskStates
    <2>2. asks' \in [Asks -> AskRecords]
      <3>1. CASE live
        <4>1. asks' = [asks EXCEPT ![r].state = "registered", ![r].inbox = inbox_seq]
          BY <3>1, <1>16 DEF Register
        <4> QED BY <1>t, <2>1, <4>1, AskUpdates
      <3>2. CASE ~live
        <4>1. asks' = [asks EXCEPT ![r].state = "done", ![r].inbox = inbox_seq,
                                   ![r].outcome = "ShutDown"]
          BY <3>2, <1>16 DEF Register
        <4> QED BY <1>t, <2>1, <4>1, AskUpdates
      <3> QED BY <3>1, <3>2
    <2> QED BY <1>t, <1>k, <2>2, <1>16 DEF Register, FetchAdd, Typed
  <1>17. ASSUME NEW r \in Asks, Awaited(r)
         PROVE  Typed'
    <2>1. "leaving" \in AskStates
      BY DEF AskStates
    <2>2. asks' \in [Asks -> AskRecords]
      <3>1. CASE got[<<"ask", r>>] = << >>
        BY <1>t, <2>1, <3>1, <1>17, AskUpdates DEF Awaited
      <3>2. CASE got[<<"ask", r>>] # << >>
        <4>1. <<"ask", r>> \in Receivers
          BY DEF Receivers
        <4>2. Head(got[<<"ask", r>>]).by = <<"reply", r>>
          <5>1. got[<<"ask", r>>] \in Seq(Msgs)
            BY <1>t, <4>1
          <5>2. 1 \in 1 .. Len(got[<<"ask", r>>]) /\ Head(got[<<"ask", r>>]) = got[<<"ask", r>>][1]
            BY <3>2, <5>1
          <5> QED BY <5>2 DEF GotInv
        <4>3. <<"reply", r>> \in Senders
          BY DEF Senders
        <4> DEFINE by == <<"reply", r>>
        <4>4. asks' = [asks EXCEPT ![r].state = "leaving", ![r].outcome = "Reply", ![r].reply = by]
          BY <3>2, <4>2, <1>17 DEF Awaited
        <4> HIDE DEF by
        <4> QED BY <1>t, <2>1, <4>3, <4>4, AskUpdates DEF by
      <3> QED BY <3>1, <3>2
    <2> QED BY <1>t, <1>k, <2>2, <1>17 DEF Awaited, Typed
  <1>18. ASSUME NEW r \in Asks, Unregister(r)
         PROVE  Typed'
    <2>1. "forgetting" \in AskStates
      BY DEF AskStates
    <2>2. asks' \in [Asks -> AskRecords]
      BY <1>t, <2>1, <1>18, AskUpdates DEF Unregister
    <2> QED BY <1>t, <1>k, <2>2, <1>18 DEF Unregister, Typed
  <1>19. ASSUME NEW r \in Asks, Forget(r)
         PROVE  Typed'
    <2>1. "done" \in AskStates
      BY DEF AskStates
    <2>2. asks' \in [Asks -> AskRecords]
      BY <1>t, <2>1, <1>19, AskUpdates DEF Forget
    <2> QED BY <1>t, <1>k, <2>2, <1>19 DEF Forget, Typed
  <1>20. ASSUME NEW r \in Asks, Cancel(r)
         PROVE  Typed'
    <2>1. "cancelled" \in AskStates
      BY DEF AskStates
    <2>2. asks' \in [Asks -> AskRecords]
      BY <1>t, <2>1, <1>20, AskUpdates DEF Cancel
    <2> QED BY <1>t, <1>k, <2>2, <1>20 DEF Cancel, Typed
  <1>21. CASE \/ UNCHANGED vars
    BY <1>k, <1>t, <1>21 DEF vars, Typed
  <1> QED
    BY <1>1, <1>2, <1>3, <1>4, <1>5, <1>6, <1>7, <1>8, <1>9, <1>10, <1>11, <1>12, <1>13, <1>14,
       <1>15, <1>16, <1>17, <1>18, <1>19, <1>20, <1>21 DEF Next

LEMMA StepTxns ==
  ASSUME Typed, TxnInv, GotInv, [Next]_vars
  PROVE  TxnInv'
  <1>t. /\ txns \in Seq(TxnRecords) /\ handle \in 0 .. Len(txns) /\ sent \in Seq(Seq(Entries))
        /\ DOMAIN txns = 1 .. Len(txns)
    BY DEF Typed
  <1>s. /\ Len(sent) = Len(txns) /\ \A u \in DOMAIN txns : TxnHolds(u, txns[u], sent[u])
        /\ handle # 0 => txns[handle].kind = "handle" /\ txns[handle].state = "open"
    BY DEF TxnInv
  <1>r. \A u \in DOMAIN txns : /\ u \in DOMAIN sent /\ sent[u] \in Seq(Entries)
                               /\ txns[u].buffered \in Seq(Entries)
                               /\ txns[u].wrote \in Seq(Entries)
    <2> TAKE u \in DOMAIN txns
    <2>1. txns[u] \in TxnRecords /\ u \in DOMAIN sent /\ sent[u] \in Seq(Entries)
      BY <1>t, <1>s
    <2> QED BY <2>1 DEF TxnRecords
  <1>e. UNCHANGED <<txns, handle, sent>> => TxnInv'
    BY DEF TxnInv
  <1>1. CASE BeginTransaction
    <2> DEFINE value == [kind |-> "handle", state |-> "open", buffered |-> << >>, wrote |-> << >>]
    <2>1. txns' = Append(txns, value) /\ sent' = Append(sent, << >>) /\ handle' = Len(txns) + 1
      BY <1>1 DEF BeginTransaction, Open
    <2>2. TxnHolds(Len(txns) + 1, value, << >>)
      BY DEF TxnHolds, Splits
    <2>3. value.kind = "handle" /\ value.state = "open"
      OBVIOUS
    <2> HIDE DEF value
    <2> QED BY <1>t, <1>s, <1>r, <2>1, <2>2, <2>3 DEF TxnInv
  <1>2. CASE OpenTransaction
    <2> DEFINE value == [kind |-> "owned", state |-> "open", buffered |-> << >>, wrote |-> << >>]
    <2>1. txns' = Append(txns, value) /\ sent' = Append(sent, << >>) /\ handle' = handle
      BY <1>2 DEF OpenTransaction, Open
    <2>2. TxnHolds(Len(txns) + 1, value, << >>)
      BY DEF TxnHolds, Splits
    <2> HIDE DEF value
    <2> QED BY <1>t, <1>s, <1>r, <2>1, <2>2 DEF TxnInv
  <1>3. ASSUME NEW s \in Subs, Reply(s)
        PROVE  TxnInv'
    <2>1. PICK r \in Asks, msg \in Msgs :
            /\ msg = Message(<<"reply", r>>, published + 1, -1, 1)
            /\ PublishDirect(InboxName(asks[r].inbox), msg)
            /\ UNCHANGED <<txns, handle>>
      BY <1>3, ReplyFacts
    <2>2. msg.by[1] # "txn"
      BY <2>1 DEF Message
    <2> QED BY <1>e, <2>1, <2>2, DirectEffect
  <1>4. ASSUME NEW name \in conf.names, NEW size \in conf.sizes, PublishOnHandle(name, size)
        PROVE  TxnInv'
    <2>1. CASE handle \in DOMAIN txns /\ Buffer(handle, name, size)
      <3>2. PICK e \in Entries, value \in TxnRecords :
              /\ e.msg.by = <<"txn", handle>>
              /\ value.kind = txns[handle].kind /\ txns[handle].state = "open"
              /\ value.state = "open"
              /\ value.buffered = Append(txns[handle].buffered, e)
              /\ value.wrote = Append(txns[handle].wrote, e)
              /\ txns' = [txns EXCEPT ![handle] = value]
        BY <2>1, BufferStep
      <3>3. UNCHANGED <<sent, handle>>
        BY <2>1 DEF Buffer
      <3>4. Splits(sent[handle], value.buffered, value.wrote)
        <4>1. Splits(sent[handle], txns[handle].buffered, txns[handle].wrote)
          BY <1>s, <3>2, <2>1 DEF TxnHolds
        <4> QED BY <1>r, <3>2, <4>1, <2>1, SplitsGrows
      <3>5. TxnHolds(handle, value, sent[handle])
        <4>1. \A i \in 1 .. Len(value.buffered) : value.buffered[i].msg.by = <<"txn", handle>>
          <5>1. \A i \in 1 .. Len(txns[handle].buffered) :
                  txns[handle].buffered[i].msg.by = <<"txn", handle>>
            BY <1>s, <2>1 DEF TxnHolds
          <5> QED BY <1>r, <3>2, <5>1, <2>1
        <4>2. Len(sent[handle]) = 0
          BY <1>s, <3>2, <2>1 DEF TxnHolds
        <4> QED BY <3>2, <3>4, <4>1, <4>2 DEF TxnHolds
      <3> QED BY <1>t, <1>s, <3>2, <3>3, <3>5, <2>1, TxnUpdates DEF TxnInv
    <2>2. CASE /\ UNCHANGED <<txns, handle, asks>>
               /\ \E msg \in Msgs : msg.by[1] # "txn" /\ msg.inbox = -1 /\ PublishDirect(name, msg)
      BY <1>e, <2>2, DirectEffect
    <2> QED BY <1>4, <2>1, <2>2, HandlePublish
  <1>5. ASSUME NEW t \in DOMAIN txns, NEW name \in conf.names, NEW size \in conf.sizes,
               PublishOwned(t, name, size)
        PROVE  TxnInv'
    <2>1. Buffer(t, name, size) /\ t \in DOMAIN txns
      BY <1>5 DEF PublishOwned
    <2>2. PICK e \in Entries, value \in TxnRecords :
            /\ e.msg.by = <<"txn", t>>
            /\ value.kind = txns[t].kind /\ txns[t].state = "open" /\ value.state = "open"
            /\ value.buffered = Append(txns[t].buffered, e)
            /\ value.wrote = Append(txns[t].wrote, e)
            /\ txns' = [txns EXCEPT ![t] = value]
      BY <2>1, BufferStep
    <2>3. UNCHANGED <<sent, handle>>
      BY <2>1 DEF Buffer
    <2>4. Splits(sent[t], value.buffered, value.wrote)
      <3>1. Splits(sent[t], txns[t].buffered, txns[t].wrote)
        BY <1>s, <2>2, <2>1 DEF TxnHolds
      <3> QED BY <1>r, <2>2, <3>1, <2>1, SplitsGrows
    <2>5. TxnHolds(t, value, sent[t])
      <3>1. \A i \in 1 .. Len(value.buffered) : value.buffered[i].msg.by = <<"txn", t>>
        <4>1. \A i \in 1 .. Len(txns[t].buffered) : txns[t].buffered[i].msg.by = <<"txn", t>>
          BY <1>s, <2>1 DEF TxnHolds
        <4> QED BY <1>r, <2>2, <4>1, <2>1
      <3>2. Len(sent[t]) = 0
        BY <1>s, <2>2, <2>1 DEF TxnHolds
      <3> QED BY <2>2, <2>4, <3>1, <3>2 DEF TxnHolds
    <2> QED BY <1>t, <1>s, <2>2, <2>3, <2>5, <2>1, TxnUpdates DEF TxnInv
  <1>6. ASSUME NEW t \in DOMAIN txns, Commit(t)
        PROVE  TxnInv'
    <2>1. PICK value \in TxnRecords : /\ value.kind = txns[t].kind /\ txns[t].state = "open"
                                       /\ value.state = "committing"
                                       /\ value.buffered = txns[t].buffered
                                       /\ value.wrote = txns[t].wrote
                                       /\ txns' = [txns EXCEPT ![t] = value]
      BY <1>6, TxnSteps
    <2>2. UNCHANGED sent
      BY <1>6 DEF Commit
    <2>3. TxnHolds(t, value, sent[t])
      <3>1. Len(<< >>) = 0 /\ TxnHolds(t, txns[t], sent[t])
        BY <1>s
      <3> QED BY <2>1, <3>1 DEF TxnHolds
    <2>4. handle' # 0 => handle' # t /\ handle' = handle
      BY <1>s, <2>1, <1>6 DEF Commit, Taken
    <2> QED BY <1>t, <1>s, <2>1, <2>2, <2>3, <2>4, TxnUpdates DEF TxnInv
  <1>7. ASSUME NEW t \in DOMAIN txns, CommitOne(t)
        PROVE  TxnInv'
    <2>1. txns[t].state = "committing" /\ Len(txns[t].buffered) > 0
      BY <1>7, TxnSteps
    <2>2. PICK value \in TxnRecords :
            /\ value.kind = txns[t].kind /\ value.wrote = txns[t].wrote
            /\ live => /\ value.state = "committing" /\ value.buffered = Tail(txns[t].buffered)
                       /\ Fanout(txns[t].buffered[1].name, txns[t].buffered[1].msg)
            /\ ~live => value.state = "failed" /\ value.buffered = << >> /\ sent' = sent
            /\ txns' = [txns EXCEPT ![t] = value]
      BY <1>7, TxnSteps
    <2>3. handle' = handle /\ handle # t
      BY <1>s, <2>1, <1>7 DEF CommitOne
    <2>4. /\ Splits(sent[t], txns[t].buffered, txns[t].wrote)
          /\ \A i \in 1 .. Len(txns[t].buffered) : txns[t].buffered[i].msg.by = <<"txn", t>>
      BY <1>s, <2>1 DEF TxnHolds
    <2>5. CASE live
      <3>1. PICK e \in Entries : e = txns[t].buffered[1] /\ e.msg.by = <<"txn", t>>
        BY <1>r, <2>1, <2>4
      <3>2. sent' = [sent EXCEPT ![t] = Append(@, e)]
        <4>1. Fanout(e.name, e.msg) /\ t \in Nat
          BY <1>t, <2>2, <2>5, <3>1
        <4> QED BY <3>1, <4>1, OfATransaction
      <3>3. Splits(Append(sent[t], e), value.buffered, value.wrote)
        BY <1>r, <2>1, <2>2, <2>4, <2>5, <3>1, SplitsMoves
      <3>4. \A i \in 1 .. Len(value.buffered) : value.buffered[i].msg.by = <<"txn", t>>
        <4>1. txns[t].buffered \in Seq(Entries) /\ value.buffered = Tail(txns[t].buffered)
          BY <1>r, <2>2, <2>5
        <4>2. \A i \in 1 .. Len(value.buffered) :
                i + 1 \in 1 .. Len(txns[t].buffered) /\ value.buffered[i] = txns[t].buffered[i + 1]
          BY <2>1, <4>1
        <4> QED BY <2>4, <4>2
      <3>5. TxnHolds(t, value, Append(sent[t], e))
        BY <2>2, <2>5, <3>3, <3>4 DEF TxnHolds
      <3>6. /\ Len(sent') = Len(sent) /\ sent'[t] = Append(sent[t], e)
            /\ \A u \in DOMAIN txns : u # t => sent'[u] = sent[u]
        BY <1>t, <1>r, <3>2
      <3>7. /\ DOMAIN txns' = DOMAIN txns /\ Len(txns') = Len(txns) /\ txns'[t] = value
            /\ \A u \in DOMAIN txns : u # t => txns'[u] = txns[u]
        BY <1>t, <2>2, TxnUpdates
      <3>8. \A u \in DOMAIN txns : TxnHolds(u, txns'[u], sent'[u])
        BY <1>s, <3>5, <3>6, <3>7
      <3>9. handle' # 0 => txns'[handle'].kind = "handle" /\ txns'[handle'].state = "open"
        <4>1. handle # 0 => handle \in DOMAIN txns
          BY <1>t
        <4>2. handle # 0 => txns'[handle] = txns[handle]
          BY <2>3, <3>7, <4>1
        <4> QED BY <1>s, <2>3, <4>2
      <3> QED BY <1>s, <3>6, <3>7, <3>8, <3>9 DEF TxnInv
    <2>6. CASE ~live
      <3>1. Len(value.buffered) = 0 /\ value.state = "failed" /\ value.wrote = txns[t].wrote
        BY <2>2, <2>6
      <3>2. Len(sent[t]) < Len(value.wrote)
            /\ \A i \in 1 .. Len(sent[t]) : value.wrote[i] = sent[t][i]
        <4>1. Len(txns[t].wrote) = Len(sent[t]) + Len(txns[t].buffered)
          BY <2>4 DEF Splits
        <4>2. \A i \in 1 .. Len(sent[t]) : txns[t].wrote[i] = sent[t][i]
          BY <2>4 DEF Splits
        <4>3. Len(sent[t]) \in Nat /\ Len(txns[t].buffered) \in Nat
          BY <1>r
        <4>4. Len(sent[t]) < Len(txns[t].wrote)
          <5> DEFINE a == Len(sent[t])  b == Len(txns[t].buffered)  w == Len(txns[t].wrote)
          <5>1. a \in Nat /\ b \in Nat /\ b > 0 /\ w = a + b
            BY <2>1, <4>1, <4>3
          <5> HIDE DEF a, b, w
          <5>2. a < w
            BY <5>1
          <5> QED BY <5>2 DEF a, w
        <4> QED BY <3>1, <4>2, <4>4
      <3>3. TxnHolds(t, value, sent[t])
        BY <3>1, <3>2 DEF TxnHolds
      <3> QED BY <1>t, <1>s, <2>2, <2>3, <2>6, <3>3, TxnUpdates DEF TxnInv
    <2> QED BY <2>5, <2>6
  <1>8. ASSUME NEW t \in DOMAIN txns, Committed(t)
        PROVE  TxnInv'
    <2>1. PICK value \in TxnRecords : /\ value.kind = txns[t].kind /\ txns[t].state = "committing"
                                       /\ Len(txns[t].buffered) = 0 /\ value.state = "committed"
                                       /\ value.buffered = txns[t].buffered
                                       /\ value.wrote = txns[t].wrote
                                       /\ txns' = [txns EXCEPT ![t] = value]
      BY <1>8, TxnSteps
    <2>2. UNCHANGED sent
      BY <1>8 DEF Committed
    <2>3. TxnHolds(t, value, sent[t])
      <3>1. Len(<< >>) = 0 /\ TxnHolds(t, txns[t], sent[t])
        BY <1>s
      <3> QED BY <2>1, <3>1 DEF TxnHolds
    <2>4. handle' # 0 => handle' # t /\ handle' = handle
      BY <1>s, <2>1, <1>8 DEF Committed, Taken
    <2> QED BY <1>t, <1>s, <2>1, <2>2, <2>3, <2>4, TxnUpdates DEF TxnInv
  <1>9. ASSUME NEW t \in DOMAIN txns, Abort(t)
        PROVE  TxnInv'
    <2>1. PICK value \in TxnRecords : /\ value.kind = txns[t].kind /\ txns[t].state = "open"
                                       /\ value.state = "aborted" /\ value.buffered = << >>
                                       /\ value.wrote = txns[t].wrote
                                       /\ txns' = [txns EXCEPT ![t] = value]
      BY <1>9, TxnSteps
    <2>2. UNCHANGED sent
      BY <1>9 DEF Abort
    <2>3. TxnHolds(t, value, sent[t])
      <3>1. Len(<< >>) = 0 /\ TxnHolds(t, txns[t], sent[t])
        BY <1>s
      <3> QED BY <2>1, <3>1 DEF TxnHolds
    <2>4. handle' # 0 => handle' # t /\ handle' = handle
      BY <1>s, <2>1, <1>9 DEF Abort, Taken
    <2> QED BY <1>t, <1>s, <2>1, <2>2, <2>3, <2>4, TxnUpdates DEF TxnInv
  <1>10. ASSUME NEW r \in Asks, NEW name \in conf.names, Request(r, name)
         PROVE  TxnInv'
    BY <1>e, <1>10, RequestEffect DEF Request
  <1>11. ASSUME NEW s \in Subs,
                Subscribe(s) \/ Unsubscribe(s)
         PROVE  TxnInv'
    BY <1>e, <1>11 DEF Subscribe, Unsubscribe
  <1>12. ASSUME NEW r \in Asks,
                Register(r) \/ Awaited(r) \/ Unregister(r) \/ Forget(r) \/
                Cancel(r)
         PROVE  TxnInv'
    BY <1>e, <1>12 DEF Register, Awaited, Unregister, Forget, Cancel, FetchAdd
  <1>13. CASE \/ SetRouting \/ Shutdown \/ Connect \/ UNCHANGED vars
    BY <1>e, <1>13 DEF SetRouting, Shutdown, Connect, vars
  <1> QED
    BY <1>1, <1>2, <1>3, <1>4, <1>5, <1>6, <1>7, <1>8, <1>9, <1>10, <1>11, <1>12, <1>13 DEF Next

LEMMA StepNumbers ==
  ASSUME Typed, GotInv, NumberInv, [Next]_vars
  PROVE  NumberInv'
  <1>a. asks \in [Asks -> AskRecords] /\ inbox_seq \in Nat /\ Asks' = Asks
    BY ConfKept DEF Typed
  <1>b. \A q \in Asks : asks[q].inbox \in Nat
    BY <1>a DEF AskRecords
  <1>e. UNCHANGED <<asks, inbox_seq>> => NumberInv'
    BY <1>a DEF NumberInv
  <1>s. \A r \in Asks : /\ inbox_seq' = inbox_seq
                        /\ \A q \in Asks : asks'[q].inbox = asks[q].inbox
                        /\ \A q \in Asks : asks'[q].state = "idle" <=> asks[q].state = "idle"
                        => NumberInv'
    BY <1>a DEF NumberInv
  <1>1. ASSUME NEW s \in Subs, Reply(s)
        PROVE  NumberInv'
    <2>1. PICK r \in Asks : asks' = [asks EXCEPT ![r].late = @ \/ (asks[r].state = "done" /\ live)]
      BY <1>1, ReplyFacts
    <2>2. \A q \in Asks : asks'[q].state = asks[q].state /\ asks'[q].inbox = asks[q].inbox
      BY <2>1, ReplyAsks
    <2>3. UNCHANGED inbox_seq
      BY <1>1 DEF Reply, PublishDirect
    <2> QED BY <1>s, <2>1, <2>2, <2>3
  <1>2. ASSUME NEW name \in conf.names, NEW size \in conf.sizes, PublishOnHandle(name, size)
        PROVE  NumberInv'
    BY <1>e, <1>2 DEF PublishOnHandle, Buffer, PublishDirect
  <1>3. ASSUME NEW t \in DOMAIN txns, CommitOne(t)
        PROVE  NumberInv'
    BY <1>e, <1>3 DEF CommitOne
  <1>4. ASSUME NEW r \in Asks, NEW name \in conf.names, Request(r, name)
        PROVE  NumberInv'
    <2>1. /\ asks'[r].inbox = asks[r].inbox /\ asks[r].state # "idle" /\ asks'[r].state # "idle"
          /\ \A q \in Asks : q # r => asks'[q] = asks[q]
      BY <1>4, AskSteps, AskOthers
    <2>2. UNCHANGED inbox_seq
      BY <1>4 DEF Request
    <2> QED BY <1>s, <2>1, <2>2
  <1>5. ASSUME NEW r \in Asks, Register(r)
        PROVE  NumberInv'
    <2>1. /\ asks[r].state = "idle" /\ asks'[r].inbox = inbox_seq
          /\ \A q \in Asks : q # r => asks'[q] = asks[q]
      BY <1>5, AskSteps, AskOthers
    <2>2. inbox_seq' = inbox_seq + 1
      BY <1>5 DEF Register, FetchAdd
    <2>3. \A q \in Asks : asks'[q].state # "idle" => asks'[q].inbox < inbox_seq'
      BY <1>a, <1>b, <2>1, <2>2 DEF NumberInv
    <2>4. \A q \in Asks : q # r /\ asks'[q].state # "idle" => asks'[q].inbox # inbox_seq
      BY <1>a, <1>b, <2>1 DEF NumberInv
    <2>5. \A p, q \in Asks :
            asks'[p].state # "idle" /\ asks'[q].state # "idle" /\ asks'[p].inbox = asks'[q].inbox
            => p = q
      <3> SUFFICES ASSUME NEW p \in Asks, NEW q \in Asks, asks'[p].state # "idle",
                          asks'[q].state # "idle", asks'[p].inbox = asks'[q].inbox
                   PROVE  p = q
        OBVIOUS
      <3>1. CASE p = r \/ q = r
        BY <2>1, <2>4, <3>1
      <3>2. CASE p # r /\ q # r
        BY <2>1, <3>2 DEF NumberInv
      <3> QED BY <3>1, <3>2
    <2> QED BY <1>a, <2>3, <2>5 DEF NumberInv
  <1>6. ASSUME NEW r \in Asks, Awaited(r)
        PROVE  NumberInv'
    <2>1. /\ asks'[r].inbox = asks[r].inbox /\ asks[r].state # "idle" /\ asks'[r].state # "idle"
          /\ \A q \in Asks : q # r => asks'[q] = asks[q]
      BY <1>6, AskSteps, AskOthers
    <2>2. UNCHANGED inbox_seq
      BY <1>6 DEF Awaited
    <2> QED BY <1>s, <2>1, <2>2
  <1>7. ASSUME NEW r \in Asks, Unregister(r)
        PROVE  NumberInv'
    <2>1. /\ asks'[r].inbox = asks[r].inbox /\ asks[r].state # "idle" /\ asks'[r].state # "idle"
          /\ \A q \in Asks : q # r => asks'[q] = asks[q]
      BY <1>7, AskSteps, AskOthers
    <2>2. UNCHANGED inbox_seq
      BY <1>7 DEF Unregister
    <2> QED BY <1>s, <2>1, <2>2
  <1>8. ASSUME NEW r \in Asks, Forget(r)
        PROVE  NumberInv'
    <2>1. /\ asks'[r].inbox = asks[r].inbox /\ asks[r].state # "idle" /\ asks'[r].state # "idle"
          /\ \A q \in Asks : q # r => asks'[q] = asks[q]
      BY <1>8, AskSteps, AskOthers
    <2>2. UNCHANGED inbox_seq
      BY <1>8 DEF Forget
    <2> QED BY <1>s, <2>1, <2>2
  <1>9. ASSUME NEW r \in Asks, Cancel(r)
        PROVE  NumberInv'
    <2>1. /\ asks'[r].inbox = asks[r].inbox /\ asks[r].state # "idle" /\ asks'[r].state # "idle"
          /\ \A q \in Asks : q # r => asks'[q] = asks[q]
      BY <1>9, AskSteps, AskOthers
    <2>2. UNCHANGED inbox_seq
      BY <1>9 DEF Cancel
    <2> QED BY <1>s, <2>1, <2>2
  <1>10. ASSUME NEW s \in Subs,
                Subscribe(s) \/ Unsubscribe(s)
         PROVE  NumberInv'
    BY <1>e, <1>10 DEF Subscribe, Unsubscribe
  <1>11. ASSUME NEW t \in DOMAIN txns, NEW name \in conf.names, NEW size \in conf.sizes,
                PublishOwned(t, name, size)
         PROVE  NumberInv'
    BY <1>e, <1>11 DEF PublishOwned, Buffer
  <1>12. ASSUME NEW t \in DOMAIN txns,
                Commit(t) \/ Committed(t) \/ Abort(t)
         PROVE  NumberInv'
    BY <1>e, <1>12 DEF Commit, Committed, Abort, Taken
  <1>13. CASE \/ SetRouting \/ Shutdown \/ Connect \/ BeginTransaction \/ OpenTransaction
              \/ UNCHANGED vars
    BY <1>e, <1>13 DEF SetRouting, Shutdown, Connect, BeginTransaction, OpenTransaction, Open,
       vars
  <1> QED
    BY <1>1, <1>2, <1>3, <1>4, <1>5, <1>6, <1>7, <1>8, <1>9, <1>10, <1>11, <1>12, <1>13 DEF Next

LEMMA StepNames ==
  ASSUME InboxesDiffer, Typed, GotInv, NumberInv, NamesInv, [Next]_vars
  PROVE  NamesInv'
  <1>a. asks \in [Asks -> AskRecords] /\ inbox_seq \in Nat /\ Asks' = Asks
    BY ConfKept DEF Typed
  <1>b. \A q \in Asks : asks[q].inbox \in Nat
    BY <1>a DEF AskRecords
  <1>r. Receivers' = Receivers /\ \A r \in Asks : <<"ask", r>> \in Receivers
    BY ConfKept DEF Receivers
  <1>s. \A s \in Subs : <<"sub", s>> \in Receivers
    BY DEF Receivers
  <1>n. /\ \A name \in DOMAIN names : names[name] \in Seq(Receivers)
        /\ \A name \in DOMAIN names : \A r \in Asks :
             <<"ask", r>> \in Range(names[name]) => Owns(r, name)
        /\ \A name \in DOMAIN names : name[1] = "_inbox" => \E r \in Asks : Owns(r, name)
    BY DEF NamesInv
  <1>o. ASSUME names' = names,
               \A r \in Asks : \A name \in DOMAIN names : Owns(r, name) => Owns(r, name)'
        PROVE  NamesInv'
    BY <1>a, <1>r, <1>n, <1>o DEF NamesInv
  <1>e. UNCHANGED <<asks, names>> => NamesInv'
    BY <1>a, <1>r DEF NamesInv, Owns
  <1>1. CASE Shutdown
    <2>1. names' = << >>
      BY <1>1 DEF Shutdown
    <2>2. DOMAIN names' = {}
      BY <2>1
    <2> QED BY <2>2 DEF NamesInv
  <1>2. ASSUME NEW s \in Subs, Subscribe(s)
        PROVE  NamesInv'
    <2>1. UNCHANGED asks
      BY <1>2 DEF Subscribe
    <2>2. CASE names' = names
      BY <1>e, <2>1, <2>2
    <2>3. CASE \E target \in conf.targets :
                 /\ target.kind = "name"
                 /\ names' = Put(names, target.text,
                                 Append(IF target.text \in DOMAIN names
                                          THEN names[target.text] ELSE << >>, <<"sub", s>>))
      <3>1. PICK target \in conf.targets :
                 /\ target.kind = "name"
                 /\ names' = Put(names, target.text,
                                 Append(IF target.text \in DOMAIN names
                                          THEN names[target.text] ELSE << >>, <<"sub", s>>))
        BY <2>3
      <3> DEFINE text == target.text
                 old == IF text \in DOMAIN names THEN names[text] ELSE << >>
                 q == Append(old, <<"sub", s>>)
      <3>2. text[1] # "_inbox"
        BY <3>1, ConfsAssumption DEF Typed
      <3>3. old \in Seq(Receivers)
        BY <1>n, RangeOfNone
      <3>4. q \in Seq(Receivers) /\ Range(q) = Range(old) \cup {<<"sub", s>>}
        <4> HIDE DEF old
        <4> QED BY <1>s, <3>3, RangeOfAppend
      <3>5. \A r \in Asks : <<"ask", r>> \in Range(q) => text \in DOMAIN names /\ Owns(r, text)
        BY <1>n, <3>4, RangeOfNone
      <3>6. /\ DOMAIN names' = DOMAIN names \cup {text} /\ names'[text] = q
            /\ \A name \in DOMAIN names : name # text => names'[name] = names[name]
        <4>1. names' = Put(names, text, q)
          BY <3>1
        <4> HIDE DEF q, text
        <4> QED BY <4>1 DEF Put
      <3> HIDE DEF q, text
      <3>7. \A r \in Asks : \A name : Owns(r, name) <=> Owns(r, name)'
        BY <2>1 DEF Owns
      <3>8. \A name \in DOMAIN names' : names'[name] \in Seq(Receivers)
        BY <1>n, <3>4, <3>6
      <3>9. \A name \in DOMAIN names' : \A r \in Asks :
              <<"ask", r>> \in Range(names'[name]) => Owns(r, name)'
        BY <1>n, <3>5, <3>6, <3>7
      <3>10. \A name \in DOMAIN names' : name[1] = "_inbox" => \E r \in Asks : Owns(r, name)'
        BY <1>n, <3>2, <3>6, <3>7
      <3> QED BY <1>a, <1>r, <3>8, <3>9, <3>10 DEF NamesInv
    <2> QED BY <2>2, <2>3, <1>2 DEF Subscribe, SubscribeName, SubscribePattern, Refuse
  <1>3. ASSUME NEW s \in Subs, Reply(s)
        PROVE  NamesInv'
    <2>1. PICK r \in Asks : asks' = [asks EXCEPT ![r].late = @ \/ (asks[r].state = "done" /\ live)]
      BY <1>3, ReplyFacts
    <2>2. \A q \in Asks : asks'[q].state = asks[q].state /\ asks'[q].inbox = asks[q].inbox
      BY <2>1, ReplyAsks
    <2>3. UNCHANGED names
      BY <1>3 DEF Reply, PublishDirect
    <2>4. \A q \in Asks : \A name \in DOMAIN names : Owns(q, name) => Owns(q, name)'
      BY <2>2 DEF Owns
    <2> QED BY <1>o, <2>3, <2>4
  <1>4. ASSUME NEW name \in conf.names, NEW size \in conf.sizes, PublishOnHandle(name, size)
        PROVE  NamesInv'
    BY <1>e, <1>4 DEF PublishOnHandle, Buffer, PublishDirect
  <1>5. ASSUME NEW t \in DOMAIN txns, CommitOne(t)
        PROVE  NamesInv'
    BY <1>e, <1>5 DEF CommitOne
  <1>6. ASSUME NEW r \in Asks, NEW name \in conf.names, Request(r, name)
        PROVE  NamesInv'
    <2>1. /\ asks'[r].inbox = asks[r].inbox
          /\ asks'[r].state \in {"waiting", "leaving", "cancelled"}
          /\ \A q \in Asks : q # r => asks'[q] = asks[q]
      BY <1>6, AskSteps, AskOthers
    <2>2. names' = names
      BY <1>6 DEF Request
    <2>3. \A q \in Asks : \A text \in DOMAIN names : Owns(q, text) => Owns(q, text)'
      BY <2>1 DEF Owns
    <2> QED BY <1>o, <2>2, <2>3
  <1>7. ASSUME NEW r \in Asks, Register(r)
        PROVE  NamesInv'
    <2>1. /\ asks[r].state = "idle" /\ asks'[r].inbox = inbox_seq
          /\ asks'[r].state = IF live THEN "registered" ELSE "done"
          /\ \A q \in Asks : q # r => asks'[q] = asks[q]
      BY <1>7, AskSteps, AskOthers
    <2>2. \A q \in Asks : \A name \in DOMAIN names : Owns(q, name) => q # r /\ Owns(q, name)'
      BY <2>1 DEF Owns
    <2>3. CASE ~live
      <3>1. names' = names
        BY <2>3, <1>7 DEF Register
      <3> QED BY <1>o, <2>2, <3>1
    <2>4. CASE live
      <3>0. PICK text : text = InboxName(inbox_seq)
        OBVIOUS
      <3> DEFINE q == Append(IF text \in DOMAIN names THEN names[text] ELSE << >>, <<"ask", r>>)
      <3>1. names' = Put(names, text, q)
        BY <2>4, <3>0, <1>7 DEF Register
      <3>2. text[1] = "_inbox"
        BY <1>a, <3>0, InboxNames
      <3>3. text \notin DOMAIN names
        <4>1. SUFFICES ASSUME text \in DOMAIN names PROVE FALSE
          OBVIOUS
        <4>2. PICK p \in Asks : Owns(p, text)
          BY <1>n, <3>2, <4>1
        <4>3. asks[p].inbox < inbox_seq /\ InboxName(asks[p].inbox) = text
          BY <4>2 DEF Owns, NumberInv
        <4>4. asks[p].inbox = inbox_seq
          BY <1>a, <1>b, <3>0, <4>3, InboxNames
        <4> QED BY <1>a, <4>3, <4>4
      <3>4. q = Append(<< >>, <<"ask", r>>)
        BY <3>3
      <3>5. q \in Seq(Receivers) /\ Range(q) = {<<"ask", r>>}
        <4> DEFINE x == <<"ask", r>>
        <4>1. x \in Receivers
          BY <1>r
        <4>2. q = <<x>>
          <5> HIDE DEF q
          <5> QED BY <3>4
        <4> HIDE DEF x, q
        <4>3. <<x>> \in Seq(Receivers) /\ Range(<<x>>) = {x}
          BY <4>1, RangeOfOne
        <4> QED BY <4>2, <4>3 DEF x
      <3> HIDE DEF q
      <3>6. /\ DOMAIN names' = DOMAIN names \cup {text} /\ names'[text] = q
            /\ \A name \in DOMAIN names : name # text => names'[name] = names[name]
        BY <3>1 DEF Put
      <3>7. Owns(r, text)'
        BY <2>1, <2>4, <3>0 DEF Owns
      <3>8. \A name \in DOMAIN names' : names'[name] \in Seq(Receivers)
        BY <1>n, <3>5, <3>6
      <3>9. \A name \in DOMAIN names' : \A p \in Asks :
              <<"ask", p>> \in Range(names'[name]) => Owns(p, name)'
        <4> SUFFICES ASSUME NEW name \in DOMAIN names', NEW p \in Asks,
                            <<"ask", p>> \in Range(names'[name])
                     PROVE  Owns(p, name)'
          OBVIOUS
        <4>1. CASE name = text
          <5>1. <<"ask", p>> = <<"ask", r>>
            BY <3>5, <3>6, <4>1
          <5>2. p = r
            BY <5>1
          <5> QED BY <3>7, <4>1, <5>2
        <4>2. CASE name # text
          BY <1>n, <2>2, <3>6, <4>2
        <4> QED BY <4>1, <4>2
      <3>10. \A name \in DOMAIN names' : name[1] = "_inbox" => \E p \in Asks : Owns(p, name)'
        BY <1>n, <2>2, <3>6, <3>7
      <3> QED BY <1>a, <1>r, <3>8, <3>9, <3>10 DEF NamesInv
    <2> QED BY <2>3, <2>4
  <1>8. ASSUME NEW r \in Asks, Awaited(r)
        PROVE  NamesInv'
    <2>1. /\ asks'[r].inbox = asks[r].inbox
          /\ asks'[r].state \in {"waiting", "leaving", "cancelled"}
          /\ \A q \in Asks : q # r => asks'[q] = asks[q]
      BY <1>8, AskSteps, AskOthers
    <2>2. names' = names
      BY <1>8 DEF Awaited
    <2>3. \A q \in Asks : \A name \in DOMAIN names : Owns(q, name) => Owns(q, name)'
      BY <2>1 DEF Owns
    <2> QED BY <1>o, <2>2, <2>3
  <1>9. ASSUME NEW r \in Asks, Unregister(r)
        PROVE  NamesInv'
    <2> DEFINE text == InboxName(asks[r].inbox)
    <2>1. /\ asks[r].state = "leaving" /\ \A q \in Asks : q # r => asks'[q] = asks[q]
      BY <1>9, AskSteps, AskOthers
    <2>2. names' = Without(names, text)
      BY <1>9 DEF Unregister
    <2>3. /\ DOMAIN names' = DOMAIN names \ {text}
          /\ \A name \in DOMAIN names : name # text => names'[name] = names[name]
      BY <2>2, WithoutFacts
    <2>4. \A q \in Asks : \A name \in DOMAIN names : Owns(q, name) /\ name # text => Owns(q, name)'
      BY <2>1 DEF Owns
    <2> HIDE DEF text
    <2>5. \A name \in DOMAIN names' : names'[name] \in Seq(Receivers)
      BY <1>n, <2>3
    <2>6. \A name \in DOMAIN names' : \A p \in Asks :
            <<"ask", p>> \in Range(names'[name]) => Owns(p, name)'
      BY <1>n, <2>3, <2>4
    <2>7. \A name \in DOMAIN names' : name[1] = "_inbox" => \E p \in Asks : Owns(p, name)'
      BY <1>n, <2>3, <2>4
    <2> QED BY <1>a, <1>r, <2>5, <2>6, <2>7 DEF NamesInv
  <1>10. ASSUME NEW r \in Asks, Forget(r)
         PROVE  NamesInv'
    <2>1. /\ asks[r].state = "forgetting" /\ \A q \in Asks : q # r => asks'[q] = asks[q]
      BY <1>10, AskSteps, AskOthers
    <2>2. names' = names
      BY <1>10 DEF Forget
    <2>3. \A q \in Asks : \A name \in DOMAIN names : Owns(q, name) => Owns(q, name)'
      BY <2>1 DEF Owns
    <2> QED BY <1>o, <2>2, <2>3
  <1>11. ASSUME NEW r \in Asks, Cancel(r)
         PROVE  NamesInv'
    <2>1. /\ asks'[r].inbox = asks[r].inbox
          /\ asks'[r].state \in {"waiting", "leaving", "cancelled"}
          /\ \A q \in Asks : q # r => asks'[q] = asks[q]
      BY <1>11, AskSteps, AskOthers
    <2>2. names' = names
      BY <1>11 DEF Cancel
    <2>3. \A q \in Asks : \A name \in DOMAIN names : Owns(q, name) => Owns(q, name)'
      BY <2>1 DEF Owns
    <2> QED BY <1>o, <2>2, <2>3
  <1>12. ASSUME NEW s \in Subs,
                Unsubscribe(s)
         PROVE  NamesInv'
    BY <1>e, <1>12 DEF Unsubscribe
  <1>13. ASSUME NEW t \in DOMAIN txns, NEW name \in conf.names, NEW size \in conf.sizes,
                PublishOwned(t, name, size)
         PROVE  NamesInv'
    BY <1>e, <1>13 DEF PublishOwned, Buffer
  <1>14. ASSUME NEW t \in DOMAIN txns,
                Commit(t) \/ Committed(t) \/ Abort(t)
         PROVE  NamesInv'
    BY <1>e, <1>14 DEF Commit, Committed, Abort, Taken
  <1>15. CASE \/ SetRouting \/ Connect \/ BeginTransaction \/ OpenTransaction \/ UNCHANGED vars
    BY <1>e, <1>15 DEF SetRouting, Connect, BeginTransaction, OpenTransaction, Open, vars
  <1> QED
    BY <1>1, <1>2, <1>3, <1>4, <1>5, <1>6, <1>7, <1>8, <1>9, <1>10, <1>11, <1>12, <1>13, <1>14,
       <1>15 DEF Next

LEMMA StepGroups ==
  ASSUME Typed, GroupsInv, [Next]_vars
  PROVE  GroupsInv'
  <1>k. Asks' = Asks /\ Subs' = Subs /\ Receivers' = Receivers
    BY ConfKept
  <1>g. GroupRecords' = GroupRecords
    BY <1>k DEF GroupRecords
  <1>e. groups' = groups => GroupsInv'
    BY <1>k, <1>g DEF GroupsInv
  <1>1. CASE Shutdown
    <2>1. groups' = << >>
      BY <1>1 DEF Shutdown
    <2>2. DOMAIN groups' = {} /\ << >> \in Seq(GroupRecords)
      BY <2>1
    <2> QED BY <1>g, <2>1, <2>2 DEF GroupsInv
  <1>2. ASSUME NEW s \in Subs, Subscribe(s)
        PROVE  GroupsInv'
    <2>1. PICK text \in Texts : groups' = groups \/ groups' = Joined(text, <<"sub", s>>)
      BY <1>2, SubscribeCases
    <2>2. CASE groups' = groups
      BY <1>e, <2>2
    <2>3. CASE groups' = Joined(text, <<"sub", s>>)
      <3> DEFINE x == <<"sub", s>>
      <3>1. x \in Receivers /\ \A r \in Asks : <<"ask", r>> # x
        BY DEF Receivers
      <3>2. groups' = Joined(text, x)
        BY <2>3
      <3> HIDE DEF x
      <3>3. groups' \in Seq(GroupRecords)
        BY <3>1, <3>2, JoinedStep
      <3>4. \A g \in DOMAIN groups' \ DOMAIN groups : Range(groups'[g].senders) = {x}
        BY SMTT(30), <3>1, <3>2, JoinedStep
      <3>5. \A g \in DOMAIN groups : Range(groups'[g].senders) \subseteq
              Range(groups[g].senders) \cup {x}
        BY <3>1, <3>2, JoinedStep
      <3>6. \A g \in DOMAIN groups' : \A r \in Asks : <<"ask", r>> \notin Range(groups'[g].senders)
        <4>1. \A g \in DOMAIN groups : \A r \in Asks : <<"ask", r>> \notin Range(groups[g].senders)
          BY DEF GroupsInv
        <4> SUFFICES ASSUME NEW g \in DOMAIN groups', NEW r \in Asks,
                            <<"ask", r>> \in Range(groups'[g].senders)
                     PROVE  FALSE
          OBVIOUS
        <4>2. <<"ask", r>> # x
          BY <3>1
        <4>3. CASE g \in DOMAIN groups
          BY <3>5, <4>1, <4>2, <4>3
        <4>4. CASE g \notin DOMAIN groups
          BY <3>4, <4>2, <4>4
        <4> QED BY <4>3, <4>4
      <3> QED BY <1>g, <1>k, <3>3, <3>6 DEF GroupsInv
    <2> QED BY <2>1, <2>2, <2>3
  <1>3. ASSUME NEW s \in Subs, Reply(s)
        PROVE  GroupsInv'
    BY <1>e, <1>3 DEF Reply, PublishDirect
  <1>4. ASSUME NEW name \in conf.names, NEW size \in conf.sizes, PublishOnHandle(name, size)
        PROVE  GroupsInv'
    BY <1>e, <1>4 DEF PublishOnHandle, Buffer, PublishDirect
  <1>5. ASSUME NEW t \in DOMAIN txns, CommitOne(t)
        PROVE  GroupsInv'
    BY <1>e, <1>5 DEF CommitOne
  <1>6. ASSUME NEW r \in Asks, NEW name \in conf.names, Request(r, name)
        PROVE  GroupsInv'
    BY <1>e, <1>6 DEF Request
  <1>7. ASSUME NEW s \in Subs,
               Unsubscribe(s)
        PROVE  GroupsInv'
    BY <1>e, <1>7 DEF Unsubscribe
  <1>8. ASSUME NEW t \in DOMAIN txns, NEW name \in conf.names, NEW size \in conf.sizes,
               PublishOwned(t, name, size)
        PROVE  GroupsInv'
    BY <1>e, <1>8 DEF PublishOwned, Buffer
  <1>9. ASSUME NEW t \in DOMAIN txns,
               Commit(t) \/ Committed(t) \/ Abort(t)
        PROVE  GroupsInv'
    BY <1>e, <1>9 DEF Commit, Committed, Abort, Taken
  <1>10. ASSUME NEW r \in Asks,
                Register(r) \/ Awaited(r) \/ Unregister(r) \/ Forget(r) \/
                Cancel(r)
         PROVE  GroupsInv'
    BY <1>e, <1>10 DEF Register, Awaited, Unregister, Forget, Cancel, FetchAdd
  <1>11. CASE \/ SetRouting \/ Connect \/ BeginTransaction \/ OpenTransaction \/ UNCHANGED vars
    BY <1>e, <1>11 DEF SetRouting, Connect, BeginTransaction, OpenTransaction, Open, vars
  <1> QED
    BY <1>1, <1>2, <1>3, <1>4, <1>5, <1>6, <1>7, <1>8, <1>9, <1>10, <1>11 DEF Next

LEMMA StepGot ==
  ASSUME InboxesDiffer, Typed, NumberInv, NamesInv, GroupsInv, GotInv,
         RegistryInv, TxnInv, [Next]_vars
  PROVE  GotInv'
  <1>k. Asks' = Asks /\ Subs' = Subs
    BY ConfKept
  <1>r. routing \in Routings /\ conf \in Confs
    BY DEF RegistryInv, Typed
  <1>b. \A q \in Asks : asks[q].inbox \in Nat
    BY DEF Typed, AskRecords
  <1>m. \A q \in Asks : asks[q].outcome = "Reply" => asks[q].reply = <<"reply", q>>
    BY DEF GotInv, ReplyIsMine
  <1>u. asks' = asks => Ongoing /\ ReplyIsMine'
    BY <1>k, <1>m DEF Ongoing, ReplyIsMine
  <1>e. UNCHANGED <<asks, got>> => GotInv'
    BY <1>k, <1>u, GotStays
  <1>n. \A name \in conf.names : name \in Texts /\ \A q \in Asks : ~Owns(q, name)
    BY <1>r, <1>b, ConfsAssumption, InboxNames DEF Owns
  <1>d. ASSUME asks' = asks, NEW name \in conf.names, NEW msg \in Msgs, msg.inbox = -1,
               \A x \in Receivers :
                 got'[x] = got[x] \/ (x \in Reached(name) /\ got'[x] = Append(got[x], msg))
        PROVE  GotInv'
    BY <1>k, <1>r, <1>u, <1>n, <1>d, GotKept
  <1>1. ASSUME NEW s \in Subs, Reply(s)
        PROVE  GotInv'
    <2>1. PICK r \in Asks, msg \in Msgs :
            /\ asks[r].state # "idle" /\ msg = Message(<<"reply", r>>, published + 1, -1, 1)
            /\ PublishDirect(InboxName(asks[r].inbox), msg)
            /\ asks' = [asks EXCEPT ![r].late = @ \/ (asks[r].state = "done" /\ live)]
      BY <1>1, ReplyFacts
    <2>2. \A q \in Asks : /\ asks'[q].state = asks[q].state /\ asks'[q].inbox = asks[q].inbox
                          /\ asks'[q].outcome = asks[q].outcome /\ asks'[q].reply = asks[q].reply
      BY <2>1, ReplyAsks
    <2>3. Ongoing
      BY <2>2 DEF Ongoing
    <2>4. ReplyIsMine'
      BY <1>k, <1>m, <2>2 DEF ReplyIsMine
    <2>5. msg.by = <<"reply", r>> /\ msg.inbox = -1
      BY <2>1 DEF Message
    <2>6. msg.by[1] # "txn"
      BY <2>5
    <2>7. PICK name \in Texts : name = InboxName(asks[r].inbox)
      BY <1>b, InboxNames
    <2>8. \A x \in Receivers :
            got'[x] = got[x] \/ (x \in Reached(name) /\ got'[x] = Append(got[x], msg))
      BY <2>1, <2>6, <2>7, DirectEffect
    <2>9. \A q \in Asks : Owns(q, name) => q = r
      <3> SUFFICES ASSUME NEW q \in Asks, Owns(q, name) PROVE q = r
        OBVIOUS
      <3>1. InboxName(asks[q].inbox) = InboxName(asks[r].inbox) /\ asks[q].state # "idle"
        BY <2>7 DEF Owns
      <3>2. asks[q].inbox = asks[r].inbox
        BY <1>b, <3>1, InboxNames
      <3> QED BY <2>1, <3>1, <3>2 DEF NumberInv
    <2> QED BY <1>k, <1>r, <2>3, <2>4, <2>5, <2>8, <2>9, GotKept
  <1>2. ASSUME NEW name \in conf.names, NEW size \in conf.sizes, PublishOnHandle(name, size)
        PROVE  GotInv'
    <2>1. CASE handle \in DOMAIN txns /\ Buffer(handle, name, size)
      BY <1>e, <2>1 DEF Buffer
    <2>2. CASE /\ UNCHANGED <<txns, handle, asks>>
               /\ \E msg \in Msgs : msg.by[1] # "txn" /\ msg.inbox = -1 /\ PublishDirect(name, msg)
      BY <1>d, <2>2, DirectEffect
    <2> QED BY <1>2, <2>1, <2>2, HandlePublish
  <1>3. ASSUME NEW t \in DOMAIN txns, NEW name \in conf.names, NEW size \in conf.sizes,
               PublishOwned(t, name, size)
        PROVE  GotInv'
    BY <1>e, <1>3 DEF PublishOwned, Buffer
  <1>4. ASSUME NEW t \in DOMAIN txns, CommitOne(t)
        PROVE  GotInv'
    <2>1. asks' = asks
      BY <1>4 DEF CommitOne
    <2>2. CASE ~live
      BY <1>e, <2>2, <1>4 DEF CommitOne
    <2>3. CASE live
      <3>1. Len(txns[t].buffered) > 0 /\ Fanout(txns[t].buffered[1].name, txns[t].buffered[1].msg)
        BY <2>3, <1>4, TxnSteps
      <3>2. txns[t].buffered \in Seq(Entries)
        <4>1. txns[t] \in TxnRecords
          BY TxnSteps
        <4> QED BY <4>1 DEF TxnRecords
      <3>3. PICK e \in Entries : e = txns[t].buffered[1]
        BY <3>1, <3>2
      <3>4. e.msg \in Msgs /\ e.msg.inbox = -1 /\ e.name \in conf.names
        BY 0 \in Nat, MessageTypes
      <3>5. \A x \in Receivers :
              got'[x] = got[x] \/ (x \in Reached(e.name) /\ got'[x] = Append(got[x], e.msg))
        BY <3>1, <3>3, <3>4, FanoutEffect
      <3>6. PICK name \in conf.names, msg \in Msgs : name = e.name /\ msg = e.msg
        BY <3>4
      <3> QED BY <1>d, <2>1, <3>4, <3>5, <3>6
    <2> QED BY <2>2, <2>3
  <1>5. ASSUME NEW r \in Asks, NEW name \in conf.names, Request(r, name)
        PROVE  GotInv'
    <2>1. /\ asks'[r].inbox = asks[r].inbox /\ asks'[r].state # "idle"
          /\ asks'[r].outcome \in {asks[r].outcome, "ShutDown"} /\ asks'[r].reply = asks[r].reply
          /\ \A q \in Asks : q # r => asks'[q] = asks[q]
      BY <1>5, AskSteps, AskOthers
    <2>2. Ongoing
      BY <2>1 DEF Ongoing
    <2>3. ReplyIsMine'
      BY <1>k, <1>m, <2>1 DEF ReplyIsMine
    <2>4. PICK msg \in Msgs :
            /\ msg.by = <<"ask", r>> /\ msg.inbox = asks[r].inbox
            /\ \A q \in Receivers :
                 got'[q] = got[q] \/ (q \in Reached(name) /\ got'[q] = Append(got[q], msg))
      BY <1>5, RequestEffect
    <2>5. msg.by = <<"ask", r>> /\ msg.inbox = asks'[r].inbox
      BY <2>1, <2>4
    <2> QED BY <1>k, <1>r, <1>n, <2>1, <2>2, <2>3, <2>4, <2>5, GotKept
  <1>6. ASSUME NEW r \in Asks, Register(r)
        PROVE  GotInv'
    <2>1. /\ asks[r].state = "idle"
          /\ \A q \in Asks : q # r => asks'[q] = asks[q]
          /\ asks'[r].outcome \in {asks[r].outcome, "ShutDown"} /\ asks'[r].reply = asks[r].reply
      BY <1>6, AskSteps, AskOthers
    <2>2. Ongoing
      BY <2>1 DEF Ongoing
    <2>4. ReplyIsMine'
      BY <1>k, <1>m, <2>1 DEF ReplyIsMine
    <2>3. got' = got
      BY <1>6 DEF Register
    <2> QED BY <1>k, <2>2, <2>3, <2>4, GotStays
  <1>7. ASSUME NEW r \in Asks, Awaited(r)
        PROVE  GotInv'
    <2>1. /\ asks'[r].inbox = asks[r].inbox /\ asks'[r].state # "idle"
          /\ \A q \in Asks : q # r => asks'[q] = asks[q]
          /\ asks'[r].outcome = "Reply" =>
               got[<<"ask", r>>] # << >> /\ asks'[r].reply = Head(got[<<"ask", r>>]).by
      BY <1>7, AskSteps, AskOthers
    <2>2. got[<<"ask", r>>] # << >> => Head(got[<<"ask", r>>]).by = <<"reply", r>>
      <3> DEFINE x == <<"ask", r>>
      <3>1. x \in Receivers
        BY DEF Receivers
      <3>2. \A i \in 1 .. Len(got[x]) : got[x][i].by = <<"reply", r>>
        BY DEF GotInv
      <3> HIDE DEF x
      <3>3. got[x] \in Seq(Msgs)
        BY <3>1 DEF Typed
      <3>4. got[x] # << >> => 1 \in 1 .. Len(got[x]) /\ Head(got[x]) = got[x][1]
        BY <3>3
      <3>5. got[x] # << >> => Head(got[x]).by = <<"reply", r>>
        BY <3>2, <3>4
      <3> QED BY <3>5 DEF x
    <2>3. Ongoing
      BY <2>1 DEF Ongoing
    <2>4. ReplyIsMine'
      BY <1>k, <1>m, <2>1, <2>2 DEF ReplyIsMine
    <2>5. got' = got
      BY <1>7 DEF Awaited
    <2> QED BY <1>k, <2>3, <2>4, <2>5, GotStays
  <1>8. ASSUME NEW r \in Asks, Unregister(r)
        PROVE  GotInv'
    <2>1. /\ asks'[r].inbox = asks[r].inbox /\ asks'[r].state # "idle"
          /\ \A q \in Asks : q # r => asks'[q] = asks[q]
          /\ asks'[r].outcome = asks[r].outcome /\ asks'[r].reply = asks[r].reply
      BY <1>8, AskSteps, AskOthers
    <2>2. Ongoing /\ ReplyIsMine'
      BY <1>k, <1>m, <2>1 DEF Ongoing, ReplyIsMine
    <2>3. got' = got
      BY <1>8 DEF Unregister
    <2> QED BY <1>k, <2>2, <2>3, GotStays
  <1>9. ASSUME NEW r \in Asks, Forget(r)
        PROVE  GotInv'
    <2>1. /\ asks'[r].inbox = asks[r].inbox /\ asks'[r].state # "idle"
          /\ \A q \in Asks : q # r => asks'[q] = asks[q]
          /\ asks'[r].outcome = asks[r].outcome /\ asks'[r].reply = asks[r].reply
      BY <1>9, AskSteps, AskOthers
    <2>2. Ongoing /\ ReplyIsMine'
      BY <1>k, <1>m, <2>1 DEF Ongoing, ReplyIsMine
    <2>3. got' = got
      BY <1>9 DEF Forget
    <2> QED BY <1>k, <2>2, <2>3, GotStays
  <1>10. ASSUME NEW r \in Asks, Cancel(r)
         PROVE  GotInv'
    <2>1. /\ asks'[r].inbox = asks[r].inbox /\ asks'[r].state # "idle"
          /\ \A q \in Asks : q # r => asks'[q] = asks[q]
          /\ asks'[r].outcome = asks[r].outcome /\ asks'[r].reply = asks[r].reply
      BY <1>10, AskSteps, AskOthers
    <2>2. Ongoing /\ ReplyIsMine'
      BY <1>k, <1>m, <2>1 DEF Ongoing, ReplyIsMine
    <2>3. got' = got
      BY <1>10 DEF Cancel
    <2> QED BY <1>k, <2>2, <2>3, GotStays
  <1>11. ASSUME NEW s \in Subs,
                Subscribe(s) \/ Unsubscribe(s)
         PROVE  GotInv'
    BY <1>e, <1>11 DEF Subscribe, Unsubscribe
  <1>12. ASSUME NEW t \in DOMAIN txns,
                Commit(t) \/ Committed(t) \/ Abort(t)
         PROVE  GotInv'
    BY <1>e, <1>12 DEF Commit, Committed, Abort, Taken
  <1>13. CASE \/ SetRouting \/ Shutdown \/ Connect \/ BeginTransaction \/ OpenTransaction
              \/ UNCHANGED vars
    BY <1>e, <1>13 DEF SetRouting, Shutdown, Connect, BeginTransaction, OpenTransaction, Open,
       vars
  <1> QED
    BY <1>1, <1>2, <1>3, <1>4, <1>5, <1>6, <1>7, <1>8, <1>9, <1>10, <1>11, <1>12, <1>13 DEF Next

LEMMA StepLogs ==
  ASSUME InboxesDiffer, Typed, NumberInv, GotInv, LogsInv, [Next]_vars
  PROVE  LogsInv'
  <1>k. Asks' = Asks
    BY ConfKept
  <1>r. conf \in Confs
    BY DEF Typed
  <1>b. \A q \in Asks : asks[q].inbox \in Nat
    BY DEF Typed, AskRecords
  <1>l. \A name \in DOMAIN logs : name[1] = "_inbox" => \E q \in Asks : LogOf(q, name)
    BY DEF LogsInv
  <1>o. ASSUME \A q \in Asks : \A name : LogOf(q, name) => LogOf(q, name)',
               \A name \in DOMAIN logs' : name[1] = "_inbox" => name \in DOMAIN logs
        PROVE  LogsInv'
    BY <1>k, <1>l, <1>o DEF LogsInv
  <1>u. asks' = asks => \A q \in Asks : \A name : LogOf(q, name) => LogOf(q, name)'
    BY DEF LogOf
  <1>e. UNCHANGED <<asks, logs>> => LogsInv'
    BY <1>o, <1>u
  <1>n. \A name \in conf.names : name[1] # "_inbox"
    BY <1>r, ConfsAssumption
  <1>1. ASSUME NEW s \in Subs, Reply(s)
        PROVE  LogsInv'
    <2>1. PICK r \in Asks, msg \in Msgs :
            /\ asks[r].state # "idle" /\ msg = Message(<<"reply", r>>, published + 1, -1, 1)
            /\ PublishDirect(InboxName(asks[r].inbox), msg)
            /\ asks' = [asks EXCEPT ![r].late = @ \/ (asks[r].state = "done" /\ live)]
      BY <1>1, ReplyFacts
    <2>2. /\ \A q \in Asks : /\ asks'[q].state = asks[q].state /\ asks'[q].inbox = asks[q].inbox
                             /\ asks[q].late => asks'[q].late
          /\ asks[r].state = "done" /\ live => asks'[r].late
      BY <2>1, ReplyAsks
    <2>3. \A q \in Asks : \A name : LogOf(q, name) => LogOf(q, name)'
      BY <2>2 DEF LogOf
    <2>4. msg.by = <<"reply", r>>
      BY <2>1 DEF Message
    <2>5. msg.by[1] # "txn"
      BY <2>4
    <2>6. PICK text : text = InboxName(asks[r].inbox)
      OBVIOUS
    <2>7. DOMAIN logs' \subseteq DOMAIN logs \cup {text} /\ (~live => logs' = logs)
      BY <2>1, <2>5, <2>6, DirectEffect
    <2>8. CASE ~live
      BY <1>o, <2>3, <2>7, <2>8
    <2>9. CASE live
      <3>1. LogOf(r, text)'
        BY <2>1, <2>2, <2>6, <2>9 DEF LogOf
      <3>2. \A name \in DOMAIN logs' : name[1] = "_inbox" => \E q \in Asks : LogOf(q, name)'
        BY <1>l, <2>3, <2>7, <3>1
      <3> QED BY <1>k, <3>2 DEF LogsInv
    <2> QED BY <2>8, <2>9
  <1>2. ASSUME NEW name \in conf.names, NEW size \in conf.sizes, PublishOnHandle(name, size)
        PROVE  LogsInv'
    <2>1. CASE handle \in DOMAIN txns /\ Buffer(handle, name, size)
      BY <1>e, <2>1 DEF Buffer
    <2>2. CASE /\ UNCHANGED <<txns, handle, asks>>
               /\ \E msg \in Msgs : msg.by[1] # "txn" /\ msg.inbox = -1 /\ PublishDirect(name, msg)
      <3>1. asks' = asks /\ DOMAIN logs' \subseteq DOMAIN logs \cup {name}
        BY <2>2, DirectEffect
      <3> QED BY <1>o, <1>n, <1>u, <3>1
    <2> QED BY <1>2, <2>1, <2>2, HandlePublish
  <1>3. ASSUME NEW t \in DOMAIN txns, NEW name \in conf.names, NEW size \in conf.sizes,
               PublishOwned(t, name, size)
        PROVE  LogsInv'
    BY <1>e, <1>3 DEF PublishOwned, Buffer
  <1>4. ASSUME NEW t \in DOMAIN txns, CommitOne(t)
        PROVE  LogsInv'
    <2>1. asks' = asks
      BY <1>4 DEF CommitOne
    <2>2. CASE ~live
      BY <1>e, <2>2, <1>4 DEF CommitOne
    <2>3. CASE live
      <3>1. Len(txns[t].buffered) > 0 /\ Fanout(txns[t].buffered[1].name, txns[t].buffered[1].msg)
        BY <2>3, <1>4, TxnSteps
      <3>2. txns[t].buffered \in Seq(Entries)
        <4>1. txns[t] \in TxnRecords
          BY TxnSteps
        <4> QED BY <4>1 DEF TxnRecords
      <3>3. PICK e \in Entries : e = txns[t].buffered[1]
        BY <3>1, <3>2
      <3>4. e.msg \in Msgs /\ e.name \in conf.names
        BY 0 \in Nat, MessageTypes
      <3>5. DOMAIN logs' \subseteq DOMAIN logs \cup {e.name}
        BY <3>1, <3>3, <3>4, FanoutEffect
      <3> QED BY <1>o, <1>n, <1>u, <2>1, <3>4, <3>5
    <2> QED BY <2>2, <2>3
  <1>5. ASSUME NEW r \in Asks, NEW name \in conf.names, Request(r, name)
        PROVE  LogsInv'
    <2>1. /\ asks'[r].inbox = asks[r].inbox /\ asks'[r].state \notin {"idle", "done"}
          /\ \A q \in Asks : q # r => asks'[q] = asks[q]
      BY <1>5, AskSteps, AskOthers
    <2>2. \A q \in Asks : \A x : LogOf(q, x) => LogOf(q, x)'
      BY <2>1 DEF LogOf
    <2>3. DOMAIN logs' \subseteq DOMAIN logs \cup {name}
      BY <1>5, RequestEffect
    <2> QED BY <1>o, <1>n, <2>2, <2>3
  <1>6. ASSUME NEW r \in Asks, Register(r)
        PROVE  LogsInv'
    <2>1. asks[r].state = "idle" /\ \A q \in Asks : q # r => asks'[q] = asks[q]
      BY <1>6, AskSteps, AskOthers
    <2>2. \A q \in Asks : \A name : LogOf(q, name) => LogOf(q, name)'
      BY <2>1 DEF LogOf
    <2>3. DOMAIN logs' = DOMAIN logs
      BY <1>6 DEF Register
    <2> QED BY <1>o, <2>2, <2>3
  <1>7. ASSUME NEW r \in Asks, Awaited(r)
        PROVE  LogsInv'
    <2>1. /\ asks'[r].inbox = asks[r].inbox /\ asks'[r].state \notin {"idle", "done"}
          /\ \A q \in Asks : q # r => asks'[q] = asks[q]
      BY <1>7, AskSteps, AskOthers
    <2>2. \A q \in Asks : \A name : LogOf(q, name) => LogOf(q, name)'
      BY <2>1 DEF LogOf
    <2>3. DOMAIN logs' = DOMAIN logs
      BY <1>7 DEF Awaited
    <2> QED BY <1>o, <2>2, <2>3
  <1>8. ASSUME NEW r \in Asks, Unregister(r)
        PROVE  LogsInv'
    <2>1. /\ asks'[r].inbox = asks[r].inbox /\ asks'[r].state \notin {"idle", "done"}
          /\ \A q \in Asks : q # r => asks'[q] = asks[q]
      BY <1>8, AskSteps, AskOthers
    <2>2. \A q \in Asks : \A name : LogOf(q, name) => LogOf(q, name)'
      BY <2>1 DEF LogOf
    <2>3. DOMAIN logs' = DOMAIN logs
      BY <1>8 DEF Unregister
    <2> QED BY <1>o, <2>2, <2>3
  <1>9. ASSUME NEW r \in Asks, Forget(r)
        PROVE  LogsInv'
    <2>0. PICK text : text = InboxName(asks[r].inbox)
      OBVIOUS
    <2>1. \A q \in Asks : q # r => asks'[q] = asks[q]
      BY <1>9, AskOthers
    <2>2. logs' = Without(logs, text)
      BY <2>0, <1>9 DEF Forget
    <2>3. DOMAIN logs' = DOMAIN logs \ {text}
      BY <2>2 DEF Without, Restrict
    <2>4. \A q \in Asks : \A name : LogOf(q, name) /\ name # text => LogOf(q, name)'
      BY <2>0, <2>1 DEF LogOf
    <2>5. \A name \in DOMAIN logs' : name[1] = "_inbox" => \E q \in Asks : LogOf(q, name)'
      BY <1>l, <2>3, <2>4
    <2> QED BY <1>k, <2>5 DEF LogsInv
  <1>10. ASSUME NEW r \in Asks, Cancel(r)
         PROVE  LogsInv'
    <2>1. /\ asks'[r].inbox = asks[r].inbox /\ asks'[r].state \notin {"idle", "done"}
          /\ \A q \in Asks : q # r => asks'[q] = asks[q]
      BY <1>10, AskSteps, AskOthers
    <2>2. \A q \in Asks : \A name : LogOf(q, name) => LogOf(q, name)'
      BY <2>1 DEF LogOf
    <2>3. DOMAIN logs' = DOMAIN logs
      BY <1>10 DEF Cancel
    <2> QED BY <1>o, <2>2, <2>3
  <1>11. ASSUME NEW s \in Subs,
                Subscribe(s) \/ Unsubscribe(s)
         PROVE  LogsInv'
    BY <1>e, <1>11 DEF Subscribe, Unsubscribe
  <1>12. ASSUME NEW t \in DOMAIN txns,
                Commit(t) \/ Committed(t) \/ Abort(t)
         PROVE  LogsInv'
    BY <1>e, <1>12 DEF Commit, Committed, Abort, Taken
  <1>13. CASE \/ SetRouting \/ Shutdown \/ Connect \/ BeginTransaction \/ OpenTransaction
              \/ UNCHANGED vars
    BY <1>e, <1>13 DEF SetRouting, Shutdown, Connect, BeginTransaction, OpenTransaction, Open,
       vars
  <1> QED
    BY <1>1, <1>2, <1>3, <1>4, <1>5, <1>6, <1>7, <1>8, <1>9, <1>10, <1>11, <1>12, <1>13 DEF Next

LEMMA StepRegistry ==
  ASSUME Typed, NamesInv, GroupsInv, RegistryInv, [Next]_vars
  PROVE  RegistryInv'
  <1>k. Subs' = Subs /\ conf' = conf
    BY ConfKept
  <1>t. /\ sub \in [Subs -> SubRecords] /\ revivals \in Nat /\ conf \in Confs
        /\ \A s \in Subs : sub[s].epoch \in Nat
    BY DEF Typed, SubRecords
  <1>n. \A name \in DOMAIN names : names[name] \in Seq(Receivers)
    BY DEF NamesInv
  <1>s. \A s \in Subs : <<"sub", s>> \in Receivers
    BY DEF Receivers
  <1>g. /\ NamedSubs /\ GroupedSubs /\ GroupTexts
        /\ live => \A s \in OpenSubs : Listed(s)
        /\ ~live => DOMAIN names = {} /\ DOMAIN groups = {}
        /\ \A s \in Subs : sub[s].epoch <= revivals
        /\ routing \in Routings
    BY DEF RegistryInv
  <1>e. UNCHANGED <<live, routing, names, groups, sub, revivals>> => RegistryInv'
    BY <1>k DEF RegistryInv, NamedSubs, GroupedSubs, GroupTexts, Listed, OpenSubs, Registered
  <1>1. CASE SetRouting
    <2>1. routing' \in Routings
      BY <1>t, <1>1, ConfsAssumption DEF SetRouting
    <2>2. UNCHANGED <<live, names, groups, sub, revivals>>
      BY <1>1 DEF SetRouting
    <2> QED BY <1>k, <2>1, <2>2 DEF RegistryInv, NamedSubs, GroupedSubs, GroupTexts, Listed,
           OpenSubs, Registered
  <1>2. CASE Shutdown
    <2>1. names' = << >> /\ groups' = << >> /\ live' = FALSE /\ UNCHANGED <<sub, revivals, routing>>
      BY <1>2 DEF Shutdown
    <2>2. DOMAIN names' = {} /\ DOMAIN groups' = {}
      BY <2>1
    <2> QED BY <1>k, <1>g, <2>1, <2>2 DEF RegistryInv, NamedSubs, GroupedSubs, GroupTexts
  <1>3. CASE Connect
    <2>1. ~live /\ revivals' = revivals + 1 /\ UNCHANGED <<names, groups, sub, routing>>
      BY <1>3 DEF Connect
    <2>2. DOMAIN names' = {} /\ DOMAIN groups' = {}
      BY <1>g, <2>1
    <2>3. \A s \in Subs : sub'[s].epoch <= revivals' /\ sub'[s].epoch # revivals'
      BY <1>g, <1>t, <2>1
    <2>4. OpenSubs' = {}
      BY <1>k, <2>3 DEF OpenSubs
    <2> QED BY <1>k, <1>g, <2>1, <2>2, <2>3, <2>4 DEF RegistryInv, NamedSubs, GroupedSubs,
       GroupTexts
  <1>4. ASSUME NEW s \in Subs, Subscribe(s)
        PROVE  RegistryInv'
    <2>1. PICK text \in Texts, state \in {"open", "refused"} :
            /\ sub[s].state = "idle"
            /\ sub' = [sub EXCEPT ![s] = [state |-> state, text |-> text, epoch |-> revivals]]
            /\ \/ /\ state = "refused" /\ names' = names /\ groups' = groups
               \/ /\ state = "open" /\ live /\ ~HasWildcard(text) /\ text[1] # "_inbox"
                  /\ groups' = groups
                  /\ names' = Put(names, text,
                                  Append(IF text \in DOMAIN names THEN names[text] ELSE << >>,
                                         <<"sub", s>>))
               \/ /\ state = "open" /\ live /\ Parses(text) /\ names' = names
                  /\ groups' = Joined(text, <<"sub", s>>)
      BY <1>4, SubscribeCases
    <2>2. UNCHANGED <<live, routing, revivals>>
      BY <1>4 DEF Subscribe
    <2>3. /\ sub'[s].state = state /\ sub'[s].text = text /\ sub'[s].epoch = revivals
          /\ \A q \in Subs : q # s => sub'[q] = sub[q]
      BY <1>t, <2>1
    <2>4. \A q \in Subs : \A x : Registered(q, x) => q # s /\ Registered(q, x)'
      BY <2>1, <2>2, <2>3 DEF Registered
    <2>5. \A q \in OpenSubs' : q \in Subs /\ (q # s => q \in OpenSubs) /\ (q = s => state = "open")
      BY <1>k, <2>2, <2>3 DEF OpenSubs
    <2>6. \A q \in Subs : sub'[q].epoch <= revivals'
      BY <1>g, <1>t, <2>2, <2>3
    <2>7. state = "open" => Registered(s, text)'
      BY <2>2, <2>3 DEF Registered
    <2> DEFINE x == <<"sub", s>>
    <2>8. CASE state = "refused" /\ names' = names /\ groups' = groups
      <3>1. NamedSubs' /\ GroupedSubs' /\ GroupTexts'
        BY <1>k, <1>g, <2>4, <2>8 DEF NamedSubs, GroupedSubs, GroupTexts
      <3>2. live' => \A q \in OpenSubs' : Listed(q)'
        BY <1>g, <2>2, <2>3, <2>5, <2>8 DEF Listed
      <3> QED BY <1>k, <1>g, <2>2, <2>6, <2>8, <3>1, <3>2 DEF RegistryInv
    <2>9. CASE /\ state = "open" /\ live /\ ~HasWildcard(text) /\ text[1] # "_inbox"
               /\ groups' = groups
               /\ names' = Put(names, text,
                               Append(IF text \in DOMAIN names THEN names[text] ELSE << >>, x))
      <3> DEFINE old == IF text \in DOMAIN names THEN names[text] ELSE << >>
                 n == Append(old, x)
      <3>1. x \in Receivers /\ old \in Seq(Receivers)
        BY <1>s, <1>n, RangeOfNone
      <3>2. Range(n) = Range(old) \cup {x}
        <4> HIDE DEF old, x
        <4> QED BY <3>1, RangeOfAppend
      <3>3. names' = Put(names, text, n)
        BY <2>9
      <3>4. \A q \in Subs : <<"sub", q>> \in Range(old) =>
              text \in DOMAIN names /\ Registered(q, text)
        <4>1. CASE text \in DOMAIN names
          BY <1>g, <4>1 DEF NamedSubs
        <4>2. CASE text \notin DOMAIN names
          BY <4>2, RangeOfNone
        <4> QED BY <4>1, <4>2
      <3>5. \A y \in Range(IF text \in DOMAIN names THEN names[text] ELSE << >>) : y \in Range(n)
        BY <3>2
      <3> HIDE DEF n, old
      <3>6. /\ DOMAIN names' = DOMAIN names \cup {text} /\ names'[text] = n
            /\ \A name \in DOMAIN names : name # text => names'[name] = names[name]
        BY <3>3 DEF Put
      <3>7. \A q \in Subs : <<"sub", q>> \in Range(n) => Registered(q, text)'
        <4> SUFFICES ASSUME NEW q \in Subs, <<"sub", q>> \in Range(n) PROVE Registered(q, text)'
          OBVIOUS
        <4>1. CASE q = s
          BY <2>7, <2>9, <4>1
        <4>2. CASE q # s
          <5>1. <<"sub", q>> # x
            BY <4>2
          <5>2. <<"sub", q>> \in Range(old)
            <6> HIDE DEF x
            <6> QED BY <3>2, <5>1
          <5> QED BY <2>4, <3>4, <5>2
        <4> QED BY <4>1, <4>2
      <3>8. NamedSubs'
        <4> SUFFICES ASSUME NEW name \in DOMAIN names', NEW q \in Subs,
                            <<"sub", q>> \in Range(names'[name])
                     PROVE  Registered(q, name)' /\ ~HasWildcard(name) /\ name[1] # "_inbox"
          BY <1>k DEF NamedSubs
        <4>1. CASE name = text
          BY <2>9, <3>6, <3>7, <4>1
        <4>2. CASE name # text
          <5>1. name \in DOMAIN names /\ <<"sub", q>> \in Range(names[name])
            BY <3>6, <4>2
          <5> QED BY <1>g, <2>4, <5>1 DEF NamedSubs
        <4> QED BY <4>1, <4>2
      <3>9. \A q \in OpenSubs' : Listed(q)'
        <4> SUFFICES ASSUME NEW q \in OpenSubs' PROVE Listed(q)'
          OBVIOUS
        <4>1. CASE q = s
          <5>1. x \in Range(n)
            BY <3>2
          <5>2. text \in DOMAIN names' /\ <<"sub", q>> \in Range(names'[text])
                /\ sub'[q].text = text
            BY <2>3, <3>6, <4>1, <5>1
          <5> QED BY <2>9, <5>2 DEF Listed
        <4>2. CASE q # s
          <5>1. Listed(q) /\ sub'[q] = sub[q]
            BY <1>g, <2>3, <2>5, <2>9, <4>2
          <5>2. CASE \E g \in DOMAIN groups : /\ groups[g].text = sub[q].text
                                              /\ <<"sub", q>> \in Range(groups[g].senders)
            BY <2>9, <5>1, <5>2 DEF Listed
          <5>3. CASE /\ ~HasWildcard(sub[q].text) /\ sub[q].text \in DOMAIN names
                     /\ <<"sub", q>> \in Range(names[sub[q].text])
            <6>1. <<"sub", q>> \in Range(names'[sub[q].text]) /\ sub[q].text \in DOMAIN names'
              <7>1. CASE sub[q].text = text
                <8>1. <<"sub", q>> \in Range(old)
                  BY <5>3, <7>1 DEF old
                <8> HIDE DEF x
                <8> QED BY <3>2, <3>6, <7>1, <8>1
              <7>2. CASE sub[q].text # text
                BY <3>6, <5>3, <7>2
              <7> QED BY <7>1, <7>2
            <6> QED BY <5>1, <5>3, <6>1 DEF Listed
          <5> QED BY <5>1, <5>2, <5>3 DEF Listed
        <4> QED BY <4>1, <4>2
      <3>10. GroupedSubs' /\ GroupTexts'
        BY <1>k, <1>g, <2>4, <2>9 DEF GroupedSubs, GroupTexts
      <3> QED BY <1>k, <1>g, <2>2, <2>6, <2>9, <3>8, <3>9, <3>10 DEF RegistryInv
    <2>10. CASE /\ state = "open" /\ live /\ Parses(text) /\ names' = names
                /\ groups' = Joined(text, x)
      <3>1. x \in Receivers
        BY <1>s
      <3>2. /\ DOMAIN groups \subseteq DOMAIN groups'
            /\ \A g \in DOMAIN groups :
                 /\ groups'[g].text = groups[g].text
                 /\ Range(groups'[g].senders) =
                      Range(groups[g].senders) \cup (IF groups[g].text = text THEN {x} ELSE {})
            /\ \A g \in DOMAIN groups' \ DOMAIN groups :
                 /\ g = Len(groups) + 1 /\ groups'[g].text = text
                 /\ Range(groups'[g].senders) = {x}
                 /\ \A h \in DOMAIN groups : groups[h].text # text
            /\ \E g \in DOMAIN groups' : groups'[g].text = text
        <4> HIDE DEF x
        <4> QED BY ZenonT(30), <2>10, <3>1, JoinedStep
      <3>3. \A g \in DOMAIN groups' : groups'[g].text = text => x \in Range(groups'[g].senders)
        <4> HIDE DEF x
        <4> SUFFICES ASSUME NEW g \in DOMAIN groups', groups'[g].text = text
                     PROVE  x \in Range(groups'[g].senders)
          OBVIOUS
        <4>1. CASE g \in DOMAIN groups
          BY <3>2, <4>1
        <4>2. CASE g \notin DOMAIN groups
          BY <3>2, <4>2
        <4> QED BY <4>1, <4>2
      <3>4. GroupTexts'
        <4>1. \A g \in DOMAIN groups' : Parses(groups'[g].text)
          BY <1>g, <2>10, <3>2 DEF GroupTexts
        <4>2. ASSUME NEW g \in DOMAIN groups', NEW h \in DOMAIN groups',
                     groups'[g].text = groups'[h].text
              PROVE  g = h
          <5>1. CASE g \in DOMAIN groups /\ h \in DOMAIN groups
            BY <1>g, <3>2, <4>2, <5>1 DEF GroupTexts
          <5>2. CASE g \notin DOMAIN groups \/ h \notin DOMAIN groups
            BY <3>2, <4>2, <5>2
          <5> QED BY <5>1, <5>2
        <4> QED BY <4>1, <4>2 DEF GroupTexts
      <3>5. GroupedSubs'
        <4> SUFFICES ASSUME NEW g \in DOMAIN groups', NEW q \in Subs,
                            <<"sub", q>> \in Range(groups'[g].senders)
                     PROVE  \A y : y = groups'[g].text => Registered(q, y)'
          BY <1>k DEF GroupedSubs, Registered
        <4>0. PICK y : y = groups'[g].text
          OBVIOUS
        <4>5. Registered(q, y)'
          <5>1. CASE q = s
            <6>1. y = text
              <7>1. CASE g \in DOMAIN groups
                <8>1. x \notin Range(groups[g].senders)
                  BY <1>g, <2>4, <7>1 DEF GroupedSubs
                <8>2. x \in Range(groups'[g].senders)
                  BY <5>1
                <8> HIDE DEF x
                <8> QED BY <3>2, <4>0, <7>1, <8>1, <8>2
              <7>2. CASE g \notin DOMAIN groups
                BY <3>2, <4>0, <7>2
              <7> QED BY <7>1, <7>2
            <6> QED BY <2>7, <2>10, <5>1, <6>1
          <5>2. CASE q # s
            <6>1. <<"sub", q>> # x
              BY <5>2
            <6>2. g \in DOMAIN groups /\ <<"sub", q>> \in Range(groups[g].senders)
              <7> HIDE DEF x
              <7>1. CASE g \in DOMAIN groups
                BY <3>2, <6>1, <7>1
              <7>2. CASE g \notin DOMAIN groups
                BY SMTT(30), <3>2, <6>1, <7>2
              <7> QED BY <7>1, <7>2
            <6>3. Registered(q, groups[g].text) /\ groups[g].text = y
              BY <1>g, <3>2, <4>0, <6>2 DEF GroupedSubs
            <6> QED BY <2>4, <6>3
          <5> QED BY <5>1, <5>2
        <4> QED BY <4>0, <4>5
      <3>6. \A q \in OpenSubs' : Listed(q)'
        <4> SUFFICES ASSUME NEW q \in OpenSubs' PROVE Listed(q)'
          OBVIOUS
        <4>1. CASE q = s
          <5>1. PICK g \in DOMAIN groups' : groups'[g].text = text
            BY <3>2
          <5>2. <<"sub", q>> \in Range(groups'[g].senders) /\ sub'[q].text = text
            BY <2>3, <3>3, <4>1, <5>1
          <5> QED BY <5>1, <5>2 DEF Listed
        <4>2. CASE q # s
          <5>1. Listed(q) /\ sub'[q] = sub[q]
            BY <1>g, <2>3, <2>5, <2>10, <4>2
          <5>2. CASE \E g \in DOMAIN groups : /\ groups[g].text = sub[q].text
                                              /\ <<"sub", q>> \in Range(groups[g].senders)
            <6>1. PICK g \in DOMAIN groups : /\ groups[g].text = sub[q].text
                                             /\ <<"sub", q>> \in Range(groups[g].senders)
              BY <5>2
            <6>2. /\ g \in DOMAIN groups' /\ groups'[g].text = sub[q].text
                  /\ <<"sub", q>> \in Range(groups'[g].senders)
              <7> HIDE DEF x
              <7> QED BY <3>2, <6>1
            <6> QED BY <5>1, <6>2 DEF Listed
          <5>3. CASE /\ ~HasWildcard(sub[q].text) /\ sub[q].text \in DOMAIN names
                     /\ <<"sub", q>> \in Range(names[sub[q].text])
            BY <2>10, <5>1, <5>3 DEF Listed
          <5> QED BY <5>1, <5>2, <5>3 DEF Listed
        <4> QED BY <4>1, <4>2
      <3>7. NamedSubs'
        BY <1>k, <1>g, <2>4, <2>10 DEF NamedSubs
      <3> QED BY <1>k, <1>g, <2>2, <2>6, <2>10, <3>4, <3>5, <3>6, <3>7 DEF RegistryInv
    <2> QED BY <2>1, <2>8, <2>9, <2>10
  <1>5. ASSUME NEW s \in Subs, Unsubscribe(s)
        PROVE  RegistryInv'
    <2>1. UNCHANGED <<live, routing, names, groups, revivals>>
      BY <1>5 DEF Unsubscribe
    <2>2. /\ \A q \in Subs : sub'[q].text = sub[q].text /\ sub'[q].epoch = sub[q].epoch
          /\ \A q \in Subs : q # s => sub'[q] = sub[q]
          /\ sub[s].state = "open" /\ sub'[s].state = "gone"
      BY <1>t, <1>5 DEF Unsubscribe, SubRecords
    <2>3. \A q \in Subs : \A text : Registered(q, text) => Registered(q, text)'
      BY <2>1, <2>2 DEF Registered
    <2>4. \A q \in OpenSubs' : q \in OpenSubs /\ q \in Subs /\ q # s
      BY <1>k, <2>1, <2>2 DEF OpenSubs
    <2>5. NamedSubs' /\ GroupedSubs' /\ GroupTexts'
      BY <1>k, <1>g, <2>1, <2>3 DEF NamedSubs, GroupedSubs, GroupTexts
    <2>6. live' => \A q \in OpenSubs' : Listed(q)'
      BY <1>g, <2>1, <2>2, <2>4 DEF Listed
    <2> QED BY <1>k, <1>g, <2>1, <2>2, <2>5, <2>6 DEF RegistryInv
  <1>6. ASSUME NEW s \in Subs, Reply(s)
        PROVE  RegistryInv'
    BY <1>e, <1>6 DEF Reply, PublishDirect
  <1>7. ASSUME NEW name \in conf.names, NEW size \in conf.sizes, PublishOnHandle(name, size)
        PROVE  RegistryInv'
    BY <1>e, <1>7 DEF PublishOnHandle, Buffer, PublishDirect
  <1>8. ASSUME NEW t \in DOMAIN txns, CommitOne(t)
        PROVE  RegistryInv'
    BY <1>e, <1>8 DEF CommitOne
  <1>9. ASSUME NEW r \in Asks, Register(r)
        PROVE  RegistryInv'
    <2>1. UNCHANGED <<live, routing, groups, sub, revivals>>
      BY <1>9 DEF Register
    <2>2. CASE ~live
      BY <1>e, <2>1, <2>2, <1>9 DEF Register
    <2>3. CASE live
      <3>0. PICK text : text = InboxName(inbox_seq)
        OBVIOUS
      <3>1. text[1] = "_inbox"
        BY <3>0 DEF InboxName
      <3> DEFINE x == <<"ask", r>>
                 old == IF text \in DOMAIN names THEN names[text] ELSE << >>
                 q == Append(old, x)
      <3>2. names' = Put(names, text, q)
        BY <2>3, <3>0, <1>9 DEF Register
      <3>3. x \in Receivers /\ \A s \in Subs : <<"sub", s>> # x
        BY DEF Receivers
      <3>4. old \in Seq(Receivers)
        BY <1>n, RangeOfNone
      <3>5. Range(q) = Range(old) \cup {x}
        <4> HIDE DEF old, x
        <4> QED BY <3>3, <3>4, RangeOfAppend
      <3>6. \A s \in Subs : <<"sub", s>> \notin Range(q)
        <4>1. \A s \in Subs : <<"sub", s>> \notin Range(old)
          <5>1. CASE text \in DOMAIN names
            BY <1>g, <3>1, <5>1 DEF NamedSubs
          <5>2. CASE text \notin DOMAIN names
            BY <5>2, RangeOfNone
          <5> QED BY <5>1, <5>2
        <4> HIDE DEF old, x, q
        <4> QED BY <3>3, <3>5, <4>1
      <3> HIDE DEF q
      <3>7. /\ DOMAIN names' = DOMAIN names \cup {text} /\ names'[text] = q
            /\ \A name \in DOMAIN names : name # text => names'[name] = names[name]
        BY <3>2 DEF Put
      <3>8. NamedSubs'
        BY <1>k, <1>g, <2>1, <3>6, <3>7 DEF NamedSubs, Registered
      <3>9. \A s \in OpenSubs : Listed(s) => Listed(s)'
        <4> SUFFICES ASSUME NEW s \in OpenSubs, Listed(s) PROVE Listed(s)'
          OBVIOUS
        <4>1. s \in Subs
          BY DEF OpenSubs
        <4>2. CASE \E g \in DOMAIN groups : /\ groups[g].text = sub[s].text
                                            /\ <<"sub", s>> \in Range(groups[g].senders)
          BY <2>1, <4>2 DEF Listed
        <4>3. CASE /\ ~HasWildcard(sub[s].text) /\ sub[s].text \in DOMAIN names
                   /\ <<"sub", s>> \in Range(names[sub[s].text])
          <5>1. sub[s].text # text
            BY <1>g, <3>1, <4>1, <4>3 DEF NamedSubs
          <5> QED BY <2>1, <3>7, <4>3, <5>1 DEF Listed
        <4> QED BY <4>2, <4>3 DEF Listed
      <3>10. OpenSubs' = OpenSubs /\ GroupedSubs' /\ GroupTexts'
        BY <1>k, <1>g, <2>1 DEF OpenSubs, GroupedSubs, GroupTexts, Registered
      <3> QED BY <1>k, <1>g, <2>1, <2>3, <3>8, <3>9, <3>10 DEF RegistryInv
    <2> QED BY <2>2, <2>3
  <1>10. ASSUME NEW r \in Asks, Unregister(r)
         PROVE  RegistryInv'
    <2>1. UNCHANGED <<live, routing, groups, sub, revivals>>
      BY <1>10 DEF Unregister
    <2>2. PICK text : text = InboxName(asks[r].inbox)
      OBVIOUS
    <2>3. text[1] = "_inbox"
      BY <2>2 DEF InboxName
    <2>4. names' = Without(names, text)
      BY <2>2, <1>10 DEF Unregister
    <2>5. /\ DOMAIN names' = DOMAIN names \ {text}
          /\ \A name \in DOMAIN names : name # text => names'[name] = names[name]
      BY <2>4 DEF Without, Restrict
    <2>6. NamedSubs'
      BY <1>k, <1>g, <2>1, <2>5 DEF NamedSubs, Registered
    <2>7. \A s \in OpenSubs : Listed(s) => Listed(s)'
      <3> SUFFICES ASSUME NEW s \in OpenSubs, Listed(s) PROVE Listed(s)'
        OBVIOUS
      <3>1. s \in Subs
        BY DEF OpenSubs
      <3>2. CASE \E g \in DOMAIN groups : /\ groups[g].text = sub[s].text
                                          /\ <<"sub", s>> \in Range(groups[g].senders)
        BY <2>1, <3>2 DEF Listed
      <3>3. CASE /\ ~HasWildcard(sub[s].text) /\ sub[s].text \in DOMAIN names
                 /\ <<"sub", s>> \in Range(names[sub[s].text])
        <4>1. sub[s].text # text
          BY <1>g, <2>3, <3>1, <3>3 DEF NamedSubs
        <4> QED BY <2>1, <2>5, <3>3, <4>1 DEF Listed
      <3> QED BY <3>2, <3>3 DEF Listed
    <2>8. OpenSubs' = OpenSubs /\ GroupedSubs' /\ GroupTexts'
      BY <1>k, <1>g, <2>1 DEF OpenSubs, GroupedSubs, GroupTexts, Registered
    <2>9. ~live' => DOMAIN names' = {} /\ DOMAIN groups' = {}
      BY <1>g, <2>1, <2>5
    <2> QED BY <1>k, <1>g, <2>1, <2>6, <2>7, <2>8, <2>9 DEF RegistryInv
  <1>11. ASSUME NEW t \in DOMAIN txns, NEW name \in conf.names, NEW size \in conf.sizes,
                PublishOwned(t, name, size)
         PROVE  RegistryInv'
    BY <1>e, <1>11 DEF PublishOwned, Buffer
  <1>12. ASSUME NEW t \in DOMAIN txns,
                Commit(t) \/ Committed(t) \/ Abort(t)
         PROVE  RegistryInv'
    BY <1>e, <1>12 DEF Commit, Committed, Abort, Taken
  <1>13. ASSUME NEW r \in Asks, NEW name \in conf.names,
                Request(r, name)
         PROVE  RegistryInv'
    BY <1>e, <1>13 DEF Request
  <1>14. ASSUME NEW r \in Asks,
                Awaited(r) \/ Forget(r) \/ Cancel(r)
         PROVE  RegistryInv'
    BY <1>e, <1>14 DEF Awaited, Forget, Cancel
  <1>15. CASE \/ BeginTransaction \/ OpenTransaction \/ UNCHANGED vars
    BY <1>e, <1>15 DEF BeginTransaction, OpenTransaction, Open, vars
  <1> QED
    BY <1>1, <1>2, <1>3, <1>4, <1>5, <1>6, <1>7, <1>8, <1>9, <1>10, <1>11, <1>12, <1>13, <1>14,
       <1>15 DEF Next

(***************************************************************************)
(* The invariant holds                                                     *)
(***************************************************************************)
LEMMA InitInv ==
  ASSUME Init
  PROVE  Inv
<1>1. conf \in Confs /\ conf.routings \subseteq Routings
  BY ConfsAssumption DEF Init
<1>2. Len(<< >>) = 0 /\ DOMAIN << >> = {} /\ \A S : << >> \in Seq(S)
  BY RangeOfNone
<1>3. Typed
  <2>1. sub \in [Subs -> SubRecords]
    BY <1>2 DEF Init, SubRecords
  <2>2. asks \in [Asks -> AskRecords]
    BY DEF Init, AskRecords, AskStates
  <2>3. got \in [Receivers -> Seq(Msgs)]
    BY <1>2 DEF Init
  <2>4. txns \in Seq(TxnRecords) /\ sent \in Seq(Seq(Entries)) /\ Len(txns) = 0
    BY <1>2 DEF Init
  <2>5. handle \in 0 .. Len(txns)
    BY <2>4 DEF Init
  <2> QED BY <1>1, <2>1, <2>2, <2>3, <2>4, <2>5 DEF Init, Typed
<1>4. TxnInv
  BY <1>2 DEF Init, TxnInv
<1>5. NumberInv
  BY DEF Init, NumberInv
<1>6. NamesInv
  BY <1>2 DEF Init, NamesInv
<1>7. GroupsInv
  BY <1>2 DEF Init, GroupsInv
<1>8. GotInv
  <2>1. \A x \in Receivers : Len(got[x]) = 0
    BY <1>2 DEF Init
  <2>2. /\ \A s \in Subs : <<"sub", s>> \in Receivers
        /\ \A r \in Asks : <<"ask", r>> \in Receivers
    BY DEF Receivers
  <2>3. ReplyIsMine
    BY DEF Init, ReplyIsMine
  <2>4. /\ \A r \in Asks : Len(got[<<"ask", r>>]) = 0
        /\ \A s \in Subs : Len(got[<<"sub", s>>]) = 0
    BY <2>1, <2>2
  <2> QED BY <2>3, <2>4 DEF GotInv
<1>9. LogsInv
  BY <1>2 DEF Init, LogsInv
<1>10. RegistryInv
  BY <1>1, <1>2 DEF Init, RegistryInv, NamedSubs, GroupedSubs, GroupTexts, OpenSubs
<1> QED BY <1>3, <1>4, <1>5, <1>6, <1>7, <1>8, <1>9, <1>10 DEF Inv

LEMMA StepInv ==
  ASSUME InboxesDiffer, Inv, [Next]_vars
  PROVE  Inv'
<1>1. /\ Typed /\ TxnInv /\ NumberInv /\ NamesInv
      /\ GroupsInv /\ GotInv /\ LogsInv /\ RegistryInv
  BY DEF Inv
<1>2. Typed' /\ TxnInv' /\ NumberInv'
  BY <1>1, StepTypes, StepTxns, StepNumbers
<1>3. NamesInv' /\ GroupsInv' /\ GotInv'
  BY <1>1, StepNames, StepGroups, StepGot
<1>4. LogsInv' /\ RegistryInv'
  BY <1>1, StepLogs, StepRegistry
<1> QED BY <1>2, <1>3, <1>4 DEF Inv

LEMMA Invariant ==
  ASSUME InboxesDiffer
  PROVE  Spec => []Inv
<1>1. Init => Inv
  BY InitInv
<1>2. Inv /\ [Next]_vars => Inv'
  BY StepInv
<1> QED BY <1>1, <1>2, PTL DEF Spec

(***************************************************************************)
(* What follows                                                            *)
(***************************************************************************)
\* What the bus saw of a transaction is a prefix of what was published into it, whatever else is
\* published and however often the bus shuts down and comes back: a commit fans out the head of
\* its buffer and the first refusal ends it.
THEOREM BusSeesAPrefix ==
  ASSUME InboxesDiffer
  PROVE  Spec => []TransactionsHold
<1>1. ASSUME Inv PROVE TransactionsHold
  <2>1. /\ txns \in Seq(TxnRecords) /\ sent \in Seq(Seq(Entries)) /\ Len(sent) = Len(txns)
        /\ handle # 0 => txns[handle].kind = "handle" /\ txns[handle].state = "open"
        /\ \A t \in DOMAIN txns : TxnHolds(t, txns[t], sent[t])
    BY <1>1 DEF Inv, Typed, TxnInv
  <2>2. ASSUME NEW t \in DOMAIN txns
        PROVE  /\ sent[t] = SubSeq(txns[t].wrote, 1, Len(sent[t]))
               /\ txns[t].state \in {"open", "aborted"} => Len(sent[t]) = 0
               /\ txns[t].state = "committed" => Len(sent[t]) = Len(txns[t].wrote)
               /\ txns[t].state = "failed" => Len(sent[t]) < Len(txns[t].wrote)
    <3> DEFINE seen == sent[t]  wrote == txns[t].wrote  rest == txns[t].buffered
    <3>1. /\ seen \in Seq(Entries) /\ wrote \in Seq(Entries) /\ rest \in Seq(Entries)
          /\ txns[t].state \in TxnStates
      <4>1. t \in 1 .. Len(txns) /\ t \in 1 .. Len(sent) /\ DOMAIN sent = 1 .. Len(sent)
        BY <2>1
      <4>2. txns[t] \in TxnRecords /\ sent[t] \in Seq(Entries)
        BY <2>1, <4>1
      <4> QED BY <4>2 DEF TxnRecords
    <3>2. TxnHolds(t, txns[t], seen)
      BY <2>1
    <3>3. /\ txns[t].state \in {"open", "committing", "committed"} => Splits(seen, rest, wrote)
          /\ txns[t].state \in {"open", "aborted"} => Len(seen) = 0
          /\ txns[t].state = "committed" => Len(rest) = 0
          /\ txns[t].state = "failed" => /\ Len(seen) < Len(wrote)
                                         /\ \A i \in 1 .. Len(seen) : wrote[i] = seen[i]
      BY <3>2 DEF TxnHolds
    <3> HIDE DEF seen, wrote, rest
    <3>4. Len(seen) \in Nat /\ Len(wrote) \in Nat /\ Len(rest) \in Nat
      BY <3>1
    <3>5. Len(seen) <= Len(wrote) /\ \A i \in 1 .. Len(seen) : wrote[i] = seen[i]
      <4>1. CASE txns[t].state \in {"open", "committing", "committed"}
        BY <3>3, <3>4, <4>1 DEF Splits
      <4>2. CASE txns[t].state = "failed"
        BY <3>3, <3>4, <4>2
      <4>3. CASE txns[t].state = "aborted"
        BY <3>3, <3>4, <4>3
      <4> QED BY <3>1, <4>1, <4>2, <4>3 DEF TxnStates
    <3>6. seen = SubSeq(wrote, 1, Len(seen))
      BY <3>1, <3>5, PrefixOf
    <3>7. txns[t].state = "committed" => Len(seen) = Len(wrote)
      BY <3>3, <3>4 DEF Splits
    <3> QED BY <3>3, <3>6, <3>7 DEF seen, wrote
  <2> QED BY <2>1, <2>2 DEF TransactionsHold
<1>2. Inv => TransactionsHold
  BY <1>1
<1> QED BY <1>2, Invariant, PTL

\* A request resolves with a reply to itself: an inbox has a number no other request has or will
\* have, and only replies to the request that took it are published under it.
THEOREM AnsweredByItsReply ==
  ASSUME InboxesDiffer
  PROVE  Spec => []ReplyIsMine
<1>1. Inv => ReplyIsMine
  BY DEF Inv, GotInv
<1> QED BY <1>1, Invariant, PTL

\* A request that returned is in no registry, and in the log only by what a responder published
\* after the return: unregister and forget, in whatever order with a shutdown and a revival.
THEOREM NothingLeftBehind ==
  ASSUME InboxesDiffer
  PROVE  Spec => []InboxesReleased
<1>1. ASSUME Inv, NEW r \in Asks, asks[r].state = "done"
      PROVE  /\ InboxName(asks[r].inbox) \notin DOMAIN names
             /\ InboxName(asks[r].inbox) \in DOMAIN logs => asks[r].late
  <2>1. asks[r].inbox \in Nat /\ \A q \in Asks : asks[q].inbox \in Nat
    BY <1>1 DEF Inv, Typed, AskRecords
  <2>2. InboxName(asks[r].inbox)[1] = "_inbox"
    BY <2>1, InboxNames
  <2>3. ASSUME NEW q \in Asks, asks[q].state # "idle",
               InboxName(asks[r].inbox) = InboxName(asks[q].inbox)
        PROVE  q = r
    <3>1. asks[r].inbox = asks[q].inbox
      BY <2>1, <2>3, InboxNames
    <3> QED BY <1>1, <2>3, <3>1 DEF Inv, NumberInv
  <2>4. ASSUME InboxName(asks[r].inbox) \in DOMAIN names PROVE FALSE
    <3>1. PICK q \in Asks : Owns(q, InboxName(asks[r].inbox))
      BY <1>1, <2>2, <2>4 DEF Inv, NamesInv
    <3>2. q = r
      BY <2>3, <3>1 DEF Owns
    <3> QED BY <1>1, <3>1, <3>2 DEF Owns
  <2>5. ASSUME InboxName(asks[r].inbox) \in DOMAIN logs PROVE asks[r].late
    <3>1. PICK q \in Asks : LogOf(q, InboxName(asks[r].inbox))
      BY <1>1, <2>2, <2>5 DEF Inv, LogsInv
    <3>2. q = r
      BY <2>3, <3>1 DEF LogOf
    <3> QED BY <1>1, <3>1, <3>2 DEF LogOf
  <2> QED BY <2>4, <2>5
<1>2. Inv => InboxesReleased
  BY <1>1 DEF InboxesReleased
<1> QED BY <1>2, Invariant, PTL

\* On the patterns that match a name, Pattern::specificity is the order the documentation of
\* Routing gives in words.
LEMMA BeatsIsMoreSpecific ==
  ASSUME NEW left \in Texts, NEW right \in Texts, NEW name \in Texts, Parses(left), Parses(right),
         Matches(left, name), Matches(right, name)
  PROVE  Beats(left, right) <=> MoreSpecific(left, right)
<1>0. /\ Len(left) \in Nat /\ Len(right) \in Nat /\ Len(name) \in Nat /\ Len(right) > 0
      /\ DOMAIN left = 1 .. Len(left) /\ DOMAIN right = 1 .. Len(right)
      /\ \A i \in 1 .. Len(left) : left[i] \in STRING
      /\ \A i \in 1 .. Len(right) : right[i] \in STRING
  BY DEF Texts
<1>1. ASSUME Beats(left, right) PROVE MoreSpecific(left, right)
  <2>1. PICK i \in DOMAIN left \cap DOMAIN right :
          /\ \A j \in 1 .. i - 1 : left[j] = right[j]
          /\ left[i] # right[i] /\ left[i] # ">"
          /\ left[i] = "*" => right[i] = ">"
          /\ right[i] \in {"*", ">"}
    BY <1>1 DEF Beats
  <2>2. Rank(left[i]) > Rank(right[i])
    BY <2>1 DEF Rank
  <2>3. i \in 1 .. Len(left) /\ i \in 1 .. Len(right)
    BY <1>0
  <2>4. \A j \in 1 .. i - 1 : j <= Len(right) /\ Rank(left[j]) = Rank(right[j])
    BY <1>0, <2>1, <2>3
  <2> QED BY <2>2, <2>3, <2>4 DEF MoreSpecific
<1>2. ASSUME MoreSpecific(left, right) PROVE Beats(left, right)
  <2>1. PICK i \in 1 .. Len(left) :
          /\ \A j \in 1 .. i - 1 : j <= Len(right) /\ Rank(left[j]) = Rank(right[j])
          /\ i > Len(right) \/ Rank(left[i]) > Rank(right[i])
    BY <1>2 DEF MoreSpecific
  <2>2. ASSUME NEW j \in 1 .. i - 1 PROVE left[j] = right[j]
    <3>1. j \in 1 .. Len(left) /\ j \in 1 .. Len(right) /\ Rank(left[j]) = Rank(right[j])
      BY <1>0, <2>1
    <3>2. /\ left[j] # ">" => TokenMatches(left[j], name[j])
          /\ right[j] # ">" => TokenMatches(right[j], name[j])
      BY <3>1, TokenAt
    <3> QED BY <1>0, <3>1, <3>2, RankTells
  <2>3. ASSUME i > Len(right) PROVE FALSE
    <3> DEFINE l == Len(left)  r == Len(right)  n == Len(name)
    <3>0. /\ l \in Nat /\ r \in Nat /\ n \in Nat /\ r > 0 /\ i \in 1 .. l /\ i > r
          /\ i - 1 \in 1 .. i - 1 => i - 1 <= r
      BY <1>0, <2>1, <2>3
    <3>1. CASE right[r] = ">"
      <4>1. r \in 1 .. i - 1 /\ r \in DOMAIN left
        BY <1>0, <3>0
      <4>2. left[r] = ">"
        BY <2>2, <3>1, <4>1
      <4>3. r = l
        BY <4>1, <4>2 DEF Parses
      <4> HIDE DEF l, r, n
      <4> QED BY <3>0, <4>3
    <3>2. CASE right[r] # ">"
      <4>1. n = r
        BY <3>2, Zenon DEF Matches
      <4>2. n >= l \/ n = l
        BY Zenon DEF Matches
      <4> HIDE DEF l, r, n
      <4> QED BY <3>0, <4>1, <4>2
    <3> QED BY <3>1, <3>2
  <2>4. i \in DOMAIN left \cap DOMAIN right /\ Rank(left[i]) > Rank(right[i])
    BY <1>0, <2>1, <2>3
  <2>5. /\ left[i] # right[i] /\ left[i] # ">" /\ right[i] \in {"*", ">"}
        /\ left[i] = "*" => right[i] = ">"
    <3> DEFINE a == left[i]  b == right[i]
    <3>1. Rank(a) > Rank(b)
      BY <2>4
    <3> HIDE DEF a, b
    <3>2. Rank(">") = 0 /\ Rank("*") = 1
      BY DEF Rank
    <3>3. b \in {"*", ">"} \/ Rank(b) = 2
      BY DEF Rank
    <3>4. Rank(a) \in 0 .. 2 /\ Rank(b) \in 0 .. 2
      BY RankType
    <3>5. a # b /\ a # ">" /\ b \in {"*", ">"} /\ (a = "*" => b = ">")
      BY <3>1, <3>2, <3>3, <3>4
    <3> QED BY <3>5 DEF a, b
  <2> QED BY <2>2, <2>4, <2>5 DEF Beats
<1> QED BY <1>1, <1>2

Greatest(g, among) ==
  \A h \in among : groups[h].text = groups[g].text \/ MoreSpecific(groups[g].text, groups[h].text)

LEMMA GreatestExists ==
  ASSUME GroupsInv, NEW name \in Texts, Reading(name) # {}
  PROVE  \E g \in Reading(name) : Greatest(g, Reading(name))
<1> DEFINE texts == [g \in DOMAIN groups |-> groups[g].text]
<1>1. /\ groups \in Seq(GroupRecords) /\ Len(groups) \in Nat
      /\ DOMAIN groups = 1 .. Len(groups)
  BY DEF GroupsInv
<1>2. /\ Reading(name) \in SUBSET (1 .. Len(groups))
      /\ \A g \in Reading(name) : texts[g] = groups[g].text /\ Matches(texts[g], name)
  BY <1>1 DEF Reading, Matching
<1>3. \A g \in Reading(name) : texts[g] \in Texts
  <2>1. \A g \in Reading(name) : groups[g] \in GroupRecords
    BY <1>1, <1>2
  <2> QED BY <1>2, <2>1 DEF GroupRecords
<1> DEFINE I == Reading(name)
<1> HIDE DEF texts, I
<1>4. /\ MaxBy(texts, I) \in I
      /\ \A h \in I : \/ texts[h] = texts[MaxBy(texts, I)]
                      \/ MoreSpecific(texts[MaxBy(texts, I)], texts[h])
  <2>1. I \in SUBSET (1 .. Len(groups)) /\ I # {}
        /\ \A g \in I : texts[g] \in Texts /\ Matches(texts[g], name)
    BY <1>2, <1>3 DEF I
  <2> QED BY <1>1, <2>1, MaxByIsGreatest
<1> DEFINE m == MaxBy(texts, I)
<1> HIDE DEF m
<1>5. m \in I /\ \A h \in I : texts[h] = texts[m] \/ MoreSpecific(texts[m], texts[h])
  BY <1>4 DEF m
<1> QED BY <1>2, <1>5 DEF I, Greatest

\* The greatest of the live patterns that match is the only one to beat all the others.
LEMMA GreatestWins ==
  ASSUME GroupsInv, GroupTexts, NEW name \in Texts,
         NEW g \in Reading(name), Greatest(g, Reading(name))
  PROVE  {w \in Reading(name) :
            \A h \in Reading(name) \ {w} : Beats(groups[w].text, groups[h].text)} = {g}
<1>1. \A h \in Reading(name) :
        h \in DOMAIN groups /\ groups[h].text \in Texts /\ Parses(groups[h].text)
          /\ Matches(groups[h].text, name)
  <2>1. \A h \in DOMAIN groups : groups[h] \in GroupRecords
    BY DEF GroupsInv
  <2> QED BY <2>1 DEF Reading, Matching, GroupTexts, GroupRecords
<1>2. \A h \in Reading(name) : groups[h].text = groups[g].text => h = g
  BY <1>1 DEF GroupTexts
<1>3. ASSUME NEW h \in Reading(name) \ {g} PROVE Beats(groups[g].text, groups[h].text)
  <2>1. MoreSpecific(groups[g].text, groups[h].text)
    BY <1>2 DEF Greatest
  <2> QED BY <1>1, <2>1, BeatsIsMoreSpecific
<1>4. ASSUME NEW w \in Reading(name), w # g,
             \A h \in Reading(name) \ {w} : Beats(groups[w].text, groups[h].text)
      PROVE  FALSE
  <2>1. MoreSpecific(groups[w].text, groups[g].text)
    <3>1. Beats(groups[w].text, groups[g].text)
      BY <1>4
    <3> QED BY <1>1, <3>1, BeatsIsMoreSpecific
  <2>2. MoreSpecific(groups[g].text, groups[w].text)
    BY <1>2, <1>4 DEF Greatest
  <2> QED BY <1>1, <2>1, <2>2, NotBothMoreSpecific
<1> QED BY <1>3, <1>4

\* Under MostSpecific one live pattern that matches beats all the others in the documented order,
\* and the fan-out picks it: max_by over Pattern::specificity has one greatest, because the
\* registry keeps one group per text.
THEOREM SingleWinner ==
  ASSUME InboxesDiffer
  PROVE  Spec => []OneWinner
<1>1. ASSUME Inv PROVE OneWinner
  <2>1. GroupsInv /\ GroupTexts /\ routing \in Routings
    BY <1>1 DEF Inv, RegistryInv
  <2> SUFFICES ASSUME routing = "MostSpecific", NEW name \in conf.names
               PROVE  LET matching == {g \in LiveGroups : Matches(groups[g].text, name)}
                          winners  == {g \in matching : \A h \in matching \ {g} :
                                         Beats(groups[g].text, groups[h].text)}
                      IN  /\ matching # {} => Cardinality(winners) = 1
                          /\ (\A r \in Exact(name) : ~Receiving(r)) => Picked(name) = winners
    BY DEF OneWinner
  <2> DEFINE matching == {g \in LiveGroups : Matches(groups[g].text, name)}
             winners  == {g \in matching : \A h \in matching \ {g} :
                            Beats(groups[g].text, groups[h].text)}
  <2>2. name \in Texts
    BY <1>1, ConfsAssumption DEF Inv, Typed
  <2>3. matching = Reading(name)
    BY DEF Reading, Matching, LiveGroups
  <2>4. \A g \in Reading(name) : Greatest(g, Reading(name)) => winners = {g}
    BY <2>1, <2>2, <2>3, GreatestWins
  <2>5. matching # {} => Cardinality(winners) = 1
    <3> HAVE matching # {}
    <3>1. PICK g \in Reading(name) : Greatest(g, Reading(name))
      BY <2>1, <2>2, <2>3, GreatestExists
    <3>2. winners = {g}
      BY <2>4, <3>1
    <3> HIDE DEF winners
    <3> QED BY <3>2, FS_Singleton
  <2>6. (\A r \in Exact(name) : ~Receiving(r)) => Picked(name) = winners
    <3> HAVE \A r \in Exact(name) : ~Receiving(r)
    <3>1. ~Claimed(name)
      BY DEF Claimed
    <3>2. CASE Reading(name) = {}
      BY <2>1, <2>2, <2>3, <3>1, <3>2, PickedFacts
    <3>3. CASE Reading(name) # {}
      <4>1. PICK g \in Reading(name) : /\ Picked(name) = {g}
                                       /\ Greatest(g, Reading(name))
        BY <2>1, <2>2, <3>1, <3>3, PickedFacts DEF Greatest
      <4> HIDE DEF winners
      <4> QED BY <2>4, <4>1
    <3> QED BY <3>2, <3>3
  <2> QED BY <2>5, <2>6
<1>2. Inv => OneWinner
  BY <1>1
<1> QED BY <1>2, Invariant, PTL

(***************************************************************************)
(* The fan-out and the harness's rule                                      *)
(***************************************************************************)
\* The open subscriptions of a name, and those whose pattern matches it.
Named(name) == {s \in OpenSubs : ~HasWildcard(sub[s].text) /\ sub[s].text = name}
Patterned(name) ==
  {s \in OpenSubs : HasWildcard(sub[s].text) /\ Parses(sub[s].text) /\ Matches(sub[s].text, name)}

\* The registry of a live bus and the open subscriptions tell the same.
LEMMA RegistryTells ==
  ASSUME Typed, GroupsInv, RegistryInv, live
  PROVE  /\ \A s \in Subs : Receiving(<<"sub", s>>) <=> sub[s].state = "open"
         /\ \A s \in Subs, name \in Texts :
              <<"sub", s>> \in Exact(name) /\ Receiving(<<"sub", s>>) <=> s \in Named(name)
         /\ \A s \in Subs, g \in DOMAIN groups :
              <<"sub", s>> \in Range(groups[g].senders) /\ Receiving(<<"sub", s>>)
                <=> s \in OpenSubs /\ sub[s].text = groups[g].text
<1>1. ASSUME NEW s \in Subs PROVE Receiving(<<"sub", s>>) <=> sub[s].state = "open"
  BY DEF Receiving
<1>2. /\ NamedSubs /\ GroupedSubs /\ GroupTexts
      /\ \A s \in OpenSubs : Listed(s)
  BY DEF RegistryInv
<1>3. \A g \in DOMAIN groups : HasWildcard(groups[g].text)
  BY <1>2 DEF GroupTexts, Parses
<1>4. ASSUME NEW s \in Subs, NEW name \in Texts
      PROVE  <<"sub", s>> \in Exact(name) /\ Receiving(<<"sub", s>>) <=> s \in Named(name)
  <2>1. ASSUME <<"sub", s>> \in Exact(name), Receiving(<<"sub", s>>) PROVE s \in Named(name)
    <3>1. name \in DOMAIN names /\ <<"sub", s>> \in Range(names[name])
      BY <2>1 DEF Exact
    <3>2. Registered(s, name) /\ ~HasWildcard(name)
      BY <1>2, <3>1 DEF NamedSubs
    <3>3. s \in OpenSubs /\ sub[s].text = name
      BY <1>1, <2>1, <3>2 DEF Registered, OpenSubs
    <3> QED BY <3>2, <3>3 DEF Named
  <2>2. ASSUME s \in Named(name) PROVE <<"sub", s>> \in Exact(name) /\ Receiving(<<"sub", s>>)
    <3>1. s \in OpenSubs /\ ~HasWildcard(name) /\ sub[s].text = name
      BY <2>2 DEF Named
    <3>2. name \in DOMAIN names /\ <<"sub", s>> \in Range(names[name])
      BY <1>2, <1>3, <3>1 DEF Listed
    <3>3. sub[s].state = "open"
      BY <3>1 DEF OpenSubs
    <3> QED BY <1>1, <3>2, <3>3 DEF Exact
  <2> QED BY <2>1, <2>2
<1>5. ASSUME NEW s \in Subs, NEW g \in DOMAIN groups
      PROVE  <<"sub", s>> \in Range(groups[g].senders) /\ Receiving(<<"sub", s>>)
               <=> s \in OpenSubs /\ sub[s].text = groups[g].text
  <2>1. ASSUME <<"sub", s>> \in Range(groups[g].senders), Receiving(<<"sub", s>>)
        PROVE  s \in OpenSubs /\ sub[s].text = groups[g].text
    <3>1. Registered(s, groups[g].text)
      BY <1>2, <2>1 DEF GroupedSubs
    <3> QED BY <1>1, <2>1, <3>1 DEF Registered, OpenSubs
  <2>2. ASSUME s \in OpenSubs, sub[s].text = groups[g].text
        PROVE  <<"sub", s>> \in Range(groups[g].senders) /\ Receiving(<<"sub", s>>)
    <3>1. sub[s].state = "open"
      BY <2>2 DEF OpenSubs
    <3>2. PICK h \in DOMAIN groups : /\ groups[h].text = sub[s].text
                                     /\ <<"sub", s>> \in Range(groups[h].senders)
      BY <1>2, <1>3, <2>2 DEF Listed
    <3>3. h = g
      BY <1>2, <2>2, <3>2 DEF GroupTexts
    <3> QED BY <1>1, <3>1, <3>2, <3>3
  <2> QED BY <2>1, <2>2
<1> QED BY <1>1, <1>4, <1>5

\* A group is live while an open subscription has its text; a name of the application is taken by
\* an open subscription of it and never by a request.
LEMMA WhoReads ==
  ASSUME Inv, live, NEW name \in conf.names
  PROVE  /\ Claimed(name) <=> Named(name) # {}
         /\ \A g \in Reading(name) : \E s \in Patterned(name) : sub[s].text = groups[g].text
         /\ \A s \in Patterned(name) : \E g \in Reading(name) : sub[s].text = groups[g].text
<1>0. /\ Typed /\ GroupsInv /\ RegistryInv /\ NamesInv /\ GroupTexts
      /\ \A s \in OpenSubs : Listed(s) /\ s \in Subs
  BY DEF Inv, RegistryInv, OpenSubs
<1>1. name \in Texts /\ name[1] # "_inbox"
  BY <1>0, ConfsAssumption DEF Typed
<1>2. Claimed(name) <=> Named(name) # {}
  <2>1. ASSUME NEW r \in Exact(name), Receiving(r) PROVE \E s \in Subs : r = <<"sub", s>>
    <3>1. name \in DOMAIN names /\ r \in Range(names[name])
      BY DEF Exact
    <3>2. r \in Receivers
      <4>1. names[name] \in Seq(Receivers)
        BY <1>0, <3>1 DEF NamesInv
      <4>2. PICK i \in DOMAIN names[name] : r = names[name][i]
        BY <3>1 DEF Range
      <4> QED BY <4>1, <4>2
    <3>3. ASSUME NEW q \in Asks, r = <<"ask", q>> PROVE FALSE
      <4>1. Owns(q, name)
        BY <1>0, <3>1, <3>3 DEF NamesInv
      <4>2. InboxName(asks[q].inbox)[1] = "_inbox"
        BY DEF InboxName
      <4> QED BY <1>1, <4>1, <4>2 DEF Owns
    <3> QED BY <3>2, <3>3 DEF Receivers
  <2>2. ASSUME Claimed(name) PROVE Named(name) # {}
    <3>1. PICK r \in Exact(name) : Receiving(r)
      BY <2>2 DEF Claimed
    <3>2. PICK s \in Subs : r = <<"sub", s>>
      BY <2>1, <3>1
    <3>3. s \in Named(name)
      BY <1>0, <1>1, <3>1, <3>2, RegistryTells
    <3> QED BY <3>3
  <2>3. ASSUME NEW s \in Named(name) PROVE Claimed(name)
    <3>1. s \in Subs
      BY <1>0 DEF Named
    <3>2. <<"sub", s>> \in Exact(name) /\ Receiving(<<"sub", s>>)
      BY <1>0, <1>1, <3>1, RegistryTells
    <3> QED BY <3>2 DEF Claimed
  <2> QED BY <2>2, <2>3
<1>3. ASSUME NEW g \in Reading(name)
      PROVE  \E s \in Patterned(name) : sub[s].text = groups[g].text
  <2>1. /\ g \in DOMAIN groups /\ Matches(groups[g].text, name)
        /\ \E r \in Range(groups[g].senders) : Receiving(r)
    BY DEF Reading, Matching, LiveGroups
  <2>2. PICK r \in Range(groups[g].senders) : Receiving(r)
    BY <2>1
  <2>3. r \in Receivers
    <3>1. groups[g] \in GroupRecords
      BY <1>0, <2>1 DEF GroupsInv
    <3>2. groups[g].senders \in Seq(Receivers)
      BY <3>1 DEF GroupRecords
    <3>3. PICK i \in DOMAIN groups[g].senders : r = groups[g].senders[i]
      BY DEF Range
    <3> QED BY <3>2, <3>3
  <2>4. PICK s \in Subs : r = <<"sub", s>>
    BY <1>0, <2>1, <2>3 DEF Receivers, GroupsInv
  <2>5. s \in OpenSubs /\ sub[s].text = groups[g].text
    BY <1>0, <2>1, <2>2, <2>4, RegistryTells
  <2>6. Parses(groups[g].text) /\ HasWildcard(groups[g].text)
    BY <1>0, <2>1 DEF GroupTexts, Parses
  <2>7. s \in Patterned(name)
    BY <2>1, <2>5, <2>6 DEF Patterned
  <2> QED BY <2>5, <2>7
<1>4. ASSUME NEW s \in Patterned(name)
      PROVE  \E g \in Reading(name) : sub[s].text = groups[g].text
  <2>1. s \in OpenSubs /\ HasWildcard(sub[s].text) /\ Matches(sub[s].text, name)
    BY DEF Patterned
  <2>2. PICK g \in DOMAIN groups : /\ groups[g].text = sub[s].text
                                   /\ <<"sub", s>> \in Range(groups[g].senders)
    BY <1>0, <2>1 DEF Listed
  <2>3. Receiving(<<"sub", s>>)
    BY <1>0, <2>1, <2>2, RegistryTells
  <2>4. g \in Reading(name)
    BY <2>1, <2>2, <2>3 DEF Reading, Matching, LiveGroups
  <2> QED BY <2>2, <2>4
<1> QED BY <1>2, <1>3, <1>4

\* Routing::routes over the open subscriptions.
LEMMA RoutesIs ==
  ASSUME Typed, routing \in Routings, NEW name \in Texts, \A s \in OpenSubs : sub[s].text \in Texts
  PROVE  LET routes == Routes(routing, name, [s \in OpenSubs |-> sub[s].text])
         IN  /\ routing = "EveryMatch" => routes = Named(name) \cup Patterned(name)
             /\ routing = "MostSpecific" /\ Named(name) # {} => routes = Named(name)
             /\ routing = "MostSpecific" /\ Named(name) = {} /\ Patterned(name) = {} => routes = {}
             /\ routing = "MostSpecific" /\ Named(name) = {} /\ Patterned(name) # {} =>
                  \E m \in Patterned(name) :
                    /\ routes = {s \in Patterned(name) : sub[s].text = sub[m].text}
                    /\ \A s \in Patterned(name) : \/ sub[s].text = sub[m].text
                                                  \/ MoreSpecific(sub[m].text, sub[s].text)
<1> DEFINE f == [s \in OpenSubs |-> sub[s].text]
           E == {i \in DOMAIN f : ~HasWildcard(f[i]) /\ f[i] = name}
           P == {i \in DOMAIN f : HasWildcard(f[i]) /\ Parses(f[i]) /\ Matches(f[i], name)}
<1>1. DOMAIN f = OpenSubs /\ \A s \in OpenSubs : f[s] = sub[s].text
  OBVIOUS
<1>2. E = Named(name)
  BY <1>1 DEF Named
<1>3. P = Patterned(name)
  BY <1>1 DEF Patterned
<1>4. P \in SUBSET (1 .. conf.subs) /\ conf.subs \in Nat
  BY ConfsAssumption DEF Typed, OpenSubs, Subs
<1>5. \A s \in P : f[s] \in Texts /\ Matches(f[s], name) /\ f[s] = sub[s].text /\ s \in OpenSubs
  BY <1>1
<1> DEFINE routes == Routes(routing, name, f)
<1>6. routes = CASE routing = "EveryMatch" -> E \cup P
                 [] routing = "MostSpecific" /\ E # {} -> E
                 [] routing = "MostSpecific" /\ E = {} /\ P = {} -> {}
                 [] OTHER -> {i \in P : f[i] = f[MaxBy(f, P)]}
  BY Zenon DEF Routes
<1> HIDE DEF f, E, P
<1>7. routing = "EveryMatch" => routes = E \cup P
  BY <1>6
<1>8. routing = "MostSpecific" /\ E # {} => routes = E
  BY <1>6
<1>9. routing = "MostSpecific" /\ E = {} /\ P = {} => routes = {}
  BY <1>6
<1>10. routing = "MostSpecific" /\ E = {} /\ P # {} =>
         \E m \in P : /\ routes = {s \in P : sub[s].text = sub[m].text}
                      /\ \A s \in P : \/ sub[s].text = sub[m].text
                                      \/ MoreSpecific(sub[m].text, sub[s].text)
  <2> HAVE routing = "MostSpecific" /\ E = {} /\ P # {}
  <2>1. routes = {i \in P : f[i] = f[MaxBy(f, P)]}
    BY <1>6
  <2>2. /\ MaxBy(f, P) \in P
        /\ \A s \in P : f[s] = f[MaxBy(f, P)] \/ MoreSpecific(f[MaxBy(f, P)], f[s])
    BY <1>4, <1>5, MaxByIsGreatest
  <2> DEFINE m == MaxBy(f, P)
  <2> HIDE DEF m, routes
  <2>3. /\ m \in P /\ routes = {i \in P : f[i] = f[m]}
        /\ \A s \in P : f[s] = f[m] \/ MoreSpecific(f[m], f[s])
    BY <2>1, <2>2 DEF m
  <2>4. routes = {s \in P : sub[s].text = sub[m].text}
    BY <1>5, <2>3
  <2> QED BY <1>5, <2>3, <2>4
<1> HIDE DEF routes
<1>11. /\ routing = "EveryMatch" => routes = Named(name) \cup Patterned(name)
       /\ routing = "MostSpecific" /\ Named(name) # {} => routes = Named(name)
       /\ routing = "MostSpecific" /\ Named(name) = {} /\ Patterned(name) = {} => routes = {}
       /\ routing = "MostSpecific" /\ Named(name) = {} /\ Patterned(name) # {} =>
                  \E m \in Patterned(name) :
                    /\ routes = {s \in Patterned(name) : sub[s].text = sub[m].text}
                    /\ \A s \in Patterned(name) : \/ sub[s].text = sub[m].text
                                                  \/ MoreSpecific(sub[m].text, sub[s].text)
  BY <1>2, <1>3, <1>7, <1>8, <1>9, <1>10
<1> QED BY <1>11 DEF routes, f

\* The fan-out over the registry reaches exactly the subscriptions Routing::routes picks among the
\* open ones, whatever has subscribed, gone, shut down and come back.
THEOREM FanoutIsTheRule ==
  ASSUME InboxesDiffer
  PROVE  Spec => []FanoutMatchesRoutes
<1>1. ASSUME Inv, live, NEW name \in conf.names
      PROVE  {s \in Subs : <<"sub", s>> \in Reached(name)}
               = Routes(routing, name, [s \in OpenSubs |-> sub[s].text])
  <2>0. /\ Typed /\ GroupsInv /\ RegistryInv /\ GroupTexts /\ routing \in Routings
        /\ \A s \in OpenSubs : s \in Subs /\ sub[s].text \in Texts
    BY <1>1 DEF Inv, RegistryInv, OpenSubs, Listed
  <2>1. name \in Texts
    BY <2>0, ConfsAssumption DEF Typed
  <2> DEFINE routes == Routes(routing, name, [s \in OpenSubs |-> sub[s].text])
             E == Named(name)
             P == Patterned(name)
             Of(g) == {s \in OpenSubs : sub[s].text = groups[g].text}
  <2>2. \A g \in Picked(name) : g \in DOMAIN groups /\ Matches(groups[g].text, name)
    BY <2>0, <2>1, PickedFacts DEF Matching
  <2>3. \A s \in Subs : <<"sub", s>> \in Reached(name) <=>
          s \in E \/ \E g \in Picked(name) : s \in Of(g)
    <3> SUFFICES ASSUME NEW s \in Subs
                 PROVE  <<"sub", s>> \in Reached(name) <=>
                          s \in E \/ \E g \in Picked(name) : s \in Of(g)
      OBVIOUS
    <3>1. <<"sub", s>> \in Reached(name) <=>
            /\ Receiving(<<"sub", s>>)
            /\ \/ <<"sub", s>> \in Exact(name)
               \/ \E g \in Picked(name) : <<"sub", s>> \in Range(groups[g].senders)
      BY DEF Reached
    <3>2. <<"sub", s>> \in Exact(name) /\ Receiving(<<"sub", s>>) <=> s \in E
      BY <1>1, <2>0, <2>1, RegistryTells
    <3>3. \A g \in Picked(name) :
            <<"sub", s>> \in Range(groups[g].senders) /\ Receiving(<<"sub", s>>) <=> s \in Of(g)
      BY <1>1, <2>0, <2>2, RegistryTells
    <3> HIDE DEF E, Of
    <3> QED BY <3>1, <3>2, <3>3
  <2>4. /\ \A s \in E : s \in Subs
        /\ \A s \in P : s \in Subs
        /\ \A g \in DOMAIN groups : Matches(groups[g].text, name) => Of(g) \subseteq P
    BY <2>0 DEF Named, Patterned, GroupTexts, Parses
  <2>5. /\ Claimed(name) <=> E # {}
        /\ \A g \in Reading(name) : \E s \in P : sub[s].text = groups[g].text
        /\ \A s \in P : \E g \in Reading(name) : sub[s].text = groups[g].text
    BY <1>1, WhoReads
  <2>6. /\ routing = "EveryMatch" => routes = E \cup P
        /\ routing = "MostSpecific" /\ E # {} => routes = E
        /\ routing = "MostSpecific" /\ E = {} /\ P = {} => routes = {}
        /\ routing = "MostSpecific" /\ E = {} /\ P # {} =>
             \E m \in P : /\ routes = {s \in P : sub[s].text = sub[m].text}
                          /\ \A s \in P : \/ sub[s].text = sub[m].text
                                          \/ MoreSpecific(sub[m].text, sub[s].text)
    BY <2>0, <2>1, RoutesIs
  <2>7. \A s \in P : s \in OpenSubs
    BY DEF Patterned
  <2>8. \A g \in Reading(name) : g \in Matching(name) /\ g \in DOMAIN groups
    BY DEF Reading, Matching
  <2> HIDE DEF E, P, routes
  <2>9. CASE routing = "EveryMatch"
    <3>1. \A s \in Subs : s \in P <=> \E g \in Picked(name) : s \in Of(g)
      <4>1. Picked(name) = Matching(name)
        BY <2>0, <2>1, <2>9, PickedFacts
      <4> QED BY <2>2, <2>4, <2>5, <2>7, <2>8, <4>1
    <3>2. {s \in Subs : <<"sub", s>> \in Reached(name)} = E \cup P
      BY <2>3, <2>4, <3>1
    <3> QED BY <2>6, <2>9, <3>2 DEF routes
  <2>10. CASE routing = "MostSpecific" /\ E # {}
    <3>1. Picked(name) = {}
      BY <2>0, <2>1, <2>5, <2>10, PickedFacts
    <3>2. {s \in Subs : <<"sub", s>> \in Reached(name)} = E
      BY <2>3, <2>4, <3>1
    <3> QED BY <2>6, <2>10, <3>2 DEF routes
  <2>11. CASE routing = "MostSpecific" /\ E = {} /\ P = {}
    <3>1. Picked(name) = {}
      BY <2>0, <2>1, <2>5, <2>11, PickedFacts
    <3>2. {s \in Subs : <<"sub", s>> \in Reached(name)} = {}
      BY <2>3, <2>11, <3>1
    <3> QED BY <2>6, <2>11, <3>2 DEF routes
  <2>12. CASE routing = "MostSpecific" /\ E = {} /\ P # {}
    <3>1. PICK g \in Reading(name) :
            /\ Picked(name) = {g}
            /\ \A h \in Reading(name) : \/ groups[h].text = groups[g].text
                                         \/ MoreSpecific(groups[g].text, groups[h].text)
      BY <2>0, <2>1, <2>5, <2>12, PickedFacts
    <3>2. PICK m \in P : /\ routes = {s \in P : sub[s].text = sub[m].text}
                         /\ \A s \in P : \/ sub[s].text = sub[m].text
                                         \/ MoreSpecific(sub[m].text, sub[s].text)
      BY <2>6, <2>12
    <3>3. sub[m].text = groups[g].text
      <4>1. PICK h \in Reading(name) : sub[m].text = groups[h].text
        BY <2>5
      <4>2. PICK s \in P : sub[s].text = groups[g].text
        BY <2>5
      <4>3. sub[m].text \in Texts /\ sub[s].text \in Texts
        BY <2>0, <2>7
      <4> QED BY <3>1, <3>2, <4>1, <4>2, <4>3, NotBothMoreSpecific
    <3>4. Of(g) \subseteq P
      BY <2>4, <2>8 DEF Matching
    <3>5. {s \in Subs : <<"sub", s>> \in Reached(name)} = {s \in P : sub[s].text = sub[m].text}
      BY <2>3, <2>4, <2>7, <2>12, <3>1, <3>3, <3>4
    <3> QED BY <3>2, <3>5 DEF routes
  <2> QED BY <2>0, <2>9, <2>10, <2>11, <2>12 DEF Routings
<1>2. Inv => FanoutMatchesRoutes
  BY <1>1 DEF FanoutMatchesRoutes
<1> QED BY <1>2, Invariant, PTL

(***************************************************************************)
(* The publish logs                                                        *)
(***************************************************************************)
\* f holds the running sums of the first m entries.
RunsTo(s, f, m) == f[0] = 0 /\ \A k \in 1 .. m : f[k] = f[k - 1] + s[k]
Sums(s, f) == f = [k \in 0 .. Len(s) |-> IF k = 0 THEN 0 ELSE f[k - 1] + s[k]]

\* Induction over the naturals, for a set of them.
LEMMA Induct ==
  ASSUME NEW T \in SUBSET Nat, 0 \in T, \A n \in T : n + 1 \in T
  PROVE  T = Nat
<1> DEFINE U == Nat \ T
<1> SUFFICES ASSUME U # {} PROVE FALSE
  OBVIOUS
<1>1. PICK m \in U : \A k \in U : m <= k
  BY LeastOf
<1>2. m \in Nat /\ m # 0
  OBVIOUS
<1>3. m - 1 \in Nat /\ m - 1 \notin U /\ (m - 1) + 1 = m
  BY <1>1, <1>2
<1> QED BY <1>3

\* Every sequence of sizes has running sums, so PrefixBytes is the function it says it is.
LEMMA SumsExist ==
  ASSUME NEW s \in Seq(Nat)
  PROVE  \E f : Sums(s, f)
<1> DEFINE T == {m \in Nat : m <= Len(s) => \E f \in [0 .. m -> Nat] : RunsTo(s, f, m)}
<1>0. Len(s) \in Nat /\ \A k \in 1 .. Len(s) : s[k] \in Nat
  OBVIOUS
<1>1. 0 \in T
  <2>1. [k \in 0 .. 0 |-> 0] \in [0 .. 0 -> Nat] /\ RunsTo(s, [k \in 0 .. 0 |-> 0], 0)
    BY DEF RunsTo
  <2> QED BY <2>1
<1>2. ASSUME NEW m \in T PROVE m + 1 \in T
  <2>1. m \in Nat /\ m + 1 \in Nat
    OBVIOUS
  <2>2. ASSUME m + 1 <= Len(s) PROVE \E f \in [0 .. m + 1 -> Nat] : RunsTo(s, f, m + 1)
    <3>1. PICK f \in [0 .. m -> Nat] : RunsTo(s, f, m)
      BY <1>0, <2>1, <2>2
    <3> DEFINE g == [k \in 0 .. m + 1 |-> IF k = m + 1 THEN f[m] + s[m + 1] ELSE f[k]]
    <3>2. s[m + 1] \in Nat /\ f[m] \in Nat
      BY <1>0, <2>1, <2>2
    <3>3. g \in [0 .. m + 1 -> Nat]
      BY SMTT(30), <2>1, <3>2
    <3>4. g[0] = 0
      BY <2>1, <3>1 DEF RunsTo
    <3>5. ASSUME NEW k \in 1 .. m + 1 PROVE g[k] = g[k - 1] + s[k]
      <4>1. CASE k = m + 1
        <5>1. g[k] = f[m] + s[m + 1] /\ g[k - 1] = f[m]
          BY <4>1, <2>1
        <5> QED BY <5>1, <4>1
      <4>2. CASE k # m + 1
        <5>1. k \in 1 .. m /\ k \in 0 .. m + 1 /\ k - 1 \in 0 .. m + 1 /\ k - 1 # m + 1
          BY <4>2, <2>1
        <5>2. g[k] = f[k] /\ g[k - 1] = f[k - 1]
          BY <4>2, <5>1
        <5>3. f[k] = f[k - 1] + s[k]
          BY <3>1, <5>1 DEF RunsTo
        <5> QED BY <5>2, <5>3
      <4> QED BY <4>1, <4>2
    <3> HIDE DEF g
    <3>6. RunsTo(s, g, m + 1)
      BY <3>4, <3>5 DEF RunsTo
    <3> QED BY <3>3, <3>6
  <2> QED BY <2>1, <2>2
<1>3. T = Nat
  <2>1. T \in SUBSET Nat
    OBVIOUS
  <2> HIDE DEF T
  <2> QED BY <1>1, <1>2, <2>1, Induct
<1>4. PICK f \in [0 .. Len(s) -> Nat] : RunsTo(s, f, Len(s))
  <2>1. Len(s) \in T
    BY <1>0, <1>3
  <2> QED BY <1>0, <2>1
<1>5. \A k \in 0 .. Len(s) : f[k] = IF k = 0 THEN 0 ELSE f[k - 1] + s[k]
  BY <1>0, <1>4 DEF RunsTo
<1>6. f = [k \in 0 .. Len(s) |-> f[k]]
  OBVIOUS
<1>7. Sums(s, f)
  BY <1>5, <1>6 DEF Sums
<1> QED BY <1>7

\* The bytes of the first k entries are those of the first k - 1 and the kth's.
LEMMA PrefixFacts ==
  ASSUME NEW s \in Seq(Nat)
  PROVE  /\ PrefixBytes(s)[0] = 0
         /\ \A k \in 1 .. Len(s) : PrefixBytes(s)[k] = PrefixBytes(s)[k - 1] + s[k]
         /\ \A k \in 0 .. Len(s) : PrefixBytes(s)[k] \in Nat
<1>0. Len(s) \in Nat /\ \A k \in 1 .. Len(s) : s[k] \in Nat
  OBVIOUS
<1>1. PrefixBytes(s) = CHOOSE f : Sums(s, f)
  BY DEF PrefixBytes, Sums
<1>2. PICK p : p = PrefixBytes(s)
  OBVIOUS
<1>3. Sums(s, p)
  BY <1>1, <1>2, SumsExist
<1>4. p[0] = 0 /\ \A k \in 1 .. Len(s) : p[k] = p[k - 1] + s[k]
  <2>1. \A k \in 0 .. Len(s) : p[k] = IF k = 0 THEN 0 ELSE p[k - 1] + s[k]
    BY <1>3 DEF Sums
  <2>2. 0 \in 0 .. Len(s) /\ \A k \in 1 .. Len(s) : k \in 0 .. Len(s) /\ k # 0
    BY <1>0
  <2>3. p[0] = 0
    BY <2>1, <2>2
  <2> QED BY <2>1, <2>2, <2>3
<1> DEFINE T == {m \in Nat : m <= Len(s) => p[m] \in Nat}
<1>5. 0 \in T
  BY <1>4
<1>6. ASSUME NEW m \in T PROVE m + 1 \in T
  <2>1. m \in Nat /\ m + 1 \in Nat
    OBVIOUS
  <2>2. ASSUME m + 1 <= Len(s) PROVE p[m + 1] \in Nat
    <3>1. p[m] \in Nat /\ m + 1 \in 1 .. Len(s) /\ (m + 1) - 1 = m
      BY <1>0, <2>1, <2>2
    <3>2. p[m + 1] = p[m] + s[m + 1]
      BY <1>4, <3>1
    <3> QED BY <1>0, <3>1, <3>2
  <2> QED BY <2>1, <2>2
<1>7. T = Nat
  <2>1. T \in SUBSET Nat
    OBVIOUS
  <2> HIDE DEF T
  <2> QED BY <1>5, <1>6, <2>1, Induct
<1>8. \A k \in 0 .. Len(s) : p[k] \in Nat
  BY <1>0, <1>7
<1> QED BY <1>2, <1>4, <1>8

\* A run of entries has the difference of the bytes before its end and before its beginning.
LEMMA RunBytes ==
  ASSUME NEW s \in Seq(Nat), NEW t \in Seq(Nat), NEW a \in Nat, a + Len(t) <= Len(s),
         \A j \in 1 .. Len(t) : t[j] = s[a + j]
  PROVE  \A j \in 0 .. Len(t) : PrefixBytes(t)[j] = PrefixBytes(s)[a + j] - PrefixBytes(s)[a]
<1>0. Len(s) \in Nat /\ Len(t) \in Nat
  OBVIOUS
<1>1. PICK p : p = PrefixBytes(s)
  OBVIOUS
<1>2. PICK q : q = PrefixBytes(t)
  OBVIOUS
<1>3. /\ p[0] = 0 /\ \A k \in 1 .. Len(s) : p[k] = p[k - 1] + s[k]
      /\ \A k \in 0 .. Len(s) : p[k] \in Nat
  BY <1>1, PrefixFacts
<1>4. /\ q[0] = 0 /\ \A k \in 1 .. Len(t) : q[k] = q[k - 1] + t[k]
      /\ \A k \in 0 .. Len(t) : q[k] \in Nat
  BY <1>2, PrefixFacts
<1> DEFINE T == {m \in Nat : m <= Len(t) => q[m] = p[a + m] - p[a]}
<1>5. 0 \in T
  <2>1. a \in 0 .. Len(s) /\ a + 0 = a
    BY <1>0
  <2> QED BY <1>3, <1>4, <2>1
<1>6. ASSUME NEW m \in T PROVE m + 1 \in T
  <2>1. m \in Nat /\ m + 1 \in Nat
    OBVIOUS
  <2>2. ASSUME m + 1 <= Len(t) PROVE q[m + 1] = p[a + (m + 1)] - p[a]
    <3>0. q[m] = p[a + m] - p[a]
      <4>1. m <= Len(t)
        BY <1>0, <2>1, <2>2
      <4> QED BY <4>1, <1>6
    <3>1. /\ m + 1 \in 1 .. Len(t) /\ (m + 1) - 1 = m
          /\ a + (m + 1) \in 1 .. Len(s) /\ (a + (m + 1)) - 1 = a + m
          /\ a \in 0 .. Len(s) /\ a + m \in 0 .. Len(s)
      BY SMTT(30), <1>0, <2>1, <2>2
    <3>2. q[m + 1] = q[m] + t[m + 1]
      BY <1>4, <3>1
    <3>3. p[a + (m + 1)] = p[a + m] + s[a + (m + 1)]
      BY <1>3, <3>1
    <3>4. t[m + 1] = s[a + (m + 1)] /\ s[a + (m + 1)] \in Nat
      BY SMTT(30), <3>1
    <3>5. p[a] \in Nat /\ p[a + m] \in Nat
      BY <1>3, <3>1
    <3> QED BY <3>0, <3>2, <3>3, <3>4, <3>5
  <2> QED BY <2>1, <2>2
<1>7. T = Nat
  <2>1. T \in SUBSET Nat
    OBVIOUS
  <2> HIDE DEF T
  <2> QED BY <1>5, <1>6, <2>1, Induct
<1>8. ASSUME NEW j \in 0 .. Len(t) PROVE q[j] = p[a + j] - p[a]
  <2>1. j \in Nat /\ j <= Len(t)
    BY <1>0
  <2>2. j \in T
    BY ONLY <1>7, <2>1
  <2> QED BY <2>1, <2>2
<1> QED BY <1>1, <1>2, <1>8

\* A suffix's bytes grow with its length.
LEMMA PrefixGrows ==
  ASSUME NEW s \in Seq(Nat), NEW i \in 0 .. Len(s), NEW j \in 0 .. Len(s), i <= j
  PROVE  PrefixBytes(s)[i] <= PrefixBytes(s)[j]
<1>0. Len(s) \in Nat /\ \A k \in 1 .. Len(s) : s[k] \in Nat
  OBVIOUS
<1>1. PICK p : p = PrefixBytes(s)
  OBVIOUS
<1>2. /\ \A k \in 1 .. Len(s) : p[k] = p[k - 1] + s[k]
      /\ \A k \in 0 .. Len(s) : p[k] \in Nat
  BY <1>1, PrefixFacts
<1> DEFINE T == {m \in Nat : i + m <= Len(s) => p[i] <= p[i + m]}
<1>3. 0 \in T
  <2>1. i + 0 = i /\ p[i] \in Nat
    BY <1>0, <1>2
  <2> QED BY <2>1
<1>4. ASSUME NEW m \in T PROVE m + 1 \in T
  <2>1. m \in Nat /\ m + 1 \in Nat
    OBVIOUS
  <2>2. ASSUME i + (m + 1) <= Len(s) PROVE p[i] <= p[i + (m + 1)]
    <3>1. /\ i + (m + 1) \in 1 .. Len(s) /\ (i + (m + 1)) - 1 = i + m
          /\ i + m \in 0 .. Len(s) /\ i + m <= Len(s)
      BY <1>0, <2>1, <2>2
    <3>2. p[i] <= p[i + m]
      BY <3>1, <1>4
    <3>3. p[i + (m + 1)] = p[i + m] + s[i + (m + 1)]
      BY <1>2, <3>1
    <3>4. s[i + (m + 1)] \in Nat
      BY <1>0, <3>1
    <3>5. p[i] \in Nat /\ p[i + m] \in Nat
      BY <1>2, <3>1
    <3> QED BY <3>2, <3>3, <3>4, <3>5
  <2> QED BY <2>1, <2>2
<1>5. T = Nat
  <2>1. T \in SUBSET Nat
    OBVIOUS
  <2> HIDE DEF T
  <2> QED BY <1>3, <1>4, <2>1, Induct
<1>6. j - i \in Nat /\ i + (j - i) = j /\ j <= Len(s)
  BY <1>0
<1>7. j - i \in T
  BY ONLY <1>5, <1>6
<1>8. p[i] <= p[i + (j - i)]
  BY <1>6, <1>7
<1> QED BY <1>1, <1>6, <1>8
\* A log after whole was recorded under its name, oldest message first.
Window(retention, log, whole) ==
  LET kept == Len(log.entries)
      admitted(k) == Admits(retention, k, Bytes(SuffixOf(whole, k)))
  IN  /\ log.entries = SuffixOf(whole, kept)
      /\ NextSeq(log) = Len(whole)
      /\ log.bytes = Bytes(log.entries)
      /\ kept > 1 => admitted(kept)
      /\ \A k \in kept + 1 .. Len(whole) : ~admitted(k)

\* A log: the sizes of its entries, the sequence number of the first and what it counts.
LogRecords == [entries : Seq(Nat), first_seq : Nat, bytes : Nat]

\* The last k entries, and what they sum to.
LEMMA SuffixFacts ==
  ASSUME NEW s \in Seq(Nat), NEW k \in 0 .. Len(s)
  PROVE  /\ SuffixOf(s, k) \in Seq(Nat)
         /\ Len(SuffixOf(s, k)) = k
         /\ \A j \in 1 .. k : SuffixOf(s, k)[j] = s[(Len(s) - k) + j]
         /\ Bytes(SuffixOf(s, k)) = PrefixBytes(s)[Len(s)] - PrefixBytes(s)[Len(s) - k]
<1>0. Len(s) \in Nat /\ k \in Nat /\ Len(s) - k \in Nat
  OBVIOUS
<1>1. PICK t : t = SuffixOf(s, k)
  OBVIOUS
<1>2. t = SubSeq(s, (Len(s) - k) + 1, Len(s))
  BY <1>1 DEF SuffixOf
<1>3. /\ t \in Seq(Nat) /\ Len(t) = k
      /\ \A j \in 1 .. k : t[j] = s[(Len(s) - k) + j]
  <2>1. /\ (Len(s) - k) + 1 \in 1 .. Len(s) + 1 /\ Len(s) \in (Len(s) - k) .. Len(s)
    BY <1>0
  <2>2. \A i \in (Len(s) - k) + 1 .. Len(s) : s[i] \in Nat
    BY <1>0
  <2>3. /\ t \in Seq(Nat)
        /\ Len(t) = IF (Len(s) - k) + 1 <= Len(s) THEN Len(s) - ((Len(s) - k) + 1) + 1 ELSE 0
        /\ \A i \in 1 .. Len(s) - ((Len(s) - k) + 1) + 1 : t[i] = s[((Len(s) - k) + 1) + i - 1]
    BY <1>0, <1>2, <2>1, <2>2, SubSeqProperties
  <2>4. Len(t) = k
    BY <1>0, <2>3
  <2>5. ASSUME NEW j \in 1 .. k PROVE t[j] = s[(Len(s) - k) + j]
    <3>1. /\ j \in 1 .. Len(s) - ((Len(s) - k) + 1) + 1
          /\ ((Len(s) - k) + 1) + j - 1 = (Len(s) - k) + j
      BY <1>0
    <3> QED BY <2>3, <3>1
  <2> QED BY <2>3, <2>4, <2>5
<1>4. \A j \in 0 .. Len(t) :
        PrefixBytes(t)[j] = PrefixBytes(s)[(Len(s) - k) + j] - PrefixBytes(s)[Len(s) - k]
  <2>1. PICK a \in Nat : a = Len(s) - k
    BY <1>0
  <2>2. a + Len(t) <= Len(s) /\ \A j \in 1 .. Len(t) : t[j] = s[a + j]
    BY <1>0, <1>3, <2>1
  <2>3. \A j \in 0 .. Len(t) : PrefixBytes(t)[j] = PrefixBytes(s)[a + j] - PrefixBytes(s)[a]
    BY <1>3, <2>2, RunBytes
  <2> QED BY <2>1, <2>3
<1>5. PrefixBytes(t)[k] = PrefixBytes(s)[Len(s)] - PrefixBytes(s)[Len(s) - k]
  <2>1. k \in 0 .. Len(t) /\ (Len(s) - k) + k = Len(s)
    BY <1>0, <1>3
  <2> QED BY <1>4, <2>1
<1> QED BY <1>1, <1>3, <1>5 DEF Bytes

\* What is no longer and no larger than something that fits the bounds fits them too.
LEMMA AdmitsLess ==
  ASSUME NEW retention \in RetentionBounds, NEW m \in Nat, NEW n \in Nat, m <= n,
         NEW b \in Nat, NEW c \in Nat, b <= c, Admits(retention, n, c)
  PROVE  Admits(retention, m, b)
<1>1. retention.messages \in Nat /\ retention.bytes \in Nat
  BY DEF RetentionBounds
<1>2. /\ retention.kind \in {"Messages", "MessagesAndBytes"} => n <= retention.messages
      /\ retention.kind \in {"Bytes", "MessagesAndBytes"} => c <= retention.bytes
  BY DEF Admits
<1>3. retention.kind \in {"Messages", "MessagesAndBytes"} => m <= retention.messages
  BY <1>1, <1>2
<1>4. retention.kind \in {"Bytes", "MessagesAndBytes"} => b <= retention.bytes
  BY <1>1, <1>2
<1> QED BY <1>3, <1>4 DEF Admits

\* The loop of push stops, and at the first log that one message or the bound allows.
LEMMA EvictionsFacts ==
  ASSUME NEW retention, NEW log, log.entries \in Seq(Nat), Len(log.entries) >= 1
  PROVE  /\ Evictions(retention, log) \in 0 .. Len(log.entries) - 1
         /\ StopsAt(retention, log, Evictions(retention, log))
         /\ \A j \in 0 .. Evictions(retention, log) - 1 : ~StopsAt(retention, log, j)
<1> DEFINE L == Len(log.entries)
           T == {k \in 0 .. L - 1 : StopsAt(retention, log, k)}
<1>1. L \in Nat /\ L >= 1
  OBVIOUS
<1>2. L - 1 \in T
  <2>1. L - (L - 1) <= 1 /\ L - 1 \in 0 .. L - 1
    BY <1>1
  <2> QED BY <2>1 DEF StopsAt
<1>3. T \in SUBSET Nat /\ T # {}
  BY <1>1, <1>2
<1>4. PICK m \in T : \A k \in T : m <= k
  BY ONLY <1>3, LeastOf
<1>5. /\ m \in 0 .. L - 1 /\ StopsAt(retention, log, m)
      /\ \A j \in 0 .. m - 1 : ~StopsAt(retention, log, j)
  <2>1. m \in 0 .. L - 1 /\ StopsAt(retention, log, m)
    BY <1>4
  <2>2. ASSUME NEW j \in 0 .. m - 1, StopsAt(retention, log, j) PROVE FALSE
    <3>1. j \in 0 .. L - 1 /\ ~(m <= j)
      BY <1>1, <2>1
    <3>2. j \in T
      BY <2>2, <3>1
    <3> QED BY <1>4, <3>1, <3>2
  <2> QED BY <2>1, <2>2
<1>6. Evictions(retention, log) = CHOOSE k \in 0 .. L - 1 :
        StopsAt(retention, log, k) /\ \A j \in 0 .. k - 1 : ~StopsAt(retention, log, j)
  BY DEF Evictions
<1> HIDE DEF L, T
<1>7. /\ Evictions(retention, log) \in 0 .. L - 1
      /\ StopsAt(retention, log, Evictions(retention, log))
      /\ \A j \in 0 .. Evictions(retention, log) - 1 : ~StopsAt(retention, log, j)
  BY <1>5, <1>6
<1> QED BY <1>7 DEF L

\* The bytes of the newest k messages of whole.
Newest(whole, k) == PrefixBytes(whole)[Len(whole)] - PrefixBytes(whole)[Len(whole) - k]

\* The newest messages sum to a number, and more of them to no less.
LEMMA NewestFacts ==
  ASSUME NEW whole \in Seq(Nat)
  PROVE  /\ \A k \in 0 .. Len(whole) : Newest(whole, k) \in Nat
         /\ \A j, k \in 0 .. Len(whole) : j <= k => Newest(whole, j) <= Newest(whole, k)
<1>0. Len(whole) \in Nat
  OBVIOUS
<1>1. PICK p : p = PrefixBytes(whole)
  OBVIOUS
<1>2. \A k \in 0 .. Len(whole) : p[k] \in Nat
  BY <1>1, PrefixFacts
<1>3. \A i, j \in 0 .. Len(whole) : i <= j => p[i] <= p[j]
  BY <1>1, PrefixGrows
<1>4. ASSUME NEW k \in 0 .. Len(whole) PROVE Newest(whole, k) \in Nat
  <2>1. Len(whole) - k \in 0 .. Len(whole) /\ Len(whole) \in 0 .. Len(whole)
        /\ Len(whole) - k <= Len(whole)
    BY <1>0
  <2>2. p[Len(whole) - k] \in Nat /\ p[Len(whole)] \in Nat /\ p[Len(whole) - k] <= p[Len(whole)]
    BY <1>2, <1>3, <2>1
  <2> QED BY <1>1, <2>2 DEF Newest
<1>5. ASSUME NEW j \in 0 .. Len(whole), NEW k \in 0 .. Len(whole), j <= k
      PROVE  Newest(whole, j) <= Newest(whole, k)
  <2>1. /\ Len(whole) - k \in 0 .. Len(whole) /\ Len(whole) \in 0 .. Len(whole)
        /\ Len(whole) - j \in 0 .. Len(whole) /\ Len(whole) - k <= Len(whole) - j
    BY <1>0, <1>5
  <2>2. /\ p[Len(whole) - k] \in Nat /\ p[Len(whole)] \in Nat /\ p[Len(whole) - j] \in Nat
        /\ p[Len(whole) - k] <= p[Len(whole) - j]
    BY <1>2, <1>3, <2>1
  <2> QED BY <1>1, <2>2 DEF Newest
<1> QED BY <1>4, <1>5

\* One more message: the newest k + 1 are the newest k before and it.
LEMMA NewestAppend ==
  ASSUME NEW whole \in Seq(Nat), NEW size \in Nat
  PROVE  \A k \in 0 .. Len(whole) :
           Newest(Append(whole, size), k + 1) = Newest(whole, k) + size
<1>0. Len(whole) \in Nat
  OBVIOUS
<1>1. PICK t : t = Append(whole, size)
  OBVIOUS
<1>2. /\ t \in Seq(Nat) /\ Len(t) = Len(whole) + 1 /\ t[Len(whole) + 1] = size
      /\ \A j \in 1 .. Len(whole) : t[j] = whole[j]
  BY <1>1
<1>3. PICK p : p = PrefixBytes(whole)
  OBVIOUS
<1>4. PICK q : q = PrefixBytes(t)
  OBVIOUS
<1>5. /\ \A k \in 0 .. Len(whole) : p[k] \in Nat
      /\ \A k \in 1 .. Len(t) : q[k] = q[k - 1] + t[k]
      /\ \A k \in 0 .. Len(t) : q[k] \in Nat
      /\ q[0] = 0
  BY <1>2, <1>3, <1>4, PrefixFacts
<1>6. \A j \in 0 .. Len(whole) : p[j] = q[j]
  <2>1. 0 + Len(whole) <= Len(t) /\ \A j \in 1 .. Len(whole) : whole[j] = t[0 + j]
    BY <1>0, <1>2
  <2>2. \A j \in 0 .. Len(whole) :
          PrefixBytes(whole)[j] = PrefixBytes(t)[0 + j] - PrefixBytes(t)[0]
    BY <1>2, <2>1, 0 \in Nat, RunBytes
  <2>3. ASSUME NEW j \in 0 .. Len(whole) PROVE p[j] = q[j]
    <3>1. p[j] = q[0 + j] - q[0]
      BY <2>2, <1>3, <1>4
    <3>2. 0 + j = j /\ j \in 0 .. Len(t)
      BY <1>0, <1>2
    <3>3. q[j] \in Nat
      BY <1>5, <3>2
    <3> QED BY <1>5, <3>1, <3>2, <3>3
  <2> QED BY <2>3
<1>7. q[Len(t)] = p[Len(whole)] + size
  <2>1. Len(t) \in 1 .. Len(t) /\ Len(t) - 1 = Len(whole) /\ Len(whole) \in 0 .. Len(whole)
    BY <1>0, <1>2
  <2>2. q[Len(t)] = q[Len(whole)] + t[Len(t)]
    BY <1>5, <2>1
  <2> QED BY <1>2, <1>6, <2>1, <2>2
<1>8. ASSUME NEW k \in 0 .. Len(whole)
      PROVE  Newest(t, k + 1) = Newest(whole, k) + size
  <2>1. /\ Len(t) - (k + 1) = Len(whole) - k /\ Len(whole) - k \in 0 .. Len(whole)
        /\ Len(whole) \in 0 .. Len(whole)
    BY <1>0, <1>2
  <2>2. q[Len(t) - (k + 1)] = p[Len(whole) - k]
    BY <1>6, <2>1
  <2>3. p[Len(whole)] \in Nat /\ p[Len(whole) - k] \in Nat
    BY <1>5, <2>1
  <2>4. /\ Newest(t, k + 1) = q[Len(t)] - q[Len(t) - (k + 1)]
        /\ Newest(whole, k) = p[Len(whole)] - p[Len(whole) - k]
    BY <1>3, <1>4 DEF Newest
  <2> QED BY <1>7, <2>2, <2>3, <2>4
<1> QED BY <1>1, <1>8

\* NameLog::push keeps the window: what the loop evicts is what the bound does not admit.
LEMMA PushKeepsWindow ==
  ASSUME NEW retention \in RetentionBounds, NEW log \in LogRecords, NEW whole \in Seq(Nat),
         NEW size \in Nat, Window(retention, log, whole)
  PROVE  /\ Push(retention, log, size) \in LogRecords
         /\ Len(Push(retention, log, size).entries) >= 1
         /\ Window(retention, Push(retention, log, size), Append(whole, size))
<1>1. PICK N \in Nat, n \in Nat : N = Len(whole) /\ n = Len(log.entries)
  BY DEF LogRecords
<1>2. PICK t \in Seq(Nat) :
        /\ t = Append(whole, size)
        /\ Len(t) = N + 1 /\ t[N + 1] = size /\ \A j \in 1 .. N : t[j] = whole[j]
  <2>1. /\ Append(whole, size) \in Seq(Nat) /\ Len(Append(whole, size)) = Len(whole) + 1
        /\ \A j \in 1 .. Len(whole) : Append(whole, size)[j] = whole[j]
        /\ Append(whole, size)[Len(whole) + 1] = size
    BY AppendProperties
  <2> QED BY ONLY <1>1, <2>1
<1>3. PICK g \in Seq(Nat) :
        /\ g = Append(log.entries, size)
        /\ Len(g) = n + 1 /\ g[n + 1] = size /\ \A j \in 1 .. n : g[j] = log.entries[j]
  <2>1. log.entries \in Seq(Nat)
    BY DEF LogRecords
  <2>2. /\ Append(log.entries, size) \in Seq(Nat)
        /\ Len(Append(log.entries, size)) = Len(log.entries) + 1
        /\ \A j \in 1 .. Len(log.entries) : Append(log.entries, size)[j] = log.entries[j]
        /\ Append(log.entries, size)[Len(log.entries) + 1] = size
    BY <2>1, AppendProperties
  <2> QED BY ONLY <1>1, <2>2
<1>4. PICK a : a = Appended(log, size)
  OBVIOUS
<1>5. log.first_seq \in Nat /\ log.bytes \in Nat /\ log.entries \in Seq(Nat)
  BY DEF LogRecords
<1>6. a.entries = g /\ a.first_seq = log.first_seq /\ a.bytes = log.bytes + size
  BY <1>3, <1>4 DEF Appended
<1>7. /\ log.entries = SuffixOf(whole, n) /\ log.first_seq + n = N
      /\ log.bytes = Bytes(SuffixOf(whole, n))
  BY <1>1 DEF Window, NextSeq
<1>8. n \in 0 .. N /\ N - n \in Nat
  BY <1>1, <1>5, <1>7
<1>9. Len(t) = N + 1 /\ Len(g) = n + 1
  BY <1>2, <1>3
<1>10. /\ \A j \in 1 .. n : log.entries[j] = whole[(N - n) + j]
       /\ log.bytes = Newest(whole, n)
  <2>1. n \in 0 .. Len(whole)
    BY <1>1, <1>8
  <2>2. /\ \A j \in 1 .. n : SuffixOf(whole, n)[j] = whole[(Len(whole) - n) + j]
        /\ Bytes(SuffixOf(whole, n)) = Newest(whole, n)
    BY <2>1, SuffixFacts DEF Newest
  <2> QED BY <1>1, <1>7, <2>2
<1>11. \A k \in n + 1 .. N : ~Admits(retention, k, Newest(whole, k))
  <2>1. \A k \in n + 1 .. N : ~Admits(retention, k, Bytes(SuffixOf(whole, k)))
    BY <1>1 DEF Window
  <2>2. \A k \in n + 1 .. N : Bytes(SuffixOf(whole, k)) = Newest(whole, k)
    <3>1. \A k \in n + 1 .. N : k \in 0 .. Len(whole)
      BY <1>1
    <3> QED BY <1>1, <3>1, SuffixFacts DEF Newest
  <2> QED BY <2>1, <2>2
<1>12. \A k \in 0 .. N : Newest(t, k + 1) = Newest(whole, k) + size
  BY <1>1, <1>2, NewestAppend
<1>13. /\ \A k \in 0 .. N : Newest(whole, k) \in Nat
       /\ \A k \in 0 .. N + 1 : Newest(t, k) \in Nat
  <2>1. \A k \in 0 .. N : Newest(whole, k) \in Nat
    BY <1>1, NewestFacts
  <2>2. \A k \in 0 .. N + 1 : Newest(t, k) \in Nat
    BY <1>9, NewestFacts
  <2> QED BY <2>1, <2>2
<1>14. ASSUME NEW j \in 1 .. n + 1 PROVE g[j] = t[(N - n) + j]
  <2>1. CASE j = n + 1
    <3>1. g[j] = size
      BY <1>3, <2>1
    <3>2. (N - n) + j = N + 1
      BY <2>1
    <3>3. t[N + 1] = size
      BY <1>2
    <3> QED BY <3>1, <3>2, <3>3
  <2>2. CASE j # n + 1
    <3>1. j \in 1 .. n /\ (N - n) + j \in 1 .. N
      BY <1>8, <2>2
    <3>2. g[j] = log.entries[j]
      BY <1>3, <3>1
    <3>3. t[(N - n) + j] = whole[(N - n) + j]
      BY <1>2, <3>1
    <3> QED BY <1>10, <3>1, <3>2, <3>3
  <2> QED BY <2>1, <2>2
<1>15. ASSUME NEW k \in 0 .. n
       PROVE  a.bytes - PrefixBytes(g)[k] = Newest(t, (n + 1) - k)
  <2>1. PICK p : p = PrefixBytes(t)
    OBVIOUS
  <2>2. \A j \in 0 .. N + 1 : p[j] \in Nat
    BY <1>9, <2>1, PrefixFacts
  <2>3. \A j \in 0 .. n + 1 : PrefixBytes(g)[j] = p[(N - n) + j] - p[N - n]
    <3>1. PICK c \in Nat : c = N - n
      BY <1>8
    <3>2. c + Len(g) <= Len(t) /\ \A j \in 1 .. Len(g) : g[j] = t[c + j]
      BY <1>9, <1>14, <3>1
    <3>3. \A j \in 0 .. Len(g) : PrefixBytes(g)[j] = PrefixBytes(t)[c + j] - PrefixBytes(t)[c]
      BY <3>2, RunBytes
    <3> QED BY <1>9, <2>1, <3>1, <3>3
  <2>4. a.bytes = p[N + 1] - p[N - n]
    <3>1. a.bytes = Newest(t, n + 1)
      BY <1>6, <1>8, <1>10, <1>12
    <3>2. (N + 1) - (n + 1) = N - n
      OBVIOUS
    <3> QED BY <1>9, <2>1, <3>1, <3>2 DEF Newest
  <2>5. /\ k \in 0 .. n + 1 /\ (N + 1) - ((n + 1) - k) = (N - n) + k
        /\ N + 1 \in 0 .. N + 1 /\ N - n \in 0 .. N + 1 /\ (N - n) + k \in 0 .. N + 1
    BY <1>8
  <2>6. Newest(t, (n + 1) - k) = p[N + 1] - p[(N - n) + k]
    BY <1>9, <2>1, <2>5 DEF Newest
  <2>7. PrefixBytes(g)[k] = p[(N - n) + k] - p[N - n]
    BY <2>3, <2>5
  <2>8. p[N + 1] \in Nat /\ p[N - n] \in Nat /\ p[(N - n) + k] \in Nat
    BY <2>2, <2>5
  <2> QED BY <2>4, <2>6, <2>7, <2>8
<1>16. ASSUME NEW k \in 0 .. n
       PROVE  StopsAt(retention, a, k)
                <=> \/ (n + 1) - k <= 1
                    \/ Admits(retention, (n + 1) - k, Newest(t, (n + 1) - k))
  BY <1>6, <1>9, <1>15 DEF StopsAt
<1>17. PICK k : k = Evictions(retention, a)
  OBVIOUS
<1>18. /\ k \in 0 .. n /\ StopsAt(retention, a, k)
       /\ \A j \in 0 .. k - 1 : ~StopsAt(retention, a, j)
  <2>1. a.entries \in Seq(Nat) /\ Len(a.entries) = n + 1 /\ Len(a.entries) >= 1
    BY <1>6, <1>9
  <2>2. /\ k \in 0 .. Len(a.entries) - 1 /\ StopsAt(retention, a, k)
        /\ \A j \in 0 .. k - 1 : ~StopsAt(retention, a, j)
    BY <1>17, <2>1, EvictionsFacts
  <2>3. Len(a.entries) - 1 = n
    BY <2>1
  <2> QED BY <2>2, <2>3
<1>19. PICK r : r = Push(retention, log, size)
  OBVIOUS
<1>20. PICK kept \in Nat : kept = (n + 1) - k
  BY <1>18
<1>21. kept \in 1 .. n + 1 /\ kept \in 0 .. N + 1 /\ kept \in 0 .. Len(t)
  BY <1>8, <1>9, <1>18, <1>20
<1>22. /\ r.entries = SubSeq(g, k + 1, n + 1)
       /\ r.first_seq = log.first_seq + k
       /\ r.bytes = Newest(t, kept)
  <2>1. r = Evict(retention, a)
    BY <1>4, <1>19 DEF Push
  <2>2. /\ r.entries = SubSeq(a.entries, k + 1, Len(a.entries))
        /\ r.first_seq = a.first_seq + k
        /\ r.bytes = a.bytes - PrefixBytes(a.entries)[k]
    BY <1>17, <2>1 DEF Evict
  <2> QED BY <1>6, <1>9, <1>15, <1>18, <1>20, <2>2
<1>23. r.entries = SuffixOf(t, kept)
  <2>1. SuffixOf(t, kept) = SubSeq(t, ((N + 1) - kept) + 1, N + 1)
    BY <1>9 DEF SuffixOf
  <2>2. /\ SuffixOf(t, kept) \in Seq(Nat) /\ Len(SuffixOf(t, kept)) = kept
        /\ \A j \in 1 .. kept : SuffixOf(t, kept)[j] = t[((N + 1) - kept) + j]
    <3>1. /\ SuffixOf(t, kept) \in Seq(Nat) /\ Len(SuffixOf(t, kept)) = kept
          /\ \A j \in 1 .. kept : SuffixOf(t, kept)[j] = t[(Len(t) - kept) + j]
      BY <1>21, SuffixFacts
    <3> QED BY <1>9, <3>1
  <2>3. /\ SubSeq(g, k + 1, n + 1) \in Seq(Nat) /\ Len(SubSeq(g, k + 1, n + 1)) = kept
        /\ \A j \in 1 .. kept : SubSeq(g, k + 1, n + 1)[j] = g[k + j]
    <3>1. k + 1 \in Int /\ n + 1 \in Int /\ \A i \in k + 1 .. n + 1 : g[i] \in Nat
      <4>1. k \in Nat /\ k + 1 \in Int /\ n + 1 \in Int
        BY <1>18
      <4>2. \A i \in k + 1 .. n + 1 : i \in 1 .. Len(g)
        BY <1>9, <4>1
      <4> QED BY <4>1, <4>2
    <3>2. /\ SubSeq(g, k + 1, n + 1) \in Seq(Nat)
          /\ Len(SubSeq(g, k + 1, n + 1))
               = IF k + 1 <= n + 1 THEN (n + 1) - (k + 1) + 1 ELSE 0
          /\ \A i \in 1 .. (n + 1) - (k + 1) + 1 :
               SubSeq(g, k + 1, n + 1)[i] = g[(k + 1) + i - 1]
      BY <3>1, SubSeqProperties
    <3>3. (n + 1) - (k + 1) + 1 = kept /\ k + 1 <= n + 1
      BY <1>18, <1>20
    <3>4. \A i \in 1 .. kept : (k + 1) + i - 1 = k + i
      BY <1>18
    <3> QED BY <3>2, <3>3, <3>4
  <2>4. ASSUME NEW j \in 1 .. kept PROVE g[k + j] = t[((N + 1) - kept) + j]
    <3>1. k + j \in 1 .. n + 1 /\ (N - n) + (k + j) = ((N + 1) - kept) + j
      BY <1>18, <1>20, <1>21
    <3> QED BY <1>14, <3>1
  <2>5. PICK u \in Seq(Nat), v \in Seq(Nat) :
          u = SubSeq(g, k + 1, n + 1) /\ v = SuffixOf(t, kept)
    BY <2>2, <2>3
  <2>6. Len(u) = Len(v) /\ \A j \in 1 .. Len(u) : u[j] = v[j]
    BY <2>2, <2>3, <2>4, <2>5
  <2>7. u = v
    BY <2>6, SeqEqual
  <2> QED BY <1>22, <2>5, <2>7
<1>24. /\ r.entries \in Seq(Nat) /\ Len(r.entries) = kept
       /\ Bytes(r.entries) = Newest(t, kept)
  BY <1>21, <1>23, SuffixFacts DEF Newest
<1>25. r.first_seq \in Nat /\ r.first_seq + kept = N + 1
  BY SMTT(30), <1>5, <1>7, <1>18, <1>20, <1>22
<1>26. r \in LogRecords
  <2>1. r.bytes \in Nat
    BY <1>13, <1>21, <1>22
  <2>2. r = [entries |-> r.entries, first_seq |-> r.first_seq, bytes |-> r.bytes]
    BY <1>19 DEF Push, Evict
  <2> QED BY <1>24, <1>25, <2>1, <2>2 DEF LogRecords
<1>27. kept > 1 => Admits(retention, kept, Newest(t, kept))
  BY <1>16, <1>18, <1>20
<1>28. ASSUME NEW j \in kept + 1 .. N + 1 PROVE ~Admits(retention, j, Newest(t, j))
  <2>1. CASE j <= n + 1
    <3>1. (n + 1) - j \in 0 .. n /\ (n + 1) - j \in 0 .. k - 1 /\ (n + 1) - ((n + 1) - j) = j
      BY <1>18, <1>20, <2>1
    <3>2. ~StopsAt(retention, a, (n + 1) - j)
      BY <1>18, <3>1
    <3> QED BY <1>16, <3>1, <3>2
  <2>2. CASE ~(j <= n + 1)
    <3>1. j - 1 \in n + 1 .. N /\ j - 1 \in 0 .. N /\ (j - 1) + 1 = j /\ j - 1 \in Nat /\ j \in Nat
          /\ j \in 0 .. N + 1 /\ j - 1 <= j
      BY <1>20, <2>2
    <3>2. ~Admits(retention, j - 1, Newest(whole, j - 1))
      BY <1>11, <3>1
    <3>3. Newest(t, j) = Newest(whole, j - 1) + size
      BY <1>12, <3>1
    <3>4. Newest(whole, j - 1) \in Nat /\ Newest(t, j) \in Nat
      BY <1>13, <3>1
    <3>5. Newest(whole, j - 1) <= Newest(t, j)
      BY <3>3, <3>4
    <3> QED BY <3>1, <3>2, <3>4, <3>5, AdmitsLess
  <2> QED BY <2>1, <2>2
<1>29. \A j \in 0 .. N + 1 : Bytes(SuffixOf(t, j)) = Newest(t, j)
  BY <1>9, SuffixFacts DEF Newest
<1>30. Window(retention, r, t)
  <2>1. r.bytes = Bytes(r.entries)
    BY <1>22, <1>24
  <2>2. NextSeq(r) = Len(t)
    BY <1>9, <1>24, <1>25 DEF NextSeq
  <2>3. kept > 1 => Admits(retention, kept, Bytes(SuffixOf(t, kept)))
    BY <1>21, <1>27, <1>29
  <2>4. \A j \in kept + 1 .. Len(t) : ~Admits(retention, j, Bytes(SuffixOf(t, j)))
    <3>1. \A j \in kept + 1 .. N + 1 : j \in 0 .. N + 1
      BY <1>20
    <3> QED BY <1>9, <1>28, <1>29, <3>1
  <2> QED BY <1>23, <1>24, <2>1, <2>2, <2>3, <2>4 DEF Window
<1>31. Len(r.entries) >= 1
  BY <1>21, <1>24
<1> QED BY <1>2, <1>19, <1>26, <1>30, <1>31

\* Every log is the longest end of its history that fits.
WindowsInv ==
  /\ DOMAIN past = DOMAIN logs
  /\ \A n \in DOMAIN logs : /\ logs[n] \in LogRecords /\ past[n] \in Seq(Nat)
                            /\ Len(logs[n].entries) >= 1
                            /\ Window(conf.retention, logs[n], past[n])

\* A name nothing was recorded under.
LEMMA NoWindow ==
  ASSUME NEW retention
  PROVE  EmptyLog \in LogRecords /\ << >> \in Seq(Nat) /\ Window(retention, EmptyLog, << >>)
<1>1. << >> \in Seq(Nat) /\ Len(<< >>) = 0 /\ 0 \in 0 .. Len(<< >>)
  OBVIOUS
<1>2. /\ EmptyLog.entries = << >> /\ EmptyLog.first_seq = 0 /\ EmptyLog.bytes = 0
      /\ EmptyLog \in LogRecords
  BY <1>1 DEF EmptyLog, LogRecords
<1>3. SuffixOf(<< >>, 0) = << >>
  <2>1. SuffixOf(<< >>, 0) \in Seq(Nat) /\ Len(SuffixOf(<< >>, 0)) = 0
    BY <1>1, SuffixFacts
  <2> QED BY <2>1
<1>4. PrefixBytes(<< >>)[0] = 0
  BY <1>1, PrefixFacts
<1>5. Bytes(<< >>) = 0 /\ NextSeq(EmptyLog) = 0
  BY <1>1, <1>2, <1>4 DEF Bytes, NextSeq
<1>6. \A k \in 0 + 1 .. 0 : FALSE
  OBVIOUS
<1> QED BY <1>1, <1>2, <1>3, <1>5, <1>6 DEF Window

\* A fan-out keeps the windows: it pushes to the logs of what it reaches.
LEMMA FanoutWindows ==
  ASSUME Typed, WindowsInv, conf' = conf, NEW name, NEW msg, msg.size \in Nat, Fanout(name, msg)
  PROVE  WindowsInv'
<1>1. CASE ~conf.recording
  <2>1. logs' = logs /\ past' = past
    BY <1>1 DEF Fanout
  <2> QED BY <2>1 DEF WindowsInv
<1>2. CASE conf.recording
  <2>1. conf.retention \in RetentionBounds
    BY <1>2, ConfsAssumption DEF Typed
  <2>2. PICK log : log = IF name \in DOMAIN logs THEN logs[name] ELSE EmptyLog
    OBVIOUS
  <2>3. PICK whole : whole = IF name \in DOMAIN logs THEN past[name] ELSE << >>
    OBVIOUS
  <2>4. PICK v : v = Push(conf.retention, log, msg.size)
    OBVIOUS
  <2>5. PICK w : w = Append(whole, msg.size)
    OBVIOUS
  <2>6. logs' = Put(logs, name, v) /\ past' = Put(past, name, w)
    BY <1>2, <2>2, <2>3, <2>4, <2>5 DEF Fanout
  <2>7. log \in LogRecords /\ whole \in Seq(Nat) /\ Window(conf.retention, log, whole)
    BY <2>2, <2>3, NoWindow DEF WindowsInv
  <2>8. /\ v \in LogRecords /\ Len(v.entries) >= 1 /\ Window(conf.retention, v, w)
    BY <2>1, <2>4, <2>5, <2>7, PushKeepsWindow
  <2>9. w \in Seq(Nat)
    BY <2>5, <2>7
  <2>10. /\ DOMAIN logs' = DOMAIN logs \cup {name} /\ logs'[name] = v
         /\ \A k \in DOMAIN logs : k # name => logs'[k] = logs[k]
    BY <2>6 DEF Put
  <2>11. /\ DOMAIN past' = DOMAIN past \cup {name} /\ past'[name] = w
         /\ \A k \in DOMAIN past : k # name => past'[k] = past[k]
    BY <2>6 DEF Put
  <2>12. ASSUME NEW n \in DOMAIN logs'
         PROVE  /\ logs'[n] \in LogRecords /\ past'[n] \in Seq(Nat)
                /\ Len(logs'[n].entries) >= 1
                /\ Window(conf.retention, logs'[n], past'[n])
    <3>1. CASE n = name
      BY <2>8, <2>9, <2>10, <2>11, <3>1
    <3>2. CASE n # name
      <4>1. n \in DOMAIN logs /\ n \in DOMAIN past /\ logs'[n] = logs[n] /\ past'[n] = past[n]
        BY <2>10, <2>11, <3>2 DEF WindowsInv
      <4> QED BY <4>1 DEF WindowsInv
    <3> QED BY <3>1, <3>2
  <2>13. DOMAIN past' = DOMAIN logs'
    BY <2>10, <2>11 DEF WindowsInv
  <2>14. \A n \in DOMAIN logs' : Window(conf.retention, logs'[n], past'[n])
                                  => Window(conf.retention, logs[n], past[n])'
    BY DEF Window, NextSeq, SuffixOf, Bytes
  <2> QED BY <2>12, <2>13, <2>14 DEF WindowsInv
<1> QED BY <1>1, <1>2

\* Every step keeps the windows.
LEMMA StepWindows ==
  ASSUME Typed, WindowsInv, [Next]_vars
  PROVE  WindowsInv'
<1>1. conf' = conf
  BY ConfKept
<1>2. UNCHANGED <<logs, past>> => WindowsInv'
  BY <1>1 DEF WindowsInv
<1>3. conf.sizes \subseteq Nat
  BY ConfsAssumption DEF Typed
<1>4. ASSUME NEW name, NEW msg, msg.size \in Nat, PublishDirect(name, msg)
      PROVE  WindowsInv'
  BY <1>1, <1>2, <1>4, FanoutWindows DEF PublishDirect
<1>5. \A by, n, inbox, size : Message(by, n, inbox, size).size = size
  BY DEF Message
<1>6. ASSUME NEW s \in Subs, Reply(s) PROVE WindowsInv'
  BY <1>4, <1>5, <1>6 DEF Reply
<1>7. ASSUME NEW name \in conf.names, NEW size \in conf.sizes, PublishOnHandle(name, size)
      PROVE  WindowsInv'
  <2>1. CASE handle # 0
    BY <1>2, <1>7, <2>1 DEF PublishOnHandle, Buffer
  <2>2. CASE handle = 0
    BY <1>3, <1>4, <1>5, <1>7, <2>2 DEF PublishOnHandle
  <2> QED BY <2>1, <2>2
<1>8. ASSUME NEW t \in DOMAIN txns, CommitOne(t) PROVE WindowsInv'
  <2>1. CASE ~live
    BY <1>2, <1>8, <2>1 DEF CommitOne
  <2>2. CASE live
    <3>1. Len(txns[t].buffered) > 0 /\ Fanout(txns[t].buffered[1].name, txns[t].buffered[1].msg)
      BY <1>8, <2>2, TxnSteps
    <3>2. txns[t].buffered \in Seq(Entries)
      <4>1. txns[t] \in TxnRecords
        BY TxnSteps
      <4> QED BY <4>1 DEF TxnRecords
    <3>3. PICK e \in Entries : e = txns[t].buffered[1]
      BY <3>1, <3>2
    <3>4. e.msg \in Msgs
      BY 0 \in Nat, MessageTypes
    <3>5. e.msg.size \in Nat
      BY <1>3, <3>4 DEF Msgs
    <3> QED BY <1>1, <3>1, <3>3, <3>5, FanoutWindows
  <2> QED BY <2>1, <2>2
<1>9. ASSUME NEW r \in Asks, NEW name \in conf.names, Request(r, name) PROVE WindowsInv'
  <2>1. CASE ~live
    BY <1>2, <1>9, <2>1 DEF Request
  <2>2. CASE live
    <3>1. PICK msg : msg = Message(<<"ask", r>>, 1, asks[r].inbox, 0)
      OBVIOUS
    <3>2. Fanout(name, msg) /\ msg.size \in Nat
      BY <1>5, <1>9, <2>2, <3>1 DEF Request
    <3> QED BY <1>1, <3>2, FanoutWindows
  <2> QED BY <2>1, <2>2
<1>10. ASSUME NEW r \in Asks, Forget(r) PROVE WindowsInv'
  <2>1. PICK name : name = InboxName(asks[r].inbox)
    OBVIOUS
  <2>2. logs' = Without(logs, name) /\ past' = Without(past, name)
    BY <1>10, <2>1 DEF Forget
  <2>3. /\ DOMAIN logs' = DOMAIN logs \ {name} /\ DOMAIN past' = DOMAIN past \ {name}
        /\ \A k \in DOMAIN logs : k # name => logs'[k] = logs[k]
        /\ \A k \in DOMAIN past : k # name => past'[k] = past[k]
    BY <2>2, WithoutFacts
  <2>4. DOMAIN past = DOMAIN logs
    BY DEF WindowsInv
  <2>5. \A n \in DOMAIN logs' : n \in DOMAIN logs /\ logs'[n] = logs[n] /\ past'[n] = past[n]
    BY <2>3, <2>4
  <2>6. \A n \in DOMAIN logs' : /\ logs[n] \in LogRecords /\ past[n] \in Seq(Nat)
                                /\ Len(logs[n].entries) >= 1
                                /\ Window(conf.retention, logs[n], past[n])
    BY <2>5 DEF WindowsInv
  <2>7. \A n \in DOMAIN logs' : Window(conf.retention, logs[n], past[n])
                                 => Window(conf.retention, logs[n], past[n])'
    BY <1>1, <2>5 DEF Window, NextSeq, SuffixOf, Bytes
  <2> QED BY <2>3, <2>4, <2>5, <2>6, <2>7 DEF WindowsInv
<1>11. ASSUME NEW t \in DOMAIN txns, NEW name \in conf.names, NEW size \in conf.sizes,
              PublishOwned(t, name, size)
       PROVE  WindowsInv'
  BY <1>2, <1>11 DEF PublishOwned, Buffer
<1>12. ASSUME NEW s \in Subs, Subscribe(s) \/ Unsubscribe(s) PROVE WindowsInv'
  BY <1>2, <1>12 DEF Subscribe, Unsubscribe
<1>13. ASSUME NEW t \in DOMAIN txns, Commit(t) \/ Committed(t) \/ Abort(t) PROVE WindowsInv'
  BY <1>2, <1>13 DEF Commit, Committed, Abort
<1>14. ASSUME NEW r \in Asks, Register(r) \/ Awaited(r) \/ Unregister(r) \/ Cancel(r)
       PROVE  WindowsInv'
  BY <1>2, <1>14 DEF Register, Awaited, Unregister, Cancel
<1>15. CASE \/ SetRouting \/ Shutdown \/ Connect \/ BeginTransaction \/ OpenTransaction
            \/ UNCHANGED vars
  BY <1>2, <1>15 DEF SetRouting, Shutdown, Connect, BeginTransaction, OpenTransaction, Open, vars
<1> QED
  BY <1>6, <1>7, <1>8, <1>9, <1>10, <1>11, <1>12, <1>13, <1>14, <1>15 DEF Next

\* NameLog::push: a log is, whatever the bound and the sizes published under its name, the newest
\* messages at the positions they were published at, and as many of them as the bound admits.
THEOREM LogIsTheLongestWindow ==
  ASSUME InboxesDiffer
  PROVE  Spec => []RetainedWindow
<1>1. Init => WindowsInv
  <2>1. DOMAIN << >> = {}
    OBVIOUS
  <2> QED BY <2>1 DEF Init, WindowsInv
<1>2. Inv /\ WindowsInv /\ [Next]_vars => WindowsInv'
  BY StepWindows DEF Inv
<1>3. WindowsInv => RetainedWindow
  BY DEF WindowsInv, RetainedWindow, Window, WithinBound
<1> QED BY <1>1, <1>2, <1>3, Invariant, PTL DEF Spec
=============================================================================
