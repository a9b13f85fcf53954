---------------------------- MODULE NamePatterns ----------------------------
(***************************************************************************)
(* The subscription patterns of the in-memory broker and the rule that     *)
(* picks between them (crates/memory/src/pattern.rs).  A name and a        *)
(* pattern are the sequence of their tokens, what `split('.')` yields: ""  *)
(* is the empty token of a leading, trailing or doubled dot, "*" and ">"   *)
(* are the wildcards, every other token is a literal.                      *)
(*                                                                         *)
(* A group is the record of the subscriptions opened under one pattern     *)
(* text: text, and the sequence of their senders.                          *)
(***************************************************************************)
EXTENDS Integers, Sequences, FiniteSets

Routings == {"EveryMatch", "MostSpecific"}

\* The texts of names and patterns: split('.') yields at least one token.
Texts == Seq(STRING) \ {<< >>}

\* has_wildcard
HasWildcard(name) == \E i \in DOMAIN name : name[i] \in {"*", ">"}

\* Pattern::parse: no empty token, `>` last only, at least one wildcard.
Parses(text) ==
  /\ \A i \in DOMAIN text : text[i] # "" /\ (text[i] = ">" => i = Len(text))
  /\ HasWildcard(text)

TokenMatches(token, part) == IF token = "*" THEN part # "" ELSE part = token

\* Pattern::matches, of a text that parses.
Matches(text, name) ==
  LET last == Len(text)
      tail == text[last] = ">"
      own  == IF tail THEN last - 1 ELSE last    \* the tokens before `>`
  IN  /\ IF tail THEN Len(name) >= last ELSE Len(name) = last
      /\ \A i \in 1 .. own : TokenMatches(text[i], name[i])
      /\ \A i \in own + 1 .. Len(name) : name[i] # ""

\* Mutant: the two wildcards rank the same.
RankFlat(token) == IF token \in {"*", ">"} THEN 0 ELSE 2

\* Token::rank
Rank(token) == CASE token = ">" -> 0 [] token = "*" -> 1 [] OTHER -> 2

\* Pattern::specificity is Greater: the ranks compared lexicographically, the longer of two
\* texts greater when the other is a prefix of it.
MoreSpecific(left, right) ==
  \E i \in 1 .. Len(left) :
    /\ \A j \in 1 .. i - 1 : j <= Len(right) /\ Rank(left[j]) = Rank(right[j])
    /\ i > Len(right) \/ Rank(left[i]) > Rank(right[i])

\* Iterator::max_by over texts, at the indices given: the last of the greatest.
MaxBy(texts, indices) ==
  CHOOSE i \in indices :
    \A j \in indices \ {i} : IF j < i THEN ~MoreSpecific(texts[j], texts[i])
                                      ELSE MoreSpecific(texts[i], texts[j])

\* Mutant: a group whose subscriptions have all gone still counts as a match.
ReachShadowed(routing, texts, alive, name, exact) ==
  LET matching == {i \in DOMAIN texts : Matches(texts[i], name)}
  IN  CASE routing = "EveryMatch"            -> matching
        [] routing = "MostSpecific" /\ exact -> {}
        [] OTHER -> IF matching = {} THEN {} ELSE {MaxBy(texts, matching)}

(***************************************************************************)
(* Routing::reach: the indices of the groups a publish to name reaches,    *)
(* given which groups are live and whether an exact name took it.          *)
(***************************************************************************)
Reach(routing, texts, alive, name, exact) ==
  LET matching == {i \in DOMAIN texts : Matches(texts[i], name)}
      reading  == matching \cap alive
  IN  CASE routing = "EveryMatch"            -> matching
        [] routing = "MostSpecific" /\ exact -> {}
        [] OTHER -> IF reading = {} THEN {} ELSE {MaxBy(texts, reading)}

(***************************************************************************)
(* Routing::routes, the rule the test harness asks: the positions of the   *)
(* subscriptions a publish to name reaches, from their names alone.        *)
(***************************************************************************)
Routes(routing, name, subscriptions) ==
  LET exact == {i \in DOMAIN subscriptions :
                  ~HasWildcard(subscriptions[i]) /\ subscriptions[i] = name}
      patterns == {i \in DOMAIN subscriptions :
                     /\ HasWildcard(subscriptions[i]) /\ Parses(subscriptions[i])
                     /\ Matches(subscriptions[i], name)}
  IN  CASE routing = "EveryMatch" -> exact \cup patterns
        [] routing = "MostSpecific" /\ exact # {} -> exact
        [] routing = "MostSpecific" /\ exact = {} /\ patterns = {} -> {}
        [] OTHER -> LET best == subscriptions[MaxBy(subscriptions, patterns)]
                    IN  {i \in patterns : subscriptions[i] = best}
=============================================================================
