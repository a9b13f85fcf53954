------------------------------- MODULE MCBus -------------------------------
(***************************************************************************)
(* The instances of the bus: every retention bound on one name; three      *)
(* subscriptions over names and patterns that overlap; transactions, and   *)
(* requests, across a shutdown and a revival.                              *)
(***************************************************************************)
EXTENDS MemoryBus

NoLimit == [kind |-> "Messages", messages |-> 9, bytes |-> 9]
Quiet ==
  [routings |-> {"EveryMatch"}, targets |-> {}, names |-> {<<"a">>}, sizes |-> {1},
   recording |-> FALSE, retention |-> NoLimit,
   subs |-> 0, asks |-> 0, txns |-> 0, publishes |-> 0, revivals |-> 0]

Name(text) == [kind |-> "name", text |-> text]
Pattern(text) == [kind |-> "pattern", text |-> text]

Logged ==
  {[Quiet EXCEPT !.recording = TRUE, !.retention = bound, !.sizes = 0 .. 3, !.publishes = 4] :
     bound \in [kind : {"Messages", "Bytes", "MessagesAndBytes"}, messages : 1 .. 3, bytes : 1 .. 3]}

Routed ==
  {[Quiet EXCEPT !.routings = Routings, !.subs = 3, !.revivals = 1,
                 !.names = {<<"a">>, <<"a", "b">>, <<"a", "">>, <<"a", "*">>, <<"a", "b", "c">>},
                 !.targets = {Name(<<"a", "b">>), Name(<<"a", "*">>), Pattern(<<"a", "b">>),
                              Pattern(<<"a", ">", "c">>), Pattern(<<"a", "*">>), Pattern(<<"a", ">">>),
                              Pattern(<<"*", "b">>), Pattern(<<"*", "b", "c">>), Pattern(<<"a", "*", ">">>), Pattern(<<">">>)}]}

Transacted ==
  {[Quiet EXCEPT !.subs = 1, !.txns = 2, !.publishes = 4, !.revivals = 1, !.recording = TRUE,
                 !.targets = {Name(<<"a">>)}]}

\* Two requests, answered late and twice, by a responder or by a pattern that reads the inboxes too.
Requested ==
  {[Quiet EXCEPT !.routings = {rule}, !.subs = 1, !.asks = 2, !.publishes = 3, !.sizes = {},
                 !.recording = TRUE, !.targets = {Name(<<"a">>), Pattern(<<">">>)}] :
     rule \in Routings}

\* Two requests across a shutdown and a revival.
Revived ==
  {[Quiet EXCEPT !.subs = 2, !.asks = 2, !.publishes = 2, !.sizes = {}, !.revivals = 1,
                 !.recording = TRUE, !.targets = {Name(<<"a">>)}]}

Everything == Logged \cup Routed \cup Transacted \cup Requested \cup Revived
=============================================================================
