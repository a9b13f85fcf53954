----------------------------- MODULE MemoryBus -----------------------------
(***************************************************************************)
(* The bus every handle of an in-memory broker shares (crates/memory/src): *)
(* the registry of exact names and pattern groups, the fan-out of a        *)
(* publish, the publish logs, transactions, and request / reply over       *)
(* single-use inboxes.  A step is what one thread does under one hold of   *)
(* the bus lock, so steps of different calls interleave: a commit fans its *)
(* messages out one hold at a time, and a request registers, publishes,    *)
(* waits, unregisters and forgets in five.                                 *)
(*                                                                         *)
(* A conf is what one instance is about: which subscriptions may open      *)
(* (targets), which names and sizes are published, whether the broker      *)
(* records and under which bound, and how many publishes, transactions,    *)
(* requests and revivals it makes.  What the subscriber does with a        *)
(* delivery is MemorySubscription's subject; here it is only received.     *)
(***************************************************************************)
EXTENDS PublishLog, NamePatterns, Functions, TLC

CONSTANT Confs

\* Names and patterns are texts, and the names an application uses are none of the inboxes'; the
\* limits of a retention bound are not zero.
ASSUME ConfsAssumption ==
  \A c \in Confs :
    /\ c.subs \in Nat /\ c.asks \in Nat
    /\ c.sizes \subseteq Nat
    /\ c.recording => c.retention \in RetentionBounds
    /\ c.routings \subseteq Routings
    /\ \A name \in c.names : name \in Texts /\ name[1] # "_inbox"
    /\ \A target \in c.targets :
         /\ target.kind \in {"name", "pattern"} /\ target.text \in Texts
         /\ target.kind = "name" => target.text[1] # "_inbox"

VARIABLES
  conf,
  live,        \* Bus::Live, or Bus::ShutDown
  routing,     \* the broker's rule, which outlives a shutdown
  names,       \* Registry::names: name -> senders, in registration order
  groups,      \* Registry::patterns
  sub,         \* the subscriptions: what each asked for and in which life of the bus (epoch),
               \* and whether its receiver is there
  got,         \* receiver -> what was sent to it
  logs,        \* LogState::Recording: name -> NameLog
  past,        \* history: name -> every size recorded since the log of the name began
  txns,        \* the transactions, in the order they were opened
  handle,      \* MemoryPublisher::txn: the transaction open on the handle, 0 for none
  asks,        \* the calls of MemoryRequester::request
  inbox_seq,
  sent,        \* history: transaction -> its messages that were fanned out, in order
  published,   \* publishes made, refused ones too
  revivals     \* times a shut-down bus was connected again

vars == <<conf, live, routing, names, groups, sub, got, logs, past, txns, handle, asks,
          inbox_seq, sent, published, revivals>>

Subs == 1 .. conf.subs
Asks == 1 .. conf.asks
Receivers == {<<"sub", s>> : s \in Subs} \cup {<<"ask", r>> : r \in Asks}

\* A message: whose it is, which of theirs, its reply-to inbox (-1 for none) and its size.
Message(by, n, inbox, size) == [by |-> by, n |-> n, inbox |-> inbox, size |-> size]

\* inbox_name
InboxName(id) == <<"_inbox", ToString(id)>>

Init ==
  /\ conf \in Confs
  /\ live = TRUE
  /\ routing \in conf.routings
  /\ names = << >>
  /\ groups = << >>
  /\ sub = [s \in Subs |-> [state |-> "idle", text |-> << >>, epoch |-> 0]]
  /\ got = [r \in Receivers |-> << >>]
  /\ logs = << >>
  /\ past = << >>
  /\ txns = << >>
  /\ handle = 0
  /\ asks = [r \in Asks |-> [state |-> "idle", inbox |-> 0, outcome |-> "none",
                             reply |-> << >>, late |-> FALSE]]
  /\ inbox_seq = 0
  /\ sent = << >>
  /\ published = 0
  /\ revivals = 0

(***************************************************************************)
(* The fan-out                                                             *)
(***************************************************************************)
\* Sender::is_closed is false: the receiver has not been dropped.
Receiving(r) ==
  IF r[1] = "sub" THEN sub[r[2]].state = "open"
                  ELSE asks[r[2]].state \in {"registered", "waiting", "leaving", "forgetting"}

\* PatternGroup::is_live
LiveGroups == {g \in DOMAIN groups : \E r \in Range(groups[g].senders) : Receiving(r)}

\* The senders registered under the exact name.
Exact(name) == IF name \in DOMAIN names THEN Range(names[name]) ELSE {}

\* Which groups the fan-out picks (fanout_with_patterns).
Picked(name) ==
  Reach(routing, [g \in DOMAIN groups |-> groups[g].text], LiveGroups, name,
        \E r \in Exact(name) : Receiving(r))

\* The receivers a publish to name is enqueued at: a send to a dropped one fails.
Reached(name) ==
  {r \in Exact(name) \cup UNION {Range(groups[g].senders) : g \in Picked(name)} : Receiving(r)}

Put(f, key, value) == [k \in DOMAIN f \cup {key} |-> IF k = key THEN value ELSE f[k]]
Without(f, key) == Restrict(f, DOMAIN f \ {key})

\* MemoryState::fanout_unsent on a live bus: one log append and the sends, under both locks.
Fanout(name, msg) ==
  /\ got' = [r \in Receivers |-> IF r \in Reached(name) THEN Append(got[r], msg) ELSE got[r]]
  /\ sent' = IF msg.by[1] = "txn"
               THEN [sent EXCEPT ![msg.by[2]] = Append(@, [name |-> name, msg |-> msg])]
               ELSE sent
  /\ IF conf.recording
       THEN LET known == name \in DOMAIN logs
            IN  /\ logs' = Put(logs, name,
                               Push(conf.retention, IF known THEN logs[name] ELSE EmptyLog, msg.size))
                /\ past' = Put(past, name, Append(IF known THEN past[name] ELSE << >>, msg.size))
       ELSE UNCHANGED <<logs, past>>

\* MemoryPublisher::publish with no transaction open: refused by a shut-down bus.
PublishDirect(name, msg) ==
  /\ published < conf.publishes
  /\ published' = published + 1
  /\ IF live THEN Fanout(name, msg) ELSE UNCHANGED <<got, sent, logs, past>>
  /\ UNCHANGED <<conf, live, routing, names, groups, sub, inbox_seq, revivals>>

(***************************************************************************)
(* The registry                                                            *)
(***************************************************************************)
Refuse(s, text) ==
  /\ sub' = [sub EXCEPT ![s] = [state |-> "refused", text |-> text, epoch |-> revivals]]
  /\ UNCHANGED <<names, groups>>

\* ConnectedMemoryBroker::subscribe: a wildcard in the name, or a shut-down bus, refuses.
SubscribeName(s, text) ==
  IF HasWildcard(text) \/ ~live
    THEN Refuse(s, text)
    ELSE /\ names' = Put(names, text,
                         Append(IF text \in DOMAIN names THEN names[text] ELSE << >>, <<"sub", s>>))
         /\ sub' = [sub EXCEPT ![s] = [state |-> "open", text |-> text, epoch |-> revivals]]
         /\ UNCHANGED groups

\* register_pattern: the group of the same text, or a new one.
Joined(text, sender) ==
  IF \E g \in DOMAIN groups : groups[g].text = text
    THEN [g \in DOMAIN groups |->
            IF groups[g].text = text THEN [groups[g] EXCEPT !.senders = Append(@, sender)]
                                     ELSE groups[g]]
    ELSE Append(groups, [text |-> text, senders |-> <<sender>>])

\* MemoryPattern::subscribe: a text that does not parse, or a shut-down bus, refuses.
SubscribePattern(s, text) ==
  IF ~Parses(text) \/ ~live
    THEN Refuse(s, text)
    ELSE /\ groups' = Joined(text, <<"sub", s>>)
         /\ sub' = [sub EXCEPT ![s] = [state |-> "open", text |-> text, epoch |-> revivals]]
         /\ UNCHANGED names

Subscribe(s) ==
  /\ sub[s].state = "idle"
  /\ \A earlier \in 1 .. s - 1 : sub[earlier].state # "idle"
  /\ \E target \in conf.targets :
       IF target.kind = "name" THEN SubscribeName(s, target.text)
                               ELSE SubscribePattern(s, target.text)
  /\ UNCHANGED <<conf, live, routing, got, logs, past, txns, handle, asks, inbox_seq, sent,
                 published, revivals>>

\* The subscriber is dropped: its sender stays in the registry, closed.
Unsubscribe(s) ==
  /\ sub[s].state = "open"
  /\ sub' = [sub EXCEPT ![s].state = "gone"]
  /\ UNCHANGED <<conf, live, routing, names, groups, got, logs, past, txns, handle, asks,
                 inbox_seq, sent, published, revivals>>

\* MemoryBroker::routing: a clone of the broker may set it on a live bus and on a shut-down one.
SetRouting ==
  /\ \E rule \in conf.routings \ {routing} : routing' = rule
  /\ UNCHANGED <<conf, live, names, groups, sub, got, logs, past, txns, handle, asks, inbox_seq,
                 sent, published, revivals>>

\* ConnectedMemoryBroker::shutdown: the registrations are dropped, the logs and the rule stay.
Shutdown ==
  /\ live /\ revivals < conf.revivals
  /\ live' = FALSE
  /\ names' = << >> /\ groups' = << >>
  /\ UNCHANGED <<conf, routing, sub, got, logs, past, txns, handle, asks, inbox_seq, sent,
                 published, revivals>>

\* MemoryBroker::connect of a sibling clone: the bus is live again, with no registration.
Connect ==
  /\ ~live
  /\ live' = TRUE
  /\ revivals' = revivals + 1
  /\ UNCHANGED <<conf, routing, names, groups, sub, got, logs, past, txns, handle, asks,
                 inbox_seq, sent, published>>

(***************************************************************************)
(* Publishes and transactions                                              *)
(***************************************************************************)
Open(kind) ==
  /\ Len(txns) < conf.txns
  /\ txns' = Append(txns, [kind |-> kind, state |-> "open", buffered |-> << >>, wrote |-> << >>])
  /\ sent' = Append(sent, << >>)
  /\ UNCHANGED <<conf, live, routing, names, groups, sub, got, logs, past, asks, inbox_seq,
                 published, revivals>>

\* begin_transaction: busy while one is open on the handle.
BeginTransaction == handle = 0 /\ Open("handle") /\ handle' = Len(txns) + 1

\* OwnedTransactions::transaction
OpenTransaction == Open("owned") /\ UNCHANGED handle

\* A publish into an open transaction never touches the bus.
Buffer(t, name, size) ==
  LET msg == [name |-> name, msg |-> Message(<<"txn", t>>, Len(txns[t].wrote) + 1, -1, size)]
  IN  /\ txns[t].state = "open" /\ published < conf.publishes
      /\ published' = published + 1
      /\ txns' = [txns EXCEPT ![t].buffered = Append(@, msg), ![t].wrote = Append(@, msg)]
      /\ UNCHANGED <<conf, live, routing, names, groups, sub, got, logs, past, handle, asks,
                     inbox_seq, sent, revivals>>

\* MemoryPublisher::publish on the handle.
PublishOnHandle(name, size) ==
  IF handle # 0
    THEN Buffer(handle, name, size)
    ELSE /\ PublishDirect(name, Message(<<"direct">>, published + 1, -1, size))
         /\ UNCHANGED <<txns, handle, asks>>

\* MemoryTransaction::publish
PublishOwned(t, name, size) == txns[t].kind = "owned" /\ Buffer(t, name, size)

\* The handle has no open transaction once its commit or abort took the buffer.
Taken(t) == IF handle = t THEN 0 ELSE handle

\* commit: the buffer is taken, and the loop over it begins.
Commit(t) ==
  /\ txns[t].state = "open"
  /\ txns' = [txns EXCEPT ![t].state = "committing"]
  /\ handle' = Taken(t)
  /\ UNCHANGED <<conf, live, routing, names, groups, sub, got, logs, past, asks, inbox_seq, sent,
                 published, revivals>>

\* Mutant: the commit goes on past a message the bus refused.
CommitOneSkips(t) ==
  /\ txns[t].state = "committing" /\ txns[t].buffered # << >>
  /\ txns' = [txns EXCEPT ![t].buffered = Tail(@)]
  /\ IF live THEN Fanout(Head(txns[t].buffered).name, Head(txns[t].buffered).msg)
             ELSE UNCHANGED <<got, sent, logs, past>>
  /\ UNCHANGED <<conf, live, routing, names, groups, sub, handle, asks, inbox_seq, published,
                 revivals>>

\* The loop of commit: one fan-out per turn, and the first refusal ends it.
CommitOne(t) ==
  LET next == Head(txns[t].buffered)
  IN  /\ txns[t].state = "committing" /\ txns[t].buffered # << >>
      /\ IF live
           THEN /\ Fanout(next.name, next.msg)
                /\ txns' = [txns EXCEPT ![t].buffered = Tail(@)]
           ELSE /\ txns' = [txns EXCEPT ![t].state = "failed", ![t].buffered = << >>]
                /\ UNCHANGED <<got, sent, logs, past>>
      /\ UNCHANGED <<conf, live, routing, names, groups, sub, handle, asks, inbox_seq, published,
                     revivals>>

\* commit returns Ok.
Committed(t) ==
  /\ txns[t].state = "committing" /\ txns[t].buffered = << >>
  /\ txns' = [txns EXCEPT ![t].state = "committed"]
  /\ UNCHANGED <<conf, live, routing, names, groups, sub, got, logs, past, handle, asks,
                 inbox_seq, sent, published, revivals>>

\* abort, and the drop of an owned transaction that was never settled.
Abort(t) ==
  /\ txns[t].state = "open"
  /\ txns' = [txns EXCEPT ![t].state = "aborted", ![t].buffered = << >>]
  /\ handle' = Taken(t)
  /\ UNCHANGED <<conf, live, routing, names, groups, sub, got, logs, past, asks, inbox_seq, sent,
                 published, revivals>>

(***************************************************************************)
(* MemoryRequester::request                                                *)
(***************************************************************************)
\* Mutant: two requests may read the same inbox number.
FetchAddLost == inbox_seq' = inbox_seq

\* inbox_seq.fetch_add
FetchAdd == inbox_seq' = inbox_seq + 1

\* The inbox is numbered and registered, before the request is published.
Register(r) ==
  /\ asks[r].state = "idle"
  /\ \A earlier \in 1 .. r - 1 : asks[earlier].state # "idle"
  /\ FetchAdd
  /\ IF live
       THEN /\ names' = Put(names, InboxName(inbox_seq),
                            Append(IF InboxName(inbox_seq) \in DOMAIN names
                                     THEN names[InboxName(inbox_seq)] ELSE << >>, <<"ask", r>>))
            /\ asks' = [asks EXCEPT ![r].state = "registered", ![r].inbox = inbox_seq]
       ELSE /\ asks' = [asks EXCEPT ![r].state = "done", ![r].inbox = inbox_seq,
                                    ![r].outcome = "ShutDown"]
            /\ UNCHANGED names
  /\ UNCHANGED <<conf, live, routing, groups, sub, got, logs, past, txns, handle, sent,
                 published, revivals>>

\* The request goes out, naming its inbox in reply-to.
Request(r, name) ==
  /\ asks[r].state = "registered"
  /\ IF live
       THEN /\ Fanout(name, Message(<<"ask", r>>, 1, asks[r].inbox, 0))
            /\ asks' = [asks EXCEPT ![r].state = "waiting"]
       ELSE /\ asks' = [asks EXCEPT ![r].state = "leaving", ![r].outcome = "ShutDown"]
            /\ UNCHANGED <<got, sent, logs, past>>
  /\ UNCHANGED <<conf, live, routing, names, groups, sub, txns, handle, inbox_seq, published,
                 revivals>>

\* timeout(wait, rx.recv()): a message in the inbox is taken before the timer is looked at.
Awaited(r) ==
  /\ asks[r].state = "waiting"
  /\ asks' = IF got[<<"ask", r>>] # << >>
               THEN [asks EXCEPT ![r].state = "leaving", ![r].outcome = "Reply",
                                 ![r].reply = Head(got[<<"ask", r>>]).by]
               ELSE [asks EXCEPT ![r].state = "leaving", ![r].outcome = "Timeout"]
  /\ UNCHANGED <<conf, live, routing, names, groups, sub, got, logs, past, txns, handle,
                 inbox_seq, sent, published, revivals>>

\* unregister, the bus: a shut-down one has nothing to drop.
Unregister(r) ==
  /\ asks[r].state = "leaving"
  /\ names' = Without(names, InboxName(asks[r].inbox))
  /\ asks' = [asks EXCEPT ![r].state = "forgetting"]
  /\ UNCHANGED <<conf, live, routing, groups, sub, got, logs, past, txns, handle, inbox_seq, sent,
                 published, revivals>>

\* Mutant: only a request that was answered forgets its inbox.
ForgetAnswered(r) ==
  /\ asks[r].state = "forgetting"
  /\ asks' = [asks EXCEPT ![r].state = "done"]
  /\ IF asks[r].outcome = "Reply"
       THEN /\ logs' = Without(logs, InboxName(asks[r].inbox))
            /\ past' = Without(past, InboxName(asks[r].inbox))
       ELSE UNCHANGED <<logs, past>>
  /\ UNCHANGED <<conf, live, routing, names, groups, sub, got, txns, handle, inbox_seq, sent,
                 published, revivals>>

\* unregister, the log: what was recorded under the inbox goes, and the call returns.
Forget(r) ==
  /\ asks[r].state = "forgetting"
  /\ asks' = [asks EXCEPT ![r].state = "done"]
  /\ logs' = Without(logs, InboxName(asks[r].inbox))
  /\ past' = Without(past, InboxName(asks[r].inbox))
  /\ UNCHANGED <<conf, live, routing, names, groups, sub, got, txns, handle, inbox_seq, sent,
                 published, revivals>>

\* The caller drops the future: nothing runs, so the registration stays.
Cancel(r) ==
  /\ asks[r].state = "waiting"
  /\ asks' = [asks EXCEPT ![r].state = "cancelled"]
  /\ UNCHANGED <<conf, live, routing, names, groups, sub, got, logs, past, txns, handle,
                 inbox_seq, sent, published, revivals>>

\* A responder publishes to the reply-to of a request it was delivered: late, or more than once.
Reply(s) ==
  \E i \in DOMAIN got[<<"sub", s>>] :
    LET msg == got[<<"sub", s>>][i]
        r   == msg.by[2]
    IN  /\ msg.inbox # -1
        /\ PublishDirect(InboxName(msg.inbox), Message(<<"reply", r>>, published + 1, -1, 1))
        /\ asks' = [asks EXCEPT ![r].late = @ \/ (asks[r].state = "done" /\ live)]
        /\ UNCHANGED <<txns, handle>>

Next ==
  \/ SetRouting \/ Shutdown \/ Connect
  \/ BeginTransaction \/ OpenTransaction
  \/ \E s \in Subs : Subscribe(s) \/ Unsubscribe(s) \/ Reply(s)
  \/ \E name \in conf.names, size \in conf.sizes :
       \/ PublishOnHandle(name, size)
       \/ \E t \in DOMAIN txns : PublishOwned(t, name, size)
  \/ \E t \in DOMAIN txns : Commit(t) \/ CommitOne(t) \/ Committed(t) \/ Abort(t)
  \/ \E r \in Asks, name \in conf.names : Request(r, name)
  \/ \E r \in Asks : Register(r) \/ Awaited(r) \/ Unregister(r) \/ Forget(r) \/ Cancel(r)

Spec == Init /\ [][Next]_vars

(***************************************************************************)
(* Properties                                                              *)
(***************************************************************************)
SuffixOf(sizes, k) == SubSeq(sizes, Len(sizes) - k + 1, Len(sizes))
Bytes(sizes) == PrefixBytes(sizes)[Len(sizes)]
WithinBound(sizes, k) == Admits(conf.retention, k, Bytes(SuffixOf(sizes, k)))

\* NameLog::push: a log holds the newest messages published under its name, at the positions
\* they were published at, and counts their bytes: a position names the same message as long as
\* it is retained.  It is the longest run of them its bound admits, or the newest alone when the
\* bound does not admit even that.
RetainedWindow ==
  \A n \in DOMAIN logs :
    LET kept == Len(logs[n].entries)
    IN  /\ logs[n].entries = SuffixOf(past[n], kept)
        /\ NextSeq(logs[n]) = Len(past[n])
        /\ logs[n].bytes = Bytes(logs[n].entries)
        /\ kept >= 1
        /\ kept > 1 => WithinBound(past[n], kept)
        /\ \A k \in kept + 1 .. Len(past[n]) : ~WithinBound(past[n], k)

\* The subscriptions a publish can reach: opened on this life of the bus and not dropped.
OpenSubs == {s \in Subs : sub[s].state = "open" /\ sub[s].epoch = revivals}

\* The fan-out over the registry (names, groups, dead senders and all) reaches exactly the
\* subscriptions that Routing::routes, the harness's rule over names alone, picks among the open
\* ones: a subscription that is gone shadows nobody, and joining a group changes nobody's reach.
FanoutMatchesRoutes ==
  live => \A name \in conf.names :
            {s \in Subs : <<"sub", s>> \in Reached(name)}
              = Routes(routing, name, [s \in OpenSubs |-> sub[s].text])

\* Routing's documented order: at the first token where two patterns differ, a literal beats `*`
\* and `*` beats `>`.
Beats(left, right) ==
  \E i \in DOMAIN left \cap DOMAIN right :
    /\ \A j \in 1 .. i - 1 : left[j] = right[j]
    /\ left[i] # right[i] /\ left[i] # ">"
    /\ left[i] = "*" => right[i] = ">"
    /\ right[i] \in {"*", ">"}

\* Under MostSpecific, of the live patterns that match a name exactly one beats all the others
\* in the documented order, and Routing::reach picks it.
OneWinner ==
  routing = "MostSpecific" =>
    \A name \in conf.names :
      LET matching == {g \in LiveGroups : Matches(groups[g].text, name)}
          winners  == {g \in matching :
                         \A h \in matching \ {g} : Beats(groups[g].text, groups[h].text)}
      IN  /\ matching # {} => Cardinality(winners) = 1
          /\ (\A r \in Exact(name) : ~Receiving(r)) => Picked(name) = winners

\* What the bus saw of a transaction is a prefix of what was published into it, in order and each
\* message once: nothing before the commit or after an abort, everything once commit returned Ok,
\* and never everything when it returned an error.  The handle's transaction is an open one.
TransactionsHold ==
  /\ handle # 0 => txns[handle].kind = "handle" /\ txns[handle].state = "open"
  /\ \A t \in DOMAIN txns :
    LET seen == Len(sent[t])
        all  == Len(txns[t].wrote)
    IN  /\ sent[t] = SubSeq(txns[t].wrote, 1, seen)
        /\ txns[t].state \in {"open", "aborted"} => seen = 0
        /\ txns[t].state = "committed" => seen = all
        /\ txns[t].state = "failed" => seen < all

\* The trait's promise for a commit: its messages become visible together, or not at all.
CommitAllOrNothing == \A t \in DOMAIN txns : txns[t].state = "failed" => sent[t] = << >>

\* A request resolves with a reply to itself, whatever other requests are in flight, however late
\* or often they are answered, and across a shutdown and a revival of the bus.
ReplyIsMine ==
  \A r \in Asks : asks[r].outcome = "Reply" => asks[r].reply = <<"reply", r>>

\* A request that returned left nothing behind: its inbox is not registered, and nothing is
\* recorded under it but what a responder published after the return.
InboxesReleased ==
  \A r \in Asks :
    asks[r].state = "done" =>
      /\ InboxName(asks[r].inbox) \notin DOMAIN names
      /\ InboxName(asks[r].inbox) \in DOMAIN logs => asks[r].late
=============================================================================
