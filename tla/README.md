# A TLA+ development of RustStream

RustStream is a framework for message-driven services in Rust: brokers implement the traits of
`crates/core`, a service registers handlers on a router, and a runner (Tokio, compio or Embassy)
reads the subscriptions, calls the handlers and settles their deliveries. This directory holds
TLA+ models of the parts of it whose correctness depends on the order of steps, TLC
configurations that check them, and TLAPS proofs of what matters most about them.

## 1. Inventory

| Part | State it keeps | Operations | Interacts with | What is hard |
| --- | --- | --- | --- | --- |
| `memory`: publish log (`log.rs`) | per name: entries, index of the first, bytes | append with eviction, replay position, forget | written by a publish, read by a seek | both retention bounds at once, payloads of no bytes or above the bound, absolute positions that survive eviction |
| `memory`: subscriptions (`subscriber.rs`, `lib.rs`, `broker.rs`, `capability.rs`) | bus (live or shut down), senders by name, one channel per subscription, deliveries in handlers | subscribe, publish, poll, batch poll, ack, nack, nack_after, drop, shutdown, connect | the runtime polls and settles; timers send back | a delivery dropped, requeued or on a timer while the bus shuts down and connects again |
| `memory`: seek (`capability/seek.rs`) | watermark, pending target, waker | seek (three stores and a wake), take, replay | any task holding the `Seeker`, against the polling stream | watermark and target stored in two steps against a poll that reads them in two |
| `memory`: patterns and routing (`pattern.rs`, `lib.rs`) | groups of subscriptions by pattern, in registration order | parse, match, compare, pick under `EveryMatch` or `MostSpecific` | every publish | overlapping patterns, groups whose last subscription went, names that look like wildcards |
| `memory`: transactions, request/reply (`capability/`) | buffers of the handle and of owned transactions; numbered inboxes | begin, commit, abort; register, publish, wait, unregister, forget | the same bus, one hold of its lock at a time | a shutdown between two fan-outs, a reply that is late, doubled or never comes |
| `runtime`: ring hand-off (`dispatch/rings.rs`) | a ring, a parked flag and a waker per thread; one waiting word and a waker for the loop | push, pop, park, wait for room, close, leave | one loop, `n` threads, no lock | lost wakes on both sides, panics, failed starts, shutdown |
| `runtime-tokio`: worker pool, batch pool (`dispatch/pool.rs`, `dispatch/batch_pool.rs`) | free queue, inbox of one per worker; for batches slots, a free list, `Notify` permits | hand over by turn or by key, farewell, stop, abort | the loop, `n` tasks | a worker that unwinds in steps while the loop hands to it |
| `runtime`: settlement (`dispatch/settle.rs`, `settle/keep.rs`), `runtime-embassy`: store of copies (`copies.rs`) | the delivery, the retry-count header, the copy under way, records of the store | settle by outcome, reserve, drop the original, publish or arm the copy, dead-letter, reject | handler, broker, publisher, timers | two awaits that can each fail, two counters, a full store, a crash in between |
| `runtime-tokio`: lifecycle (`app/run.rs`, `teardown.rs`, `health.rs`, `shutdown.rs`) | brokers connected, loops, continuations, the cancellation, the first failure, health | start and its unwind, drain with its timeout, close in reverse, fail fast, report | everything | failure half-way through a start, the drain against its timeout, workers told to end and not awaited |
| `testing`: the harness (`harness/`, `handle.rs`), `runtime`: its coordinator (`testing/coordinator.rs`) | in-flight count, step budget, records of calls and publishes, redeliveries expected, timers | publish and wait, advance, count, record, hold | the in-memory broker and the dispatch count; the test's task waits | telling from counts taken on several threads that a reaction is over |
| `runtime`: batches, `.error` continuations (`batch.rs`, `batch/settle.rs`, `publish_failure/`) | elements not reported, failures, the closure and the follow-up of an outcome | begin, report, react, follow | the worker, the tasks or the store of delayed copies | reports in any order from two actors; one fan for successive outcomes; a closure or a follow-up that takes its time |
| `runtime-embassy`, `runtime-compio`, local buses of `memory` | mailboxes, worker slots, timer wheel, cores, fixed queues | run, stop | the same dispatch | fixed capacities, one thread |
| `core`, `macros`, `asyncapi`, `cli`, `observability`, `conformance` | none of their own | traits, generated code, documents, a command line, test suites | | |

`PROJECT.json` lists each part with its sources and status, and every hazard with the line where
it bites and the properties that would catch it.

## 2. Modules

| Module | What it is |
| --- | --- |
| `PublishLog` | the log of one name as operators: admission, eviction, replay positions, resolution of a seek position |
| `MemorySubscription`, `MCSubscription` | the subscriptions of one name over that log, and their instances |
| `NamePatterns` | names and patterns as sequences of tokens: parsing, matching, specificity, the two routing rules |
| `MemoryBus`, `MCBus` | the bus: registry, fan-out, logs, transactions, requests; extends `PublishLog` and `NamePatterns` |
| `Dispatch` | what every concurrent dispatch promises, in four actions |
| `RingHandoff`, `MCRings` | the ring hand-off, which implements `Dispatch` |
| `WorkerPool`, `BatchPool`, `MCPools` | the two Tokio pools, which implement `Dispatch`; the instance also runs one thread behind a ring |
| `Settlement` | the settlement of one subscription's deliveries |
| `SharedOutcome` | what the `.error` and `.then` of one outcome for a whole batch promise |
| `BatchFan`, `BatchGather` | how they are gathered without a heap, over the Embassy store of copies, and with one; both implement `SharedOutcome` |
| `MCSettlement` | the composition of the three, for any size of batch and store: a behaviour is two messages, the batches of a mount without a heap, or a batch of one with |
| `AppLifecycle` | a service from its start to the end of its shutdown |
| `TestHarness` | a test that drives one subscription through the harness and waits for each reaction to settle |
| `MCApp` | the instance of both: a behaviour is the life of a service or a test |
| `SubscriptionProofs`, `SettlementProofs`, `BusProofs`, `RingProofs`, `PoolProofs`, `FanProofs`, `LifecycleProofs`, `HarnessProofs` | the theorems about each and their proofs; see section 5 |

Definitions whose comment calls them a mutant, or that describe a slip in the code in the same
place as the definition they vary (`...Unreserved`, `...Uncapped`, `...Silent` and the like), are
not part of any specification: each is a plausible bug that a property must notice.

### PublishLog and MemorySubscription

A message is its position in the log; a delivery is its position and its delivery count. A
publish appends and sends under the bus and log locks, so it is one step. A seek is not:
`SeekStore` (watermark), `SeekRecord` (pending target) happen under the bus lock, `SeekReturn`
wakes the stream after the lock is released; on the other side `BeginPoll` registers the waker,
`TakeSeek` takes the target without the lock, and `ReplayDrain`, one `ReplaySend` per retained
message and `ReplayEnd` drain and refill the channel under it (`ReplayRefused` on a bus that was
shut down meanwhile). The lock keeps publishes and seeks out of that; requeues and redelivery
timers send to the channel without it, so they land between the drain and the refill too.
`DropStale`, `Yield` and `Drained` are the rest of one poll, which fills a batch when
`BatchLimit` is above one. `Settle`, `Requeue`, `NackAfter` and `TimerFires` are what a message
in a handler can do; `Shutdown`, `Connect` and `Unsubscribe` may run between any two of them.

`owed`, `settled`, `floor`, `sought` and `landed` are history: what the subscription was sent,
what it settled, and where seeks moved it.

Abstractions: one outstanding call of `seek` per subscription (two would serialise on the bus
lock); one exact name; no patterns; a retaining broker, since a bus that records nothing refuses
positions and so has no seek.

### NamePatterns and MemoryBus

A name or a pattern is the sequence of its tokens, because matching and specificity look at
nothing else: `*` takes one token, a `>` in the last place the rest. A step of `MemoryBus` is what
a call does under one hold of the bus lock, so a publish is one step, a commit one per message
and a request five (number and register, publish, wait, unregister, forget the log); the steps of
different calls interleave, with `Shutdown` and the `Connect` that revives the bus between any
two. `Reach` states a fan-out through the groups as the code walks them; `FanoutMatchesRoutes`
compares it with the rule the documentation and the test harness state for one subscription at a
time. A `conf` picks what an instance is about: its subscriptions, names, sizes, retention and the
number of publishes, transactions, requests and revivals. The responder is external: it answers
any request it received, any number of times, also after the request gave up.

### RingHandoff

Each atomic operation of `Signals`, `Drain::work` and `Feed::read` is a step, in the order of the
code. The model is sequentially consistent, which the `SeqCst` fences between each flag store and
the ring load that follows it justify for exactly the handshakes modelled. `KeyIndex` is the hash
of a partition key and is external. The turns of the executor (`TURN_LENGTH`) only add points at
which a thread may be preempted, and every step is one already. `Die` is a panic in the work,
`OpenFails` a thread that cannot start after others did.

### WorkerPool and BatchPool

The workers are tasks on the threads of a runtime, so a panic is several steps: what a worker owns
goes in the order Rust drops it, locals before parameters, and the loop may act between two of
them. In `WorkerPool` the `Farewell` that reports the worker free goes before the receiving end of
its inbox; in `BatchPool` the worker marks itself gone first. Tokio's channels, `Notify` (one
stored permit) and task abort are external and modelled by their contracts. `Abort` is the drop of
the crew when the shutdown timeout aborts the loop: workers are told to end, and do at their next
await.

### Dispatch

The abstract dispatch reads a delivery, starts it, finishes it, or breaks and drops some. It may
not have more than `limit` read and unfinished, starts a delivery once, and starts one with a key
only when none of that key before it is left. The mappings are:

| `Dispatch` | rings | worker pool | batch pool |
| --- | --- | --- | --- |
| `limit` | the rings, the handlers and, by key, the delivery in hand | the workers; by key also their inboxes and the delivery in hand | the workers |
| `waiting` | in a ring or in the loop's hand | in an inbox or in the loop's hand | in a box or in the loop's hand |
| `running` | popped and not finished | in a worker's hand | in a worker's hand |
| `done` | finished | finished | finished |
| `broken` | a thread died | a worker panicked or the loop was aborted | the same |

### Settlement

A message is in one place: with the broker or the handler (`dlv`), in a copy the runtime holds
(`job`), at its end (`fate`), or lost for a recorded reason (`lost`). `SettleOutcome` is the
synchronous part of the code up to the await of the settlement: it reads the cap, chooses between
requeue, native delay, copy, dead letter and rejection, and takes room. `Settled` and
`SettleFailed` are the broker's answers; `CopyDue`, `CopySent` and `CopyLost` are the life of a
copy; `Crash` is the death of the process between any two of them.

`conf`, chosen from `Confs` at the start and never changed, is the transport (`Counts`, `Native`,
`Settles`), whether a dead letter is declared, and the path of copies (`published` through the
retry publisher, `kept` in the store of the Embassy runner, `none` where the broker moves
deliveries), the room the host has
for delayed copies, and the highest retry count the headers have room for (`fits`; a build without
a heap fixes it, `keep.rs:60`); `MaxAttempts` is the declared cap. The broker is external and modelled by the
contract that `crates/conformance/src/retry.rs` checks: a broker
without delays of its own continues the count that a copy's header carries, a failed settlement
leaves the delivery with the broker, and a broker that delays by republishing raises the header.
A host with bounded room on the published path is what `Detach::reserve` allows; the Tokio
runner's room is unbounded. `slips` counts the deliveries no attempt is recorded for: failed
settlements, crashes, and requeues for a full store on a transport that counts nothing or for
full headers on any.

Left out: the `.error` of a single delivery, which runs after the loss it is told of.

### SharedOutcome, BatchFan and BatchGather

One outcome for a whole batch may carry an `.error` closure and a `.then`. `SharedOutcome` says
what the handler's author may count on: each element ends, failed or not; when all have, the
closure hears every failure once, in the order of the batch, and the `.then` runs once if some
element did not fail. `ended`, `failed`, `heard` and `followed` are its variables, and history in
the two modules that implement it: an element ends at the broker's answer, before anybody is told.

Without a heap (`BatchFan`) the mount has one fan. The worker reports the elements that made no
publish, whose copy left at once, or found the store full; the driver of the store publishes due
copies and hands their reports through a slot of one (`HandsOver`, `Gives`, `Takes`) to a reporter.
Whoever reports last runs the closure and the `.then` in that call (`report`, `ReactEnds`,
`FollowEnds`), and the fan is free once the closure is done. Worker, publishing and reporter are
futures joined in one task, so each is polled on every wake of the task and a wait is a guard. A
part carries its index only; the model tags it with its outcome to be able to say, in
`PartsReachTheirOutcome`, that the fan still holds that outcome.

With a heap (`BatchGather`) an outcome has a rendezvous of its own: a failure reports at once, a
success when its continuation is polled, and the report that is last returns the continuation of
the whole, which the delayed copy's task runs and every other caller hands to the host. Delayed
copies wait on tasks of their own or, with `kept`, in the host's store.

Abstractions: delays pass in any order; an outcome without an `.error` only takes records; the
`.then` of such an outcome and an outcome per element are not in these modules; elements rejected
before the handler ran settle on their own and are left out.

### AppLifecycle

`stage` is where the main task is: producing the state, connecting brokers in registration order,
opening subscriptions, running, draining the loops, draining the continuations, closing the
brokers in reverse. The loops, the workers of pools, the continuations handlers leave behind and
the health watcher are tasks of their own. A loop is what it does to the teardown: it reads the
flag, polls, runs or hands on a delivery, and ends, fails, panics or is aborted. `orphans` are
workers of a pool whose loop is gone: told to end, awaited by nobody. `GiveUp` and the second
teardown that follows are what `TestApp::shutdown` does when the first one does not end in time.
How a loop hands on is `WorkerPool`'s subject, what one dispatch does to the message
`Settlement`'s. `workers`, the bound on `inHand`, is the deliveries a loop has in hand at once,
which for a pool by key is twice its workers. `unseen` and `signalled` are history: the loops that
panicked after the drain aborted them, and the subscriptions that failed the service before
shutdown took the failure.

### TestHarness

A test publishes, or advances the clock, and then waits. In process (`Enable`, `Load`, `Budget`,
`Notified`) it waits for the in-flight count: the in-memory broker raises it after every send and
lowers it with the drop of every message, the dispatch holds one of its own across each call
(`Token` to `End`), and a retry copy holds one from before its original is dropped (`Hold` to
`Release`). Live (`ReadNow`, `ReadHandled`, `ReadPublished`, `ReadRunning`) it takes the time,
compares the calls recorded with the publishes recorded and the redeliveries due by that time, and
asks that no call runs. In process the clock is paused and moves in `Advance`; live it runs all the
time, during a settle and while the test asserts, and `Sleep` only starts a settle. There are two
live clocks: the broker sends a delayed message back on its own (`Redeliver`, at any time), and the
harness counts it due by the time it stamped when it heard of it (`FallDue`). Sends, counts, records and reads are steps of their own, taken by the workers, the timers
and the test's task in any order, as on a runtime of several threads; `consumed` and `enqueued`
are one step each, because the notification comes last in both and the waiter registers before it
reads. `spent` is the part of the step budget used; `seen` and `back`, the redeliveries a live
broker has sent back, are history.

Abstractions: one subscription, whose messages are numbered, a redelivery or a copy keeping its
number; the order of the queue is left open; in process an advance lets every delayed message come due;
handlers publish only to their own subscription. `handled`, `published` and the redeliveries are
kept only live, where they are read. Hooks, batches, continuations and the check of
`until_idle` that a task stays runnable are left out.

## 3. Runs

| Run | Question | Instance |
| --- | --- | --- |
| `subscription_seek` | With seeks, publishes, evictions, requeues, timers, shutdown interleaved: is anything lost, doubled, reordered, filtered by a stale watermark, or left asleep, does a partial batch ever wait, and does a seek land on its target, also with a requeue inside its replay? | one subscription, two slots, three messages, two retained, batches of two, two deliveries of a copy |
| `seek_next_delivery` | Does the next delivery after `seek` reflect it, as documented? It does not: see the findings. | three messages |
| `bus` | Is the log always the longest run of newest messages the bounds admit? Does a publish reach exactly the subscriptions the rule names, one winner under `MostSpecific`? Do aborted and uncommitted messages stay unseen, in order and once? Does a request only get its own reply, and leave no inbox behind? | every bound 1 to 3 of each retention over sizes 0 to 3; three subscriptions over ten overlapping targets and five names; two transactions; two requests; one shutdown and revival |
| `commit_atomic` | Is a commit visible together or not at all, as documented? It is not across a shutdown. | two transactions, one subscription |
| `rings` | Is a wake lost on either side, and does the hand-off implement `Dispatch`, with panics, failed starts and shutdown anywhere? | two threads, rings of one entry; a pool of two deliveries, three by key |
| `pools` | Do both pools and a ring whose loop waits for half of it implement `Dispatch`, is every delivery handled, is there room for every report and a batch slot in one place, is a panic of a batch worker found, and does everything end? | two workers, four deliveries or two batches, pool and by key; one thread, ring of three, five deliveries |
| `pool_panic` | Is a panicking worker of the delivery pool always found, as its comment says? It is not. | two workers, three deliveries |
| `settle` | Duplicates, messages nowhere, leaks of room, a cap missed or early, and does every message end? Does the fan, and the rendezvous, implement `SharedOutcome`, does each part reach its outcome, and does an outcome end unless a `.then` does not? | two messages, cap two, one refused settlement, one failed publish, one crash; four transports with room for one copy, the Embassy store of one and of two, full headers over two transports; two batches of three over a store of two; one batch of three with a heap |
| `settle_mixed_cap` | Does the cap hold on a broker that counts and leaves the delay to the runtime? It does not. | cap three, nothing fails |
| `follow_up_holds` | Does a `.then` that runs on hold back a due copy, which a comment denies? It does. | two batches of three over a store of two |
| `lifecycle` | Does anything outlive the service, does a broker close under a handler or before a continuation, are the answer and the health report honest, and does a timed shutdown end? Does every publish of a test return, and is its reaction over when it does? | two brokers, two subscriptions, one continuation, four services: sequential and pools of two, with and without a timeout, driven or not, torn down by the harness; five tests: in process two calls at once that ack, requeue, copy and publish, and two messages that are also delayed or panic; live two calls at once that publish, and two messages delayed twice in turn or once in two calls at once; a step budget of four |
| `live_requeue` | Live, is every publish of the test handled when it returns, also when handlers requeue at once? It is not. | one worker, two messages |

Bounds. Two retained of three published messages are the least for an eviction to fall between a
seek and its replay while another message stays; two deliveries per copy are the least for a
redelivery of a redelivery. Two threads or workers are the least for two of them to race for the
loop's wake or for one to be picked while another unwinds; rings of one are full and empty at
once, the ring of three of `pools` reaches half-full; the loop needs one delivery more than
the rings or inboxes hold to wait. Two requests are the least for a reply to reach a wrong inbox,
and two messages in a transaction for a shutdown to fall between them. Two messages compete for
room of one. A batch of three over a store of two fills the store and has an element left over, and
two reports of the second batch are the least to fill the hand-off and wait at it. Counters saturate at `MaxCount`, above the cap plus every failure of the instance.
Two brokers are the least for a start that fails with one connected and for a close that is
refused with one left. Two subscriptions of one name in `MemorySubscription` exceed what TLC
finishes in minutes; they share only the log and the bus lock, and the proofs are for any set
`Subs`.

A test of two messages is the least in which what the first left behind
can be taken for the second, a budget of four is spent by two requeues of one message, and at most
`retries` calls of a live test are not acked.

Deadlock is checked except on the bus and in the settlement, where a message or a call that ended
has nothing left to do.

## 4. Fairness

* `RingHandoff`: each thread runs and a woken loop is polled; a handler returns. The stream,
  panics and shutdown are not assumed.
* `WorkerPool`, `BatchPool`: the loop and each worker take their steps, since the executor polls
  woken tasks, and a handler returns. The stream, panics, shutdown and the abort are not assumed.
* `Settlement`: per message, some step is taken: the loop reads, the handler returns, the broker
  and the publisher answer (with any answer), timers fire.
* `BatchFan`, `BatchGather`: the executor polls, the broker answers a publish, delays pass, and the
  `.error` closure ends. That a `.then` ends, that another batch comes or that the service stops is
  not assumed. `OutcomesEnd` says what is left: an outcome ends, unless a `.then` holds the reporter
  with a report behind it, or the shutdown timeout aborts the loop.
* `AppLifecycle`: the steps of the start, of the teardown, of the loops and of the watcher, the
  expiry of a timeout once armed, and the shutdown that `run_until` makes itself. Handlers and
  continuations are not assumed to return, which is what the timeout is for.

* `TestHarness`: the executor polls woken tasks, handlers return, timers that are due fire, and a
  live broker brings back what it delayed (`Redeliver`): a redelivery counted due is waited for. The
  test's own publishes and advances, the time of a redelivery falling due (`FallDue`) and the
  deadline of a live wait are not assumed: `DriveEnds` holds live without the deadline.

All are weak fairness: none of those steps is disabled by another actor once it is enabled.

## 5. Proofs

Eight modules prove what the runs show on small instances, for every value of the constants that
their named assumptions admit. The theorems are about the specifications without fairness (`Safe`,
`SafePools`, `SafeSettle`, `SafeApp`), which the fair ones imply. Almost none of the properties is inductive;
for each module the invariant that is, and the reason for its parts, is below. Each was checked
with TLC on the instances before it was proved.

### SubscriptionProofs

For every `Subs`, `Slots`, `Sizes`, `Retention` and bound that satisfy `SubscriptionAssumption`.

* `TypeCorrect`, from lemmas about the log: the least eviction that satisfies the bounds exists and
  leaves an entry (`LeastElement`, `EvictionsBounded`), a push raises the next position by one and
  keeps the log a log (`PushProperties`), a replay starts at a position (`StartProperties`), a
  resolved position is one (`ResolveProperties`).
* `WakeupNeverLost` (`NoLostWakeup`). The property speaks of parked streams only: a poll parks some
  steps after it looked. `WakeInv` adds that a poll which has begun is armed, so that a seek or a
  send from then on wakes it, and that one past `TakeSeek` has either taken the target or been
  woken for a later one.
* `NoMessageLost` (`NothingLost`), `NoDuplicateWithoutSeek` (`OneCopyWithoutSeek`),
  `FirstDeliveriesInOrder` (`FreshInOrder`), `WatermarkBelowTip` (`NoLiveMessageStale`),
  `SeekLands` (`SeekLandsOnTarget`) and `BatchesShip` (`NoBatchHeldBack`). `MessageInv` joins: nothing
  is anywhere that the log has not reached (`BoundInv`); first deliveries are in publish order
  (`FreshInv`); the target of a seek, wherever the call and the poll have got to, is not above the
  floor (`FloorInv`), without which a replay could skip what is still owed; without a seek nothing
  is pending or replayed (`UnsoughtInv`). A refill under way is part of them: what it has still to
  enqueue is neither lost nor out of order (`Behind`). `LandInv` follows a recorded target through
  the poll that takes it, and then says that the first message of the replay, enqueued or still to
  be, is the first of the first deliveries in the queue (`Applied`), with only requeues before it.

### SettlementProofs

For every set of messages, transport, declaration, path, capacity and bound
(`SettlementAssumption`).

* `NeverTwice` (`OneLiveCopy`), by `Hands`, which orders the four places a message can be in, with
  `Shape`, the part of the type that does not count room.
* `NoneDisappears` (`NothingLost`): a message is in one of its places or lost for a reason of its
  transport.
* `RoomGivenBack` (`RoomAccounted`). `RoomInv` says which settlements hold room; the count is
  carried over each step by the cardinality of the messages that do.
* `CapKept` (`CapHolds`). `CapHolds` speaks of the transports that count nothing or both count and
  delay, bounds the runs of a message by the cap and its slips, and says nothing of the messages
  still under way. A requeue for full headers is a slip, so the cap says nothing of a message that
  has them but how often that happened; it is what the code does. Where nothing is counted
  `HeaderCap` adds that the header accounts for every run that was not a slip, and that whatever
  comes back was decided below the cap (`DecideBelowCap`); where the broker counts and delays,
  `NativeCap` says the same of its count. The transports left over, which count and do not delay,
  are the ones `settle_mixed_cap` refutes: `AttemptsCapped` is the same bound without the exception.
* `SpentLast` (`NotSpentEarly`), if the counters are as wide as the cap (a `u32` against `u64` in
  the code). `EarlyInv` bounds what is counted, in the delivery or in the header, by the runs.

### BusProofs

For all valid patterns, of any length:

* `OneIsMoreSpecific`: of two different patterns that match one name, one is more specific.
  `NotBothMoreSpecific`: never each of the other. `MaxByIsGreatest`: what `max_by` returns is one of
  the patterns it is given, and every other of them has the same text or is less specific.

  They rest on the least position at which two patterns differ (`LeastOf`): before it their ranks
  agree, at it the ranks differ (`RankTells`), because two literal tokens that match the same part
  of a name (`TokenAt`) are the same token. Two texts that agree as far as both go differ in
  length, which the comparison looks at last.

For every `Confs` that satisfies `ConfsAssumption`, any number of subscriptions, transactions,
requests and revivals, with `InboxesDiffer`, that different inbox numbers are written as different
names, as an explicit hypothesis (`write!` of a number is `ToString` in the model, of which the
prover knows nothing):

* `BusSeesAPrefix` (`TransactionsHold`), `AnsweredByItsReply` (`ReplyIsMine`), `NothingLeftBehind`
  (`InboxesReleased`), `SingleWinner` (`OneWinner`), `FanoutIsTheRule` (`FanoutMatchesRoutes`).

`Inv` ties the registry to the calls: an inbox number belongs to one request and none to come
(`NumberInv`); a name of an inbox is registered or logged only for the request that has it
(`NamesInv`, `LogsInv`), and what arrived there answers that request (`GotInv`); a subscription of
this life of the bus is in the group of its text or under its name, and nothing else is
(`GroupsInv`, `RegistryInv`), which is what lets the walk through the groups be compared with the
rule for one subscription; what the bus saw of a transaction and what is buffered make up what was
written (`TxnInv`). `SingleWinner` uses that there is one group per text, so the fan-out and
`MaxByIsGreatest` speak of the same candidates.

* `LogIsTheLongestWindow` (`RetainedWindow`), for all retention bounds with limits that are not
  zero, as the code's `NonZero` has them, and all sizes. The property compares each log with the
  whole history of its name, while the code keeps no history: it counts bytes as it pushes and
  takes the oldest entries off while the bounds are exceeded. `Window` joins the two: the log is an
  end of the history, its byte count is the sum of its entries, its first number follows from its
  length, a log of more than one entry fits, and no longer end of the history does.
  `PushKeepsWindow` is the step: an end that did not fit before the push fits even less with one
  entry more (`AdmitsLess`), so the new log need only be looked for among the ends of the old one,
  and among those the loop stops at the first that fits (`EvictionsFacts`). `WindowsInv` says this
  of every name; a fan-out pushes to the logs of the names it writes (`FanoutWindows`), and the
  others are dropped whole or left alone.

  The sums are differences of running sums (`PrefixBytes`, a recursive function). That such a
  function exists, that it starts at zero and grows by each entry, and that an end of a sequence
  has running sums of its own (`SumsExist`, `PrefixFacts`, `RunBytes`) is proved by induction over
  a set of naturals, whose complement would have a least element (`Induct`).

### RingProofs

For any number of threads, ring length and keys (`RingAssumption`).

* `ThreadWakeupsKept` (`NoLostThreadWakeup`) and `LoopWakeupsKept` (`NoLostLoopWakeup`). Both sides
  register a waker, raise a flag, look again and wait. `ParkInv` says for a thread, and `ArmInv` and
  `WaitInv` for the loop, what holds at each point of that sequence: from the registration on the
  waker is there until a wake takes it, from the flag on the flag is up until it is claimed, and
  what the second look found empty or full has changed since only if a wake is on its way. The
  loop's look covers several rings, one step each, so `WaitInv` is about the rings looked at so far.
* `RingsDispatch`: `Safe => ImplementsDispatch`. `HandoffInv` places each delivery: with the loop
  (`CarryInv`), in one ring or with one thread (`AtInv`, `OneHolder`), each ring in reading order
  and with its own keys (`RingInv`). `Simulates` then takes the steps one by one: a read, a pop and
  a return are `Take`, `Begin` and `Finish`, a panic is `Drop`, everything else a stutter.

### PoolProofs

For any number of workers and messages (`PoolAssumption`).

* `RoomForEveryReport` (`FreeListsHaveRoom`), `BatchPanicsFound` (`BatchPanicIsFound`) and
  `NoReportLost`, which states of both pools that the push of a report, whose result the code
  discards, finds room. `WorkerOnce` puts the index of a worker in one place: the queue, the loop's
  hand, or a worker that is not free. For batches the slot and the report are two things:
  `SlotOnce`, `SlotSomewhere` and `QueueOnce` follow each, with `BatchControl` for where the loop
  and the workers are, so that the length of the queue is bounded by counting workers.
* `PoolsDispatch`: `SafePools /\ kind \in {"deliveries", "batches"} => ImplementsDispatch` (the third
  kind, the rings, is `RingsDispatch`). `Placed` puts each delivery in one place, before a worker,
  in its hand or in the loop's, and every step of either pool is one of six `Moves` of a delivery
  between them. `MovesDispatch` shows each to be a step of `Dispatch`, once for both pools: `Take`,
  `Begin`, `Finish`, `Drop` or a stutter. The pools owe it two things: room for a read, which
  the worker held free gives (`WorkerOnce`, `SlotOnce`; by key two places per worker), and that
  what a worker starts has none of its key before it (`WorkerKeys`). `WorkerControl` and
  `BatchFlight` say that a delivery is refused or dropped only once the pool broke.

### FanProofs

For every size of the batch and of the store, and any number of outcomes (`BatchAssumption`).

* `EveryPartIsTold` (`ReportsReachTheirOutcome`). The fan's parts carry no outcome, so the
  invariant has to follow each part: it is in one place (`OnePlace`), of the outcome the fan holds
  and of an element the worker is done with (`PartsInv`), and the fan counts exactly these and the
  elements to come (`CountInv`). `BusyInv` adds that at most one actor runs a closure and only when
  nothing is awaited: the next outcome can then not begin under parts of the last one.
  `RendezvousInv` is the same for a build with a heap, by the cardinality of the elements that
  have reported.
* `OutcomesImplemented`: `SafeSettle => ImplementsOutcome`. `GatheredInv` and `WholeInv` say what
  the fan and the rendezvous know: an element has ended if the worker and the records are past it,
  the failures gathered are those reported, in order, and `sent` means that some element did not
  fail. The step that reports last is then the end of the element with `React` and `Follow`,
  those of the broker's answers are `End`, and the others stutter. That an insertion before the
  first later element keeps the order is `InsertRises`; that the failures of different elements
  can be sorted is `OrderExists`, by the least length without an order.

### LifecycleProofs

For every number of brokers, subscriptions, workers and continuations (`AppAssumption`).

* `BrokersOutliveHandlers` (`NoCloseUnderAHandler`), `BrokersOutliveContinuations`
  (`ContinuationsBeforeClose`), `AllTakenDown` (`NothingLeaks`), `OkMeansClean` (`OkIsHonest`),
  `ProbeAgrees` (`HealthAgrees`). `Inv` orders the stages: handlers belong to loops that run
  (`HandInv`), nothing is taken down before the loops are joined (`OrderInv`), past the drain a
  continuation is alive only where one was left (`ContInv`), brokers close from the last
  (`CloseInv`), the count of consuming loops is their number (`CountInv`), a panic that was joined
  is in the answer (`PanicInv`), a subscription that failed the service left its failure, or an
  earlier one, recorded until shutdown takes it, and the watcher and the shutdown agree on it
  (`ReportInv`).
* `TestsReturnWhenStill` (`SettledIsStill`), of the composition `MCApp` (`SafeApp`) and every set of
  tests (`TestsAssumption`): what `HarnessProofs` proves of the harness carried over to it. Under
  the hypothesis below.

### HarnessProofs

For any number of workers, of messages the test and its handlers publish, and of steps in the
budget.

* `ReturnsWhenStill` (`SettledIsStill`): when a publish of the test, or an advance of its clock,
  has returned, nothing is queued or on its way back, no call runs and every message was handled,
  or a fail-fast panic ended the service. The two waits are different algorithms, and so are the
  arguments. `OnePlace` and `Followed` serve both: a message is in one place, and what no handler
  got is queued or with a worker about to call one.

  In process `drive` returns when `in_flight` is zero. `InFlight` says what it counts, in every
  state between the steps of a handler: one for each queued message, and one, two or three for a
  delivery depending on how far its call has come (`Weight`: the message, the dispatch token, the
  hold of a retry copy), less one for a message the test queued and has not counted yet, and less
  one for each timer that fired and is not counted yet. The last two are why zero alone does not
  mean quiet; `Fires` and the stage of the test say that `drive` does not run then.

  Live `settle_live` takes the time and makes three reads, one after the other, and anything can
  happen between them. `Ledger` balances the counters: what was handled, is queued or is not
  recorded yet is what was published and what the broker sent back. `Reads` follows the reads: the
  records are read after the time and before the publishes, and only grow, so if they cover the
  publishes and the redeliveries due by that time, and the broker has sent back no more than those,
  nothing was left to handle at that read (`CaughtUp`), and from then on no handler can publish. The
  last read then finds every call ended.

  `back <= saw.due` is a hypothesis of the property, not of the theorem alone: the live clock runs
  on. A redelivery that comes back before the harness counts it due is handled and not owed, and can
  stand in for a publish still with the broker; one that comes after the time was taken is nobody's
  to wait for and runs while the test asserts. The code promises neither: a settle waits for what
  "fell due".

  The hypothesis is `LiveAcks`: the handlers of a live test ack or delay. Without it the statement
  is false: a live requeue is finding 5, and the immediate copy is in the list after the findings.
  In process handlers may do anything.

### Only model-checked

* Liveness (`StopsAfterCancel`, `EveryDeliveryHandled`, `EveryMessageEnds`, `OutcomesEnd`,
  `ShutdownEnds`, `FailureIsReported`, `DriveEnds`): the prover does not handle fairness.

Every invariant, action property and refinement the passing runs check has a theorem. Beyond the
liveness above TLC alone gives the counterexamples of section 6.

## 6. Findings

1. `seek_next_delivery`: a poll that is past the read of the pending target when `seek` resolves
   still yields a delivery of before the seek, against `core/src/capability.rs`. There is a second
   way: a message requeued between the drain and the refill of the replay is yielded before the
   replay, as a redelivery; the watermark keeps it from being of before the target.
2. `pool_panic`: a panicking worker reports itself free before its inbox closes. The loop, on
   another thread, sends the next delivery into that inbox; the delivery goes with it and the
   pool runs on with a worker fewer, which its comments say cannot happen.
3. `commit_atomic`: a commit takes the bus lock once per message and returns at the first
   refusal. A shutdown of a sibling handle in between leaves a part of the transaction visible.
4. `settle_mixed_cap`: the copy's header counts copies, the cap reads the broker's count. On a
   broker that counts and leaves delays to the runtime (the local in-memory broker under the
   Embassy runner) a `retry()` followed by a `retry_after()` takes the count back by one, and
   `max_attempts(3)` allows four deliveries.
5. `live_requeue`: live, only `nack_after` is announced to the coordinator (`settle.rs:505`). An
   immediate requeue adds a call to what the subscription handled and nothing to what it is owed,
   so the next publish of the test settles on that surplus, before it is handled. A delayed
   redelivery leaves the same surplus for as long as the broker's timer is ahead of the time the
   harness stamped.
6. `follow_up_holds`: without a heap the last report of an outcome runs its `.then` inside the
   reporter, while the fan is free as soon as the closure is done. The next batch begins; its first
   report fills the hand-off, its second waits there, and the mount publishes no copy until the
   `.then` ends, against `runtime-embassy/src/copies.rs:375`. Its test has no second batch.

Met while modelling, without a run of their own:

* A publish between a successful `seek` to a captured position and the poll that applies it can
  evict the captured message; the replay starts at a later one (`core/src/capability.rs:174`).
* Without a heap a delivery whose headers have no room for the retry count is requeued and not
  counted (`settle/keep.rs:60`), at the cap too and with a dead letter declared: such a message
  passes `max_attempts` and goes round for as long as its handler retries. `EveryMessageEnds`
  therefore assumes the room, and `CapHolds` allows for each of these rounds. Only where the broker
  counts and no dead letter is declared does the cap still end it.
* By key the ring loop holds one delivery in hand while it waits, one more than the read-ahead in
  the header comment of `rings.rs`. `Limit` counts it.
* `stopping()` is documented not to resolve on an orderly shutdown (`app/run.rs:285`), while the
  teardown raises the same token.
* The teardown's comment that no continuation can be spawned once the handlers stopped does not
  hold for pool workers that were told to end and not awaited; a panic of a loop after the drain
  aborted it is not reported (`unseen`); a late failure of such a worker can turn the health
  report from stopped to failed.
* A reply that arrives after its request unregistered stays in the log of a retaining broker
  under the inbox's name, and a `request` future dropped while it waits leaves its inbox
  registered.
* Live, on a runtime of several threads, a handler that retries by an immediate copy can be missed
  as well: `settle_live` reads what is owed before it reads whether a call runs, and the copy is
  recorded after its call, so both can end between the two reads. `SettledIsStill` is violated for
  a live test with the outcomes ack and copy; on the one thread of a default `#[tokio::test]`
  nothing runs between the reads.
* In process each delivery is two `consumed`, of the message and of the dispatch, so the step
  budget of 10,000 ends a reaction after about 5,000 deliveries, where
  `docs/components/application/testing/driving/publish.md` says 10,000 dispatched deliveries.
* An element that made no publish reports `Ok` (`dispatch/settle.rs:165`, and `fixed.rs` says so),
  so the `.then` of a batch of which no copy left at all still runs: none was made, or some elements
  made none and every copy of the others failed. `batch/settle.rs:390` says "when at least one
  publish succeeded" and `docs/components/subscribers/messages/error.md:66` "when at least one copy
  was published; when every copy fails it does not run". `SharedOutcome` states what the code does.

## 7. Not modelled, and the plan

Next would be the Embassy mailboxes and worker slots, the compio fabric and wheel, and the local
buses.

Not planned: `macros`, `asyncapi`, `cli`, `observability`, `conformance` and the trait
declarations of `core`, which hold no concurrent or long-lived state; the handlers, extractors,
routers and publishers of `runtime`, which compose registrations at the level of types; codecs and
formatting, which no property here depends on. They, with tests and the examples of the
documentation, are most of the repository's lines: the modelled files are the ones whose
correctness depends on the order of steps.
