----------------------------- MODULE PublishLog -----------------------------
(***************************************************************************)
(* The publish log a retaining in-memory broker keeps for one name         *)
(* (crates/memory/src/log.rs).  A NameLog is a record:                     *)
(*   entries    the payload sizes of the retained messages, oldest first   *)
(*              (nothing else of a message matters to the log);            *)
(*   first_seq  the absolute position of the oldest retained message;      *)
(*   bytes      the retained payload bytes, kept by addition and           *)
(*              subtraction as the code keeps them.                        *)
(* A retention bound is a record too: kind is the variant, the two limits  *)
(* are read by the variants that have them.                                *)
(***************************************************************************)
EXTENDS Integers, Sequences

RetentionBounds ==
  [kind : {"Messages", "Bytes", "MessagesAndBytes"},
   messages : Nat \ {0}, bytes : Nat \ {0}]

EmptyLog == [entries |-> << >>, first_seq |-> 0, bytes |-> 0]

\* Retention::admits
Admits(retention, messages, bytes) ==
  /\ retention.kind \in {"Messages", "MessagesAndBytes"} => messages <= retention.messages
  /\ retention.kind \in {"Bytes", "MessagesAndBytes"} => bytes <= retention.bytes

\* The payload bytes of the first k entries.
PrefixBytes(entries) ==
  LET sum[k \in 0 .. Len(entries)] == IF k = 0 THEN 0 ELSE sum[k - 1] + entries[k]
  IN  sum

\* NameLog::next_seq: the position the next publish under the name takes.
NextSeq(log) == log.first_seq + Len(log.entries)

(***************************************************************************)
(* NameLog::push.  The loop pops the oldest message while more than one is *)
(* left and the bound refuses what is left, so it stops at the first count *)
(* of evictions that leaves one message or an admitted log.                *)
(***************************************************************************)
\* Mutant: a push evicts one message at most.
StopsAtOnce(retention, log, k) ==
  \/ k = 1
  \/ Len(log.entries) - k <= 1
  \/ Admits(retention, Len(log.entries) - k, log.bytes - PrefixBytes(log.entries)[k])

StopsAt(retention, log, k) ==
  \/ Len(log.entries) - k <= 1
  \/ Admits(retention, Len(log.entries) - k, log.bytes - PrefixBytes(log.entries)[k])

Evictions(retention, log) ==
  CHOOSE k \in 0 .. Len(log.entries) - 1 :
    /\ StopsAt(retention, log, k)
    /\ \A j \in 0 .. k - 1 : ~StopsAt(retention, log, j)

Evict(retention, log) ==
  LET k == Evictions(retention, log)
  IN  [entries   |-> SubSeq(log.entries, k + 1, Len(log.entries)),
       first_seq |-> log.first_seq + k,
       bytes     |-> log.bytes - PrefixBytes(log.entries)[k]]

Appended(log, size) ==
  [entries   |-> Append(log.entries, size),
   first_seq |-> log.first_seq,
   bytes     |-> log.bytes + size]

Push(retention, log, size) == Evict(retention, Appended(log, size))

\* NameLog::replay_from: the first retained position at or after seq.
ReplayStart(log, seq) == IF seq <= log.first_seq THEN log.first_seq ELSE seq

(***************************************************************************)
(* MemoryPosition and MemoryPosition::resolve (capability/seek.rs).  A     *)
(* position below the oldest retained one is refused (PositionEvicted), a  *)
(* position past the tip waits at the tip.                                 *)
(***************************************************************************)
Positions(MaxSeq) == [kind : {"Start", "End", "Sequence"}, n : 0 .. MaxSeq]

Evicted(to, log) == to.kind = "Sequence" /\ to.n < log.first_seq

\* Mutant: a position past the tip is taken as it is.
ResolveUnclamped(to, log) ==
  CASE to.kind = "Start"    -> log.first_seq
    [] to.kind = "End"      -> NextSeq(log)
    [] to.kind = "Sequence" -> to.n

Resolve(to, log) ==
  CASE to.kind = "Start"    -> log.first_seq
    [] to.kind = "End"      -> NextSeq(log)
    [] to.kind = "Sequence" -> IF to.n <= NextSeq(log) THEN to.n ELSE NextSeq(log)
=============================================================================
