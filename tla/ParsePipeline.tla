--------------------------- MODULE ParsePipeline ----------------------------
(***************************************************************************)
(* The bulk pipeline of crates/bidx-cli/src/pipeline.rs: a Rayon pool that *)
(* parses the heights Start..End-1, a bounded channel, and one consumer    *)
(* that puts the blocks back in height order and applies them.  A worker   *)
(* holds its height back while the reorder buffer is above its watermark,  *)
(* unless it is the height the consumer waits for; the RSS watchdog may    *)
(* abort the run at any time.                                              *)
(*                                                                         *)
(* A channel item is its height: it is WorkItem::Skipped for the heights   *)
(* in Orphan and WorkItem::Block for the others.                           *)
(*                                                                         *)
(* `bidx bench' has the same workers and, in bench_consume, a consumer of  *)
(* its own: no stale blocks, the counter lowered before the watchdog is    *)
(* polled, and a sink in the modes full and sink only.                     *)
(***************************************************************************)
EXTENDS Integers, FiniteSets, SequencesExt

CONSTANTS Worker,         \* threads of the Rayon pool
          Start, End,     \* the range of heights to parse
          ReorderHigh,    \* REORDER_HIGH
          ChannelDepth,   \* CHANNEL_DEPTH
          BlocksPerPart,  \* heights per Parquet part file
          Scenarios       \* what is run, and what may go wrong in it

\* kind: "parse", "bench_sink" (bench in the modes full and sink) or "bench" (the
\* modes parse, drain and utxo).  orphans: the heights whose block the node
\* reports as stale.  faults: "oom", the watchdog sees too much RSS; "parse_error",
\* a worker cannot read or parse its block; "apply_error", apply_block, a sink or
\* the recorder fails.
Scenario == [kind : {"parse", "bench_sink", "bench"},
             orphans : SUBSET (Start..(End - 1)),
             faults : SUBSET {"oom", "parse_error", "apply_error"}]

ASSUME RangeAssumption == Start \in Nat /\ End \in Nat /\ Start < End
ASSUME WorkerAssumption == IsFiniteSet(Worker) /\ Worker # {}
ASSUME DepthAssumption ==
  ReorderHigh \in Nat /\ ChannelDepth \in Nat \ {0} /\ BlocksPerPart \in Nat \ {0}

\* bench does not ask the node for stale blocks.
ASSUME ScenarioAssumption ==
  /\ Scenarios \subseteq Scenario
  /\ \A s \in Scenarios : s.kind # "parse" => s.orphans = {}

VARIABLES
  scenario,  \* the member of Scenarios this is a run of
  work,      \* worker -> the heights of its leaf not yet sent, in order
  fresh,     \* workers whose leaf has not begun, so that it may still split
  deque,     \* worker -> leaves it split off, newest last
  wpc,       \* worker -> "seek", "gate" or "send"
  pool,      \* "failed" once an item failed: Rayon starts no further one
  channel,   \* items sent and not received
  buffer,    \* consumer: blocks received ahead of next
  skipped,   \* consumer: skipped_queue
  next,      \* consumer: the height it waits for
  depth,     \* the shared counter reorder_depth
  nextHeight,\* the shared copy of next the workers read
  cpc,       \* consumer: "recv", "skip", "drain", "apply", "ok" or "err"
  part,      \* consumer: part_id of the open sink
  rows,      \* heights whose rows the open sink has
  files,     \* part_id -> heights of the part files finished
  main,      \* run_parse: "parse", "join", "ok" or "err"
  watchdog   \* "tripped" once its flag is set

workerVars == <<work, fresh, deque, wpc, pool>>
consumerVars == <<buffer, skipped, next, depth, nextHeight, cpc>>
sinkVars == <<part, rows, files>>
vars == <<scenario, workerVars, channel, consumerVars, sinkVars, main, watchdog>>

Kind == scenario.kind
Orphan == scenario.orphans
Faults == scenario.faults

Heights == Start..(End - 1)

\* BenchMode::needs_sink; parse always has a sink.
NeedsSink == Kind # "bench"

PartOf(h) == h \div BlocksPerPart

TypeOK ==
  /\ scenario \in Scenarios
  /\ work \in [Worker -> Seq(Heights)]
  /\ fresh \subseteq Worker
  /\ deque \in [Worker -> Seq(Seq(Heights))]
  /\ wpc \in [Worker -> {"seek", "gate", "send"}]
  /\ pool \in {"running", "failed"}
  /\ channel \in Seq(Heights) /\ Len(channel) <= ChannelDepth
  /\ buffer \subseteq Heights \ Orphan
  /\ skipped \subseteq Orphan
  /\ next \in Start..End
  /\ depth \in 0..(End - Start)
  /\ nextHeight \in Start..End
  /\ cpc \in {"recv", "skip", "drain", "apply", "ok", "err"}
  /\ part \in Nat
  /\ rows \subseteq Heights
  /\ files \in [DOMAIN files -> SUBSET Heights]
  /\ main \in {"parse", "join", "ok", "err"}
  /\ watchdog \in {"watching", "tripped"}

\* pool.install has put the whole range on one worker.
Init ==
  /\ scenario \in Scenarios
  /\ \E w \in Worker :
       /\ work = [v \in Worker |-> IF v = w THEN [i \in 1..(End - Start) |-> Start + i - 1]
                                   ELSE <<>>]
       /\ fresh = {w}
       /\ wpc = [v \in Worker |-> "seek"]
  /\ deque = [w \in Worker |-> <<>>]
  /\ pool = "running"
  /\ channel = <<>>
  /\ buffer = {} /\ skipped = {}
  /\ next = Start /\ nextHeight = Start
  /\ depth = 0
  /\ cpc = "recv"
  /\ part = PartOf(Start) /\ rows = {} /\ files = [p \in {} |-> {}]
  /\ main = "parse"
  /\ watchdog = "watching"

-----------------------------------------------------------------------------
(* Rayon (external): try_for_each_init over heights.par_iter().            *)

Running == main = "parse" /\ pool = "running"

\* A leaf not yet begun is halved: the left part is kept, the right one goes
\* on the worker's deque.
Split(w) ==
  /\ Running
  /\ wpc[w] = "seek" /\ w \in fresh /\ Len(work[w]) >= 2
  /\ LET mid == Len(work[w]) \div 2
     IN  /\ work' = [work EXCEPT ![w] = SubSeq(@, 1, mid)]
         /\ deque' = [deque EXCEPT ![w] = Append(@, SubSeq(work[w], mid + 1, Len(work[w])))]
  /\ UNCHANGED <<fresh, wpc, pool, channel, consumerVars, sinkVars, main, watchdog>>

\* A worker with nothing in hand takes back its newest leaf.
Pop(w) ==
  /\ Running
  /\ wpc[w] = "seek" /\ work[w] = <<>> /\ deque[w] # <<>>
  /\ work' = [work EXCEPT ![w] = Last(deque[w])]
  /\ deque' = [deque EXCEPT ![w] = Front(@)]
  /\ fresh' = fresh \cup {w}
  /\ UNCHANGED <<wpc, pool, channel, consumerVars, sinkVars, main, watchdog>>

\* Or, with an empty deque, steals the oldest leaf of another.
Steal(w) ==
  /\ Running
  /\ wpc[w] = "seek" /\ work[w] = <<>> /\ deque[w] = <<>>
  /\ \E v \in Worker \ {w} :
       /\ deque[v] # <<>>
       /\ work' = [work EXCEPT ![w] = Head(deque[v])]
       /\ deque' = [deque EXCEPT ![v] = Tail(@)]
  /\ fresh' = fresh \cup {w}
  /\ UNCHANGED <<wpc, pool, channel, consumerVars, sinkVars, main, watchdog>>

\* The leaf is folded over from the left, one item at a time.
Begin(w) ==
  /\ Running
  /\ wpc[w] = "seek" /\ work[w] # <<>>
  /\ wpc' = [wpc EXCEPT ![w] = "gate"]
  /\ fresh' = fresh \ {w}
  /\ UNCHANGED <<work, deque, pool, channel, consumerVars, sinkVars, main, watchdog>>

-----------------------------------------------------------------------------
(* The worker closure of run_parse.                                        *)

WorkerFails(w) ==
  /\ pool' = "failed"
  /\ work' = [work EXCEPT ![w] = <<>>]
  /\ wpc' = [wpc EXCEPT ![w] = "seek"]
  /\ UNCHANGED <<fresh, deque, channel, consumerVars, sinkVars, main, watchdog>>

\* Mutants: no backpressure at all; backpressure without the exemption.
HeldBackNever(h) == FALSE
HeldBackAlways(h) == depth > ReorderHigh

\* The spin loop lets the height through.
HeldBack(h) == depth > ReorderHigh /\ nextHeight # h

Gate(w) ==
  /\ wpc[w] = "gate"
  /\ ~HeldBack(Head(work[w]))
  /\ wpc' = [wpc EXCEPT ![w] = "send"]
  /\ UNCHANGED <<work, fresh, deque, pool, channel, consumerVars, sinkVars, main, watchdog>>

\* Or goes round once more after 50 microseconds.
Spin(w) ==
  /\ wpc[w] = "gate"
  /\ HeldBack(Head(work[w]))
  /\ watchdog = "watching"
  /\ UNCHANGED vars

\* Inside the loop the watchdog is polled.
GateAborts(w) ==
  /\ wpc[w] = "gate"
  /\ HeldBack(Head(work[w]))
  /\ watchdog = "tripped"
  /\ WorkerFails(w)

\* block_bytes or parse_block_full returns an error.
ParseFails(w) ==
  /\ wpc[w] = "send"
  /\ "parse_error" \in Faults
  /\ WorkerFails(w)

ReceiverGone == cpc \in {"ok", "err"}

\* Mutant: an unbounded channel.
SendUnbounded(w) ==
  /\ wpc[w] = "send"
  /\ ~ReceiverGone
  /\ channel' = Append(channel, Head(work[w]))
  /\ work' = [work EXCEPT ![w] = Tail(@)]
  /\ wpc' = [wpc EXCEPT ![w] = "seek"]
  /\ UNCHANGED <<fresh, deque, pool, consumerVars, sinkVars, main, watchdog>>

\* tx.send blocks while the channel is full.
Send(w) ==
  /\ wpc[w] = "send"
  /\ ~ReceiverGone
  /\ Len(channel) < ChannelDepth
  /\ channel' = Append(channel, Head(work[w]))
  /\ work' = [work EXCEPT ![w] = Tail(@)]
  /\ wpc' = [wpc EXCEPT ![w] = "seek"]
  /\ UNCHANGED <<fresh, deque, pool, consumerVars, sinkVars, main, watchdog>>

\* It fails once the consumer has dropped rx.
SendFails(w) ==
  /\ wpc[w] = "send"
  /\ ReceiverGone
  /\ WorkerFails(w)

-----------------------------------------------------------------------------
(* consume_ordered.                                                        *)

\* The part files once the sink of part p, holding the rows of rs, is finished.
Finished(fs, p, rs) == [q \in DOMAIN fs \cup {p} |-> IF q = p THEN rs ELSE fs[q]]

FinishSink == files' = IF NeedsSink THEN Finished(files, part, rows) ELSE files

\* `next += 1', published to the workers; at the end of the range the sink is
\* finished and the consumer returns Ok.
NextAfter(h, state) ==
  /\ next' = h + 1
  /\ nextHeight' = h + 1
  /\ cpc' = IF h + 1 >= End THEN "ok" ELSE state

\* ParquetSink::create fails before anything is received.
CreateFails ==
  /\ cpc = "recv" /\ NeedsSink
  /\ next = Start /\ buffer = {} /\ skipped = {}
  /\ "apply_error" \in Faults
  /\ cpc' = "err"
  /\ UNCHANGED <<workerVars, channel, buffer, skipped, next, depth, nextHeight,
                 sinkVars, main, watchdog>>

Recv ==
  /\ cpc = "recv" /\ channel # <<>>
  /\ channel' = Tail(channel)
  /\ IF Head(channel) \in Orphan
       THEN /\ skipped' = skipped \cup {Head(channel)}
            /\ UNCHANGED <<buffer, depth>>
       ELSE /\ buffer' = buffer \cup {Head(channel)}
            /\ depth' = depth + 1
            /\ UNCHANGED skipped
  /\ cpc' = "skip"
  /\ UNCHANGED <<workerVars, next, nextHeight, sinkVars, main, watchdog>>

BenchRecv ==
  /\ cpc = "recv" /\ channel # <<>>
  /\ channel' = Tail(channel)
  /\ buffer' = buffer \cup {Head(channel)}
  /\ depth' = depth + 1
  /\ cpc' = "drain"
  /\ UNCHANGED <<workerVars, skipped, next, nextHeight, sinkVars, main, watchdog>>

\* Mutant: skipped_queue.contains(&next) instead of remove.
SkipKeeps ==
  /\ cpc = "skip"
  /\ \/ /\ next \in skipped
        /\ NextAfter(next, "skip")
        /\ IF next + 1 >= End THEN FinishSink ELSE UNCHANGED files
        /\ UNCHANGED <<buffer, skipped, depth, part, rows>>
     \/ /\ next \notin skipped
        /\ cpc' = "drain"
        /\ UNCHANGED <<buffer, skipped, next, depth, nextHeight, sinkVars>>
  /\ UNCHANGED <<workerVars, channel, main, watchdog>>

\* while skipped_queue.remove(&next)
SkipOne ==
  /\ cpc = "skip"
  /\ \/ /\ next \in skipped
        /\ skipped' = skipped \ {next}
        /\ NextAfter(next, "skip")
        /\ IF next + 1 >= End THEN FinishSink ELSE UNCHANGED files
        /\ UNCHANGED <<buffer, depth, part, rows>>
     \/ /\ next \notin skipped
        /\ cpc' = "drain"
        /\ UNCHANGED <<buffer, skipped, next, depth, nextHeight, sinkVars>>
  /\ UNCHANGED <<workerVars, channel, main, watchdog>>

\* on_block_applied fails for a skipped height, or sink.finish behind the last.
SkipFails ==
  /\ cpc = "skip" /\ next \in skipped
  /\ "apply_error" \in Faults
  /\ skipped' = skipped \ {next}
  /\ cpc' = "err"
  /\ \/ UNCHANGED <<next, nextHeight>>
     \/ next + 1 >= End /\ next' = next + 1 /\ nextHeight' = next + 1
  /\ UNCHANGED <<workerVars, channel, buffer, depth, sinkVars, main, watchdog>>

\* while let Some(block) = buffer.remove(&next): the watchdog is polled before
\* the counter goes down.
Drain ==
  /\ cpc = "drain"
  /\ \/ /\ next \notin buffer
        /\ cpc' = "recv"
        /\ UNCHANGED <<buffer, depth>>
     \/ /\ next \in buffer
        /\ buffer' = buffer \ {next}
        /\ IF watchdog = "tripped" THEN cpc' = "err" /\ UNCHANGED depth
           ELSE cpc' = "apply" /\ depth' = depth - 1
  /\ UNCHANGED <<workerVars, channel, skipped, next, nextHeight, sinkVars, main, watchdog>>

\* In bench the counter goes down first.
BenchDrain ==
  /\ cpc = "drain"
  /\ \/ /\ next \notin buffer
        /\ cpc' = "recv"
        /\ UNCHANGED <<buffer, depth>>
     \/ /\ next \in buffer
        /\ buffer' = buffer \ {next}
        /\ depth' = depth - 1
        /\ cpc' = IF watchdog = "tripped" THEN "err" ELSE "apply"
  /\ UNCHANGED <<workerVars, channel, skipped, next, nextHeight, sinkVars, main, watchdog>>

\* Mutant: the sink of the part that is over is dropped, not finished.
ApplyDropsPart ==
  /\ cpc = "apply" /\ NeedsSink
  /\ part' = PartOf(next)
  /\ rows' = (IF part' = part THEN rows ELSE {}) \cup {next}
  /\ files' = IF next + 1 >= End THEN Finished(files, part', rows') ELSE files
  /\ NextAfter(next, "drain")
  /\ UNCHANGED <<workerVars, channel, buffer, skipped, depth, main, watchdog>>

\* Mutant: `if let' instead of `while let': one block for each item received.
ApplyOneAtATime ==
  /\ cpc = "apply" /\ NeedsSink
  /\ part' = PartOf(next)
  /\ rows' = (IF part' = part THEN rows ELSE {}) \cup {next}
  /\ LET rotated == IF part' = part THEN files ELSE Finished(files, part, rows)
     IN  files' = IF next + 1 >= End THEN Finished(rotated, part', rows') ELSE rotated
  /\ NextAfter(next, "recv")
  /\ UNCHANGED <<workerVars, channel, buffer, skipped, depth, main, watchdog>>

\* Rotate the part file at a boundary, apply the block, push its rows, record
\* the height and go on to the next.  ParquetSink::create truncates.
ApplyOne ==
  /\ cpc = "apply" /\ NeedsSink
  /\ part' = PartOf(next)
  /\ rows' = (IF part' = part THEN rows ELSE {}) \cup {next}
  /\ LET rotated == IF part' = part THEN files ELSE Finished(files, part, rows)
     IN  files' = IF next + 1 >= End THEN Finished(rotated, part', rows') ELSE rotated
  /\ NextAfter(next, "drain")
  /\ UNCHANGED <<workerVars, channel, buffer, skipped, depth, main, watchdog>>

\* Without a sink there is nothing to rotate.
ApplyWithoutSink ==
  /\ cpc = "apply" /\ ~NeedsSink
  /\ NextAfter(next, "drain")
  /\ UNCHANGED <<workerVars, channel, buffer, skipped, depth, sinkVars, main, watchdog>>

\* One of those calls returns an error instead, and with it the consumer.
ApplyFails ==
  /\ cpc = "apply"
  /\ "apply_error" \in Faults
  /\ cpc' = "err"
  /\ UNCHANGED <<workerVars, channel, buffer, skipped, next, depth, nextHeight,
                 sinkVars, main, watchdog>>

\* Every sender is gone and the channel is empty before the range is complete.
ClosedEarly ==
  /\ cpc = "recv" /\ channel = <<>> /\ main = "join"
  /\ FinishSink
  /\ cpc' = "err"
  /\ UNCHANGED <<workerVars, channel, buffer, skipped, next, depth, nextHeight,
                 part, rows, main, watchdog>>

-----------------------------------------------------------------------------
(* The watchdog thread and the main thread.                                *)

Trip ==
  /\ "oom" \in Faults
  /\ watchdog = "watching" /\ main \in {"parse", "join"}
  /\ watchdog' = "tripped"
  /\ UNCHANGED <<workerVars, channel, consumerVars, sinkVars, main>>

\* Items in hand are finished; leaves not begun are dropped once an item failed.
PoolDone == \A w \in Worker : /\ wpc[w] = "seek"
                              /\ pool = "failed" \/ (work[w] = <<>> /\ deque[w] = <<>>)

\* drop(tx); parse_result?
CloseChannel ==
  /\ main = "parse" /\ PoolDone
  /\ main' = IF pool = "failed" THEN "err" ELSE "join"
  /\ UNCHANGED <<workerVars, channel, consumerVars, sinkVars, watchdog>>

\* consumer.join()
Join ==
  /\ main = "join" /\ cpc \in {"ok", "err"}
  /\ main' = cpc
  /\ UNCHANGED <<workerVars, channel, consumerVars, sinkVars, watchdog>>

-----------------------------------------------------------------------------
Rayon(w) == Split(w) \/ Pop(w) \/ Steal(w) \/ Begin(w)
WorkerStep(w) == \/ Rayon(w) \/ Gate(w) \/ Spin(w) \/ GateAborts(w)
                \/ ParseFails(w) \/ Send(w) \/ SendFails(w)

\* consume_ordered and bench_consume.
Apply == ApplyOne \/ ApplyWithoutSink \/ ApplyFails
ParseConsumer == Kind = "parse" /\ (CreateFails \/ Recv \/ SkipOne \/ SkipFails \/ Drain \/ Apply \/ ClosedEarly)
BenchConsumer == Kind # "parse" /\ (CreateFails \/ BenchRecv \/ BenchDrain \/ Apply \/ ClosedEarly)
Consumer == ParseConsumer \/ BenchConsumer

Main == CloseChannel \/ Join

\* run_parse has returned, and with it the process.
Returned == main \in {"ok", "err"}

Next == \/ /\ ~Returned
           /\ UNCHANGED scenario
           /\ (\E w \in Worker : WorkerStep(w)) \/ Consumer \/ Main \/ Trip
        \/ Returned /\ UNCHANGED vars

Spec == Init /\ [][Next]_vars

\* Every thread is scheduled; the watchdog need not trip, nor a call fail.
Fairness ==
  /\ \A w \in Worker : WF_vars(~Returned /\ WorkerStep(w) /\ UNCHANGED scenario)
  /\ WF_vars(~Returned /\ Consumer /\ UNCHANGED scenario)
  /\ WF_vars(~Returned /\ Main /\ UNCHANGED scenario)

FairSpec == Spec /\ Fairness

-----------------------------------------------------------------------------
(* Properties.                                                             *)

Elements(seqs) == UNION {Range(seqs[i]) : i \in DOMAIN seqs}

\* Where a height is: in a worker's leaf or deque, in the channel, with the
\* consumer, or behind it.
Places(h) ==
  {<<"work", w>> : w \in {v \in Worker : h \in Range(work[v])}}
    \cup {<<"deque", w>> : w \in {v \in Worker : h \in Elements(deque[v])}}
    \cup {<<p>> : p \in {q \in {"channel", "buffer", "skipped", "apply", "done"} :
           CASE q = "channel" -> h \in Range(channel)
             [] q = "buffer"  -> h \in buffer
             [] q = "skipped" -> h \in skipped
             [] q = "apply"   -> cpc = "apply" /\ h = next
             [] q = "done"    -> h < next}}

\* Until something fails, every height is in exactly one place: splitting,
\* stealing, sending and reordering neither lose a block nor deliver it twice.
EachHeightOnce ==
  pool = "running" /\ cpc # "err" => \A h \in Heights : Cardinality(Places(h)) = 1

\* The memory bound the code really has: beside the block it waits for, the
\* consumer buffers at most what is let through the watermark, plus a full
\* channel, plus one block in each worker's hands.  pipeline.rs:292-293 says of
\* the gate "This caps the consumer's BTreeMap at ~REORDER_HIGH parsed blocks",
\* HANDOFF.md:127 "max FullBlocks held in consumer's `BTreeMap`"; but the gate
\* reads a counter of received blocks, and those behind it are not counted yet.
BufferBound == Cardinality(buffer \ {next}) <= ReorderHigh + ChannelDepth + Cardinality(Worker)

\* A run that returns Ok has put the rows of every block that is not stale in
\* the part file of its height, and no rows elsewhere.
PartFilesComplete ==
  main = "ok" =>
    \A h \in Heights : {p \in DOMAIN files : h \in files[p]} =
                      IF NeedsSink /\ h \notin Orphan THEN {PartOf(h)} ELSE {}

\* run_parse comes to an end, with the range indexed or with an error: neither
\* the watermark nor the bounded channel nor an aborted consumer hangs it.
Terminates == <>Returned

\* No stale block, and nothing that fails: the watchdog may still trip.
Plain == Orphan = {} /\ Faults \subseteq {"oom"}

\* Then parse and bench both come to an end, wherever the watchdog trips.
PlainTerminates == Plain => <>Returned

\* And they fail only because the watchdog aborted them.
FailsOnlyIfTripped == Plain /\ main = "err" => watchdog = "tripped"

=============================================================================
