# A TLA+ model of bitcoindex

`bitcoindex` turns a Bitcoin Core node's `blk*.dat` files, and later its RPC
feed, into Parquet files, a RocksDB set of unspent outputs (UTXOs) and tables in
ClickHouse. This directory holds TLA+ modules for its components and for the
ways they interact, TLC configurations that check them on small instances, and
TLAPS proofs for every value of their constants. All paths below are relative
to the repository (`src/`).

## 1. The system

| Component | State | Operations | Interaction |
|---|---|---|---|
| blk reader and chain index, `crates/bidx-parser/src/blkfile.rs`, `chain.rs` | file bytes, XOR key; header map | discover files, walk records, decode, build the best chain | files of a node that may be running |
| Transaction and block parser, `tx.rs`, `bidx-core/src/cursor.rs`, `script.rs`, `types.rs` | cursor, rows | `parse_block_full`, `parse_tx`, `classify_script` | called by workers and by the tracker |
| Bulk pipeline, `crates/bidx-cli/src/pipeline.rs` | Rayon's leaves, bounded channel, reorder buffer, skipped heights, two shared atomics | parse a height, gate, send; receive, skip, drain, apply, rotate | threads over a channel and atomics; the blk-file cache; the watchdog |
| Benchmark, `bench/mod.rs` | as the pipeline, without stale blocks | trials, one after another on one store | the same workers, a consumer of its own |
| Shared blk-file cache, `pipeline.rs` | LRU list under a mutex, map under a lock | `block_bytes`, `touch` | all workers |
| RSS watchdog, `bench/mod.rs` | one flag | trips once | polled by workers and consumer |
| UTXO store, `crates/bidx-store/src/utxo.rs` | default CF: outpoint to value, type, creation height; CF `undo`: height to spent and created outputs; CF `meta`: tip; in bulk mode an in-memory `RecentUtxoCache` | `apply_block`, `disconnect_block`, `set_tip`, `tip` | called by the consumer of the bulk pipeline and by the live tracker; one write batch per call |
| Live tracker, `crates/bidx-live/src/tracker.rs` | locals of `catch_up`; the rest is in the store | `run`, `catch_up`, `live_loop` | RPC to the node, ZMQ notifications from it, events to `run_live` |
| Node client and ZMQ, `node.rs`, `zmqsub.rs` | none; a bounded socket queue | `getblockcount`, `getblockhash`, `getblock`, `getchaintips`; blocking receive | the node |
| Parquet sink, `parquet_writers.rs` | row buffers and five writers per part | `create`, `push_*`, `finish` | bulk consumer, live sink |
| Live sink, `live.rs` | open part | `rotate_if_needed`, `write_block` | callback of the tracker |
| Disk guard, `diskguard.rs`, `disk.rs` | checkpoint file | append, read, project, pre-flight | consumer and `run_live`; one file for several networks |
| Loader, `bidx-loader` | ClickHouse tables | `init_schema`, `load_all` | reads the sink's files through an external client |

What is hard here, and hard to test:

* the live tracker makes several RPC calls and several durable writes per
  block; the node may reorganise, and the process may die, between any two;
* the undo log must describe exactly the set each batch was computed on;
* the bulk pipeline's workers wait for the consumer (watermark), the consumer
  waits for one particular worker (the next height), both may abort, and stale
  heights take a different path through the consumer;
* notifications are dropped at a high-water mark and one failure of
  `catch_up` must not lose the wake-up for good;
* a bulk store keeps no log: after a crash it is some older set, and the same
  range is then parsed on top of it;
* part files are truncated when they are created and readable only when they
  are finished, and restarts, reorganisations and loads meet them at any moment;
* the blk files are read while the node writes them, and the node is asked about
  stale blocks later than its files were read.

What makes each component correct: the index stands at a block of the node's
chain and holds exactly the UTXO set consensus gives it (tracker and store);
every record of the undo log reverts its block; every height goes through the
pipeline once, in order, with bounded memory, and the run ends; the part files
of a run that reports success are complete; a cache never changes an answer; a
range may be parsed again; the chain is the one with the most work and every
location in it can be read back; a block is parsed to its rows or refused.
`PROJECT.json` lists the hazards one by one, each at its line.

## 2. Modules

| Module | Models |
|---|---|
| `UtxoStore` | the column families as functions; the effect of each write batch |
| `UtxoStoreProofs` | lemmas on the batches; `RevertUndoesConnect`, `ConnectIsConsensus` |
| `BlockTree` | (external) the blocks a node may serve, their bodies and consensus UTXO sets, as constants with assumptions |
| `ChainIndex` | abstract specification: stand at a block, hold its set, move one block up or down |
| `LiveTracker` | `run`, `catch_up`, `live_loop` over `UtxoStore`, with the node, the socket queue and crashes; EXTENDS `BlockTree` |
| `LiveSink` | the tracker composed with the Parquet sink its events feed |
| `LiveSinkProofs` | the inductive invariant and the theorems on the tracker; the composition implements it; rows, parts and holes |
| `BulkStore`, `BulkStoreProofs` | the store in bulk mode: passes, trials, `RecentUtxoCache`, flushes and crashes; the cache and the replay for every chain |
| `ParsePipeline`, `ParsePipelineProofs` | the bulk pipeline and the benchmark's, their consumers and the watchdog; conservation of heights, part files, the buffer's bound |
| `FileCache`, `FileCacheProofs` | the blk-file cache the workers share; list lemmas, inductive invariant and bounds |
| `Warehouse`, `WarehouseProofs` | Parquet sink under successive passes, and the loader beside it; what files and tables hold |
| `Columns` | the Arrow schemas of the files and the columns of the tables |
| `DiskGuard`, `DiskGuardProofs` | checkpoint file, recorder, regression and pre-flight; what of the recorded checkpoints can be lost |
| `HeaderPass` | blk files a node writes, the reader, the chain index, the stale set |
| `BlockParser`, `Script`, `UtxoCodec` | cursor and parser on real bytes; script classification; encodings of the store |
| `DecodingProofs` | node, reader, best chain and stale set of `HeaderPass` for every tree and every write; the addresses of `Script` |
| `MC*` | instances for TLC |

### UtxoStore

An outpoint is a hash commitment to the output it names, so value and script
are functions of it (`Value`); what an entry of the set adds is the creation
height, and that is what `utxo` holds. A body is a sequence of transactions
`[ins, outs]`. `Pending`, `DbHits`, `Missing` are what the maps and counters of
`apply_block` are when its input loop is over: an input is answered by the
outputs of the same block first, then by the database, or is missing. `Connect`
and `UndoOf` are the two halves of its one batch. As every operation ends in one
synchronous batch, each is one change of state. `Unspent` is not code: it is the
consensus rule the batches are compared with. RocksDB I/O errors and
undecodable values are not modelled.

### LiveTracker and LiveSink

`pc` says which call of `catch_up` comes next; the remaining variables are its
locals, `mode` (ZMQ or polling) and `caller` (whether an error leaves the
process or only the loop's turn).

| Action | Code |
|---|---|
| `Start` | `run_live` up to `tracker.run`; the subscription exists before the first `catch_up` |
| `Wake` | a notification received, or 2 s of polling over |
| `Count`, `Seed` | lines 101 to 117: `getblockcount`, stored tip, seeding from the node |
| `Probe` | 123 to 146: compare hashes, genesis, depth limit; an RPC error counts as a mismatch |
| `Disconnect`, `ParentHash`, `StepBack` | 147 to 177: undo, the node's hash one below, marker |
| `Forward`, `Fetch`, `Apply`, `Advance` | 179 to 219 |
| `Fail`, `Return`, `Exit` | how an error, a normal return and the end of the process look from `run` and `live_loop` |
| `NodeMove`, `Crash` | (external) the node takes another best block and publishes it; the process is killed |

A failed `getblock` and a block that does not parse take the same path (`?`),
so `Fetch` stands for both. The marker holds height and hash; the model's tip is
the block, as every caller passes a matching pair.

`LiveSink` adds the callback. `AdvanceEmits` is `Advance` with its event; while
`event` is set, the tracker's thread is in the callback and only the node moves:
`WriteBlock` (rotate, then rows), `WriteFails` (each call of the sink may fail, is
warned of and forgotten), `SinkPanics` (the `expect` at line 77, which a failed
rotation followed by a block of the old part reaches). A part is the set of
blocks whose rows it has, readable once finished. Starting opens the part of the
next block and truncates it.

`Env` names the adversities a run allows, so that one module serves the runs
that hold and the ones that show a failure. Always possible: the chain grows at
any moment, and moves to a branch that leaves the index at most one block off
while the tracker is idle.

### BulkStore

Passes over ranges, each `Open` ... `Close` or `Crash`, one after another on one
database; a benchmark's trials repeat a range without leaving the process. `utxo`
is memtable and files together, `disk` the files: a `Crash` goes back to `disk`.
`apply_block` is `Spend` (the input loop, which takes hits out of the cache),
one `Insert` per surviving output, in any order since `pending` is a hash map, one
`Evict` per turn of `evict_to_budget`, and `Write`. The chain may create an
outpoint again, as two coinbases of mainnet do. `RepeatAssumption` says that only
outpoints like these are repeated: a coinbase cannot be spent in its own block, so
what is spent in the block that creates it is created nowhere else. Without it
parsing a range again would not converge: a repeated output that is spent within
its block is never looked up in the database, and the old entry would stay.

### ParsePipeline

Heights `Start..End-1`. Rayon is external: a leaf that has not begun may be
halved, a worker takes its own newest leaf or steals another's oldest, a leaf is
folded from the left, and after an error no further item is begun. The worker
closure is `Gate` or `Spin` or `GateAborts`, then `Send`, `SendFails` or
`ParseFails`. The consumer is one step per iteration of its loops: `Recv`,
`SkipOne`, `Drain`, `ApplyOne` (rotation, apply, rows, recorder and the
`next_height` store in one step, as only the last is visible to another thread).
`CreateFails`, `SkipFails` and `ApplyFails` are the `?` of the consumer: the first
sink cannot be created, the recorder or the last `finish` fails on a skipped height,
or any call made for a block does.
A block is its height, and it is a `Skipped` item if the height is in `Orphan`.
`scenario` says which command runs: `parse`, or `bench` with or without a sink,
whose consumer lowers the counter before it polls the watchdog (`BenchDrain`)
and treats a skipped item as an error.
`depth` and `nextHeight` are the relaxed atomics. Each has one writer that
matters to the gate and is read on its own; the model reads them in one step,
and the loop re-reads both until it passes, so the pair read is at most stale by
one consumer step, which shifts when the gate opens and not whether it does.

### FileCache

`block_bytes` is `Lookup`, then on a miss `Open` (or `OpenFails`) and `Insert`,
then `Touch` and `Read`: one step per critical section, none of them atomic with
the next. `ParsePipeline` abstracts the call into its parse step; here it is taken
apart. A `Copy` is one decoded file. It stays in memory while the map or a worker
holds its `Arc`, so `Alive` counts what RSS counts: a copy evicted while it is
read, and the two copies of a file that two workers miss at once.

The comments at lines 406 to 414 say that `resident()` never exceeds
`MAX_CACHED_FILES`. That is so between calls; while workers are between insert and
touch it may be above by one for each of them, and `ResidentBound` and
`MemoryBound` state the bounds that hold at every moment.

### Warehouse and Columns

Two processes and a directory. A pass creates its five writers one by one, pushes
rows into buffers of `BatchSize`, and finishes: flush each, close each. It may end
between any two of these. A block has any number of rows in an entity, none
included (`RowsPer`), and the same in every pass: that a pass on a set without some
prevouts writes fewer `spends` is the subject of `BulkStore`. The loader runs one `INSERT ... SELECT` per entity; a
part without a footer makes it fail. Tables are bags, since `MergeTree` keeps
duplicates: `Inserted` adds to the count of a row the number of its `Occurrences`
in the files read. `Columns` holds both schemas, column by column in order, and
`ColumnsAlign` says that the position at which `SELECT *` delivers a field is the
position of its column. A stale height is a `Skip`. For each call of `load_all`,
`held` keeps the files it found and `upto` the entity it got to: history variables,
which `LoadsAddUp` speaks of.

### DiskGuard

The checkpoint file, appended by the recorders of two networks in processes of
their own. `writeln!` on a `File` that is not buffered is a write per piece of the
format string, so `Write` puts down one piece: the word `network` with its space, a
name, a number, a space, the end of a line. `open` is the line without end, as
words; whatever the processes put on it is parsed as one line (`Line`), numbers
without a space between them as one number. A write that is cut off leaves the first
digits of a number or a word nobody knows, or nothing, and no end of the line, so
that the next is glued to it. Each network has its own node and so its own `Tip`. An
index does not shrink when blocks are applied again, so its size is that of the
highest block it has held (`grown`). `linreg` and `projected_total_bytes` are exact
fractions where the code has `f64`.

### HeaderPass, BlockParser, Script, UtxoCodec

`HeaderPass` scales bytes to cells: magic, length and header take one cell each,
and the XOR key has two. The node (external) starts a record, in a preallocated
file or not, and writes it cell by cell; the reader discovers the files, scans
them one by one, builds the chain and asks for chain tips, the node writing on
between any two steps. The loops of the reader are `Iterate` over one round of
their body (`walk_round`, `iter_next`), for as many rounds as there can be records.
`cum_work` is a recursive function; the code's explicit stack computes the same. Work
is an integer, `(0xffff << 208) / target` scaled.

`BlockParser` works on real bytes and widths: `Serialize` makes the payload of a
sample block, the parser reads it back one element per step, and every short
block is also cut at every length. `dsha256` and `hash160` are opaque injections.
`Script` is `classify_script`, `UtxoCodec` the encodings of values, keys, varints
and undo records. The two halves share no state and one instance, `MCDecoding`.

## 3. Runs

| Run | Expect | Properties | What it shows |
|---|---|---|---|
| `tracker_safety` | pass | `TypeOK`, `IndexMatchesTip`, `UndoLogExact`, `AppliesOnTip`, `FeesExact`, `CaughtUpExact`, `ImplementsIndex`, `NoHoles` | in a benign environment set, undo log and marker agree at every step, and part files have no holes, but for one window |
| `tracker_adversity` | pass | `RowsInTheirPart`, `CatchUpTerminates` | every adversity at once: `catch_up` still ends, rows stay in their part |
| `tracker_liveness` | pass | `CatchesUp` | no wake-up is lost, through crashes and restarts |
| `tracker_deep_reorg` | violation | `CaughtUpExact` | two-block reorganisation |
| `pipeline` | pass | `TypeOK`, `EachHeightOnce`, `BufferBound`, `PartFilesComplete`, `FailsOnlyIfTripped`, `PlainTerminates` | parse and bench, with stale heights, trips and errors |
| `pipeline_orphan_hang` | violation | `Terminates` | an early `Skipped` item and a full buffer |
| `file_cache` | pass | `TypeOK`, `EveryFileEvictable`, `ResidentBound`, `MemoryBound` | concurrent misses and evictions keep memory bounded and lose no file to the list |
| `bulk_store` | pass | `CacheAgrees`, `CacheTransparent`, `CacheBound`, `ReplayConverges`, `MissingOnlyFromBelow`, `RepeatMissesAll` | the cache never shows; parsing a range again repairs exactly that range, whatever a crash left |
| `loader` | pass | `PartsAgree`, `FirstLoadExact`, `LoadsAddUp` | part files agree wherever a pass ended; a first load is exact, and how often a row is in its table after failed and repeated ones |
| `disk_guard` | pass | `LossBounded`, `KeptBySomeone`, `SteadyGrowthStartsFromTwo`, `ProjectsAtLeastMean` | what a network can rely on in a file of its own, what is kept in a shared one, and what the projection makes of it |
| `disk_guard_first` | violation | `SteadyGrowthStarts` | a single checkpoint |
| `decoding` | pass | `ChainBest`, `ChainReadable`, `RetainedActive`, `ParseExact`, `AddressNamesScript`, `CodecExact` | best chain from files that are being written; parsing whole and cut blocks; encodings |

The violation runs are disagreements between the code and what its own comments,
tests or documents say of it; `findings` in `PROJECT.json` quotes both sides. In
short: the walk back stops after one block, because it compares the node's hash
with itself; the pipeline's two loops can starve each other; and with a single
checkpoint the regression takes the size for the slope.

Six further findings are tied to runs that pass: the property states what the code
does, and a comment or a document says something else of it.

* `AppliesOnTip`: HANDOFF.md (83-84) describes a `reorg_guard` that compares
  `header.prev_hash` with the stored tip. There is none; the property holds while the
  node stays on its branch during `catch_up`, and only then.
* `BufferBound`: HANDOFF.md (92-93, 127) and pipeline.rs (64, 292-293) say that the
  gate caps the reorder buffer at about `REORDER_HIGH`, 32 blocks. It is read before
  a block is parsed and sent, so the channel's 512 and one block per worker come on
  top. `Cardinality(buffer) <= ReorderHigh + 1` is violated in the instance of
  `pipeline`, whose buffer reaches three blocks with a watermark of one.
* `RepeatMissesAll`: bench/mod.rs (304-307) expects fewer missing spends on later
  trials. They miss every output the range spends from below, and a first trial can
  miss no other.
* `LoadsAddUp`: the repository's README (225) says that a failed load retries
  cleanly. It begins again with the first entity, and every row inserted before the
  failure is then in its table twice.
* `KeptBySomeone`: disk.rs (162-163, 191, 212) and the repository's README (197)
  promise a section per network. A network that has one appends to the end of the
  file, under whichever section is last, so its points may be read as another's; that
  they are not lost altogether is all that is left. If two processes write at once,
  not even that, as their lines may be glued.
* `ChainReadable`: blkfile.rs (165-167) and PERF.md (344-346) say that a record
  partially written is excluded by the walk. The walk looks at magic and length; in a
  preallocated file these may be there before the body is, so the record is included
  and its block may be in the chain. The property says how much of it may be
  missing. A body of zeros, in a file that is not obfuscated, parses as a block
  without transactions.

Two passages are merely out of date: HANDOFF.md (69-71, 106-108) and the fixture's
comment in blkfile.rs (545-549) still describe trimming zeros from the raw bytes,
which the record walk has replaced (blkfile.rs 78-88, PERF.md).

`NoHoles` has an exception of its own. A crash after `set_tip` and before
`write_block` loses the event: the block is indexed and no later process emits
it. Mostly the restart creates the part again and its beginning is gone as a whole,
which is no hole. But a block that takes the place of another in a part finished
before the reorganisation leaves the rows of the block it replaced, and for good if
it is the last of its part (`LostInCrash`). The property says that this is the only
way, and that even then the part has rows at that height.

Five further weaknesses of the tracker and the pipeline can be seen by changing a
constant of a run:

* `crash_apply` added to `Env` of `tracker_safety` violates `UndoLogExact`: a
  block whose batch was written and whose marker was not is applied again, and
  its second undo record has no spent outputs.
* `crash_disconnect` added to `tracker_liveness` violates `CatchesUp`: the undo
  record is consumed and the marker still names the block, so every later start
  fails on the missing record. The window is also open to a failing RPC call at
  line 171 (`parent_error`); `tracker_adversity` includes both.
* `race` in `tracker_safety` violates `AppliesOnTip`: a reorganisation during the
  forward loop, of which nothing compares `prev_hash`.
* `gap` in `tracker_safety` violates `CaughtUpExact`: the first start adopts the
  node's tip and skips what the bulk parse did not see.
* a scenario of `pipeline_orphan_hang` with `parse_error` and no stale block
  violates `Terminates`: a worker errs at the height the consumer waits for and
  the others are held back, as only the watchdog's flag is polled in the gate.

Each property of a passing run has a mutant: a changed definition (a dropped
guard, a missing removal, an off-by-one) under which TLC finds that property
violated with the same configuration. They are defined next to what they change
and marked `Mutant`.

### Bounds

* The tree of `MCLiveTracker` has three branches, parting at height 0 and 1,
  three blocks deep, with a same-block spend, a spend of an older output and a
  transaction confirmed again on another branch at another height; the depth of
  reorganisation is limited by the tree. Parts of two blocks, and of three in
  `tracker_safety`, make rotations and reorganisations across a boundary happen;
  with three a part can be finished, reopened in its middle and lose a block that
  is not its first. `tracker_adversity` uses the
  four-block subtree, which still has one block to lose above and one below
  `Base`.
* `MaxReorgDepth` is 1 in `tracker_safety`, so that its limit is reached by
  repeated RPC errors, and 2 elsewhere; `ZmqHwm` of 1 or 2 makes the queue
  overflow.
* `pipeline`: two workers, seven heights, watermark 1, channel of 1, parts of
  three heights: the gate closes, the channel fills, leaves are split twice and
  stolen, and the range crosses a part boundary. With these numbers the buffer
  could hold five blocks ahead of `next` if the gate were gone, against a bound of
  four.
* `file_cache`: two workers and four files for a cache of two: both may miss the
  same file, one is evicted while the other worker inserts or reads it, and both
  bounds are reached. Five copies are one more than can be alive at once, so
  `Open` never lacks one. Workers, files and copies are symmetric. More workers
  are left to the proof.
* `bulk_store`: four blocks with an outpoint created twice unspent, one created
  again after it was spent, and a same-block spend; a cache of two entries, so
  that eviction meets dead keys. Passes are not bounded in number: the state
  space is finite.
* `loader`: three heights in parts of two, a batch of two rows against one row
  per block in one entity and none, two and one in the other, so that a batch ends
  inside a block and at its end; two
  passes and two loads (`MaxPasses`, `MaxLoads`), so that a load fails and is run
  again; two of the five entities. `ColumnsAlign` is about all five.
* `disk_guard`: three checkpoints of a network that grows steadily and one of
  another whose index is large, so that misfiled points make the sizes fall; one
  cut-off write, two starts (`MaxTears`, `MaxStarts`). Heights have two digits and the
  largest number read has three: two heights in one word are not a number, a cut
  height and the next are, as with the code's widths.
* `decoding`: four blocks, two tips with equal work, five records (`MaxRecords`)
  in files of nine cells (`FileCap`), so that a second file and a duplicate record
  are reached; keys of zero, of two different cells and none. No cell of a key
  equals a magic word or a length that ends a record where none ends. Five
  sample blocks with every script type and its near misses, all cuts of those
  below 400 bytes; TLC's integers limit amounts that are computed with to 2^31,
  larger ones are compared as bytes.

Deadlock is not checked in `loader`, `disk_guard` and `decoding`: their processes
end.

### Fairness

`LiveSink`: weak fairness of the tracker's thread as a whole, callback included,
and of `StartLive`: a process that exits is started again by its operator or
supervisor, as the documentation's resume behaviour expects; crashes, RPC errors
and movements of the node are never forced. `CatchesUp` assumes that the node and
the crashes come to rest. `ParsePipeline`: weak fairness of every worker, of the
consumer and of the main thread; the operating system schedules them all, and a
thread that spins in the gate takes real (stuttering) steps. The watchdog may
trip or not.

## 4. Proofs

`UtxoStoreProofs`:

* `RevertUndoesConnect`: for every set, height and body whose outputs are new to
  the set, `disconnect_block` with the record `apply_block` wrote restores the set
  entry for entry. This is why same-block spends are taken out of `created` and
  never put in `spent`.
* `ConnectIsConsensus`: for every valid body the batch computes `Unspent`.

`LiveSinkProofs`, on the tracker, for every tree, depth limit and queue length:

* `TypeCorrect`, with no assumption on `Env`: the types, among them
  `disconnects <= MaxReorgDepth`;
* under `SafeEnv` (RPC errors except in the window after a disconnect, crashes
  outside the two windows, and reorganisations of blocks the bulk parse
  indexed): `IndexExact`, `UndoExact`, `AppliesOnTipHolds`, `FeesExactHolds`,
  `CaughtUpExactHolds`, `TrackerImplementsIndex`.

`IndexMatchesTip` speaks of idle states only and is not inductive. `IInv`
strengthens it with `TypeInv`; `NodeNear` (the index is at most one block off the
node's chain, which is what makes one disconnect enough); `LocalsInv` (for each
`pc`, how `local`, `fetched` and `tip` relate: after a disconnect the node's hash
one below is the parent of the stored tip, in the forward loop `fetched` is a child
of it and on the node's branch); `SetInv` (the set is that of `At`, the block the
store really stands at between a batch and its marker); and `UndoLogExact`.
There is one step per action. `ChainIndex` is implemented with `at <- At`,
`coins <- utxo`.

`LiveSinkProofs`, on the tracker with its sink:

* `SinkKeepsTracker`: `LiveSpec => Spec`, so that all of the above holds of the
  composition. It needs `EventInv`: an event is pending only at `pc = "forward"`,
  and a running process is without an open part only after an error, so that the
  panic of the callback is a crash the tracker allows for.
* `RowsInTheirPartHolds`, for every `Env` and part length. `PlacedInv` states it of
  the rows not yet finished and of the files separately.
* `NoHolesHolds`, under `SafeEnv`, for every tree and part length. `HolesInv` separates the open part (`OpenInv`: no hole but the pending
  event) from the finished ones (`FinishedInv`: none but a lost block), and adds
  `HeightsInv`: a finished part has rows at every height from its first up to the
  index and one further. That is what makes the lost block's place be taken by the
  one it replaced, and it is where a reorganisation that reopens a part needs that
  heights of a part are an interval.

The assumptions are those of `BlockTree` (a tree; `Branch` its paths; each
`Ledger` follows from its parent's by `Unspent`; bodies spend what exists and
create what is new) and the ranges of the bounds. TLC evaluates them on every
tracker run.

`FileCacheProofs`, for every number of workers, files and cached files:
`TypeCorrect`, `EvictableHolds`, `ResidentBoundHolds`, `MemoryBoundHolds`.
`EveryFileEvictable` is not inductive: that a file is about to be touched says
nothing of which copy the toucher holds. `MapBacked` adds that it holds the very
copy in the map, which is also what makes `MemoryBound` count no copy twice. `IInv`
adds `ListBound` (no duplicates, at most `MAX_CACHED_FILES`; hence the file touched
is never the one evicted) and `HoldsCopy`. The bounds then follow by counting: the
map lies within the list and the files of the touching workers, the copies within
the listed ones and the workers' hands. Assumed: a finite set of workers and a
capacity of at least one.

`BulkStoreProofs`, for every chain, budget and sequence of passes, trials, flushes
and crashes: `CacheAgreesHolds`, `CacheTransparentHolds`, `CacheBoundHolds`,
`ReplayConvergesHolds`, `MissingOnlyFromBelowHolds`, `RepeatMissesAllHolds`.

* `CoreInv` carries the first two. In the middle of a block the cache is ahead of
  the database for what is published and behind it for what is about to be
  overwritten, so `AgreeInv` distinguishes the two for each entry, and `LoopInv` fixes
  what the input loop computed: hits of the cache plus hits of the database are
  the hits of the database alone.
* `BoundInv`: every entry is queued, and the queue is at most the entries plus the
  hits, since only a hit leaves a dead key.
* `ReplayInv` says of every outpoint touched since the pass began that the store
  has it as `Ledger[next]` has; `OriginInv` (what is stored was left unspent by the
  block that created it) with `RepeatAssumption` covers outputs spent in their own
  block. `BelowInv`, `GoneInv` and `RepeatInv` follow the missing inputs of a pass
  and of a later trial block by block.

`ParsePipelineProofs`, for every range, pool, watermark, channel, part length, set of
stale heights and scenario: `PipelineTypes`, `EachHeightOnceHolds`,
`FailsOnlyIfTrippedHolds`, `PartFilesCompleteHolds`, `BufferBoundHolds`.

* `FlowInv`: leaves at hand, deques, channel and consumer have no height in common
  (`PoolApart`, `ApartInv`), and have them all while nothing has failed (`CoverInv`).
  Splitting and stealing move heights inside the pool, `Send` and `Recv` from one
  place to the next.
* `PlainInv` then excludes every error but a trip: while a height is missing a
  worker has it, so the channel is not closed too early.
* `RowsInv`: open sink and finished files together have the applied heights, each in
  its part, and parts behind the open one are finished.
* `BufferBound` cannot be shown of the buffer: a worker that passed the gate delivers
  later. `PassedInv` bounds what has passed the gate as a whole (buffer, channel,
  hands) beside the height waited for. A worker passes when the buffer is within
  the watermark, and by then channel and other hands hold at most their capacity;
  every later move stays within the bounded set.

`DiskGuardProofs`, for every number of networks, starts and cut-off writes:
`LossBoundedHolds`, `KeptBySomeoneHolds`, `ProjectsAtLeastMeanHolds`,
`SteadyGrowthStartsFromTwoHolds`. All rest on `FileInv`: the types, and that the line
without end is the last of the file and reads as its words do.

* `LossBounded` is not inductive, since the loss comes one or two lines after the
  cut. `AloneInv` counts what is lost not of the points read but of those whose line
  is not being written (`LostFirm`), and adds `Debt`, what the last cut may still cost:
  two while a line without end waits for the next to be glued to it, one while a
  line is being written that was glued, or whose section was. `SoleInv` says how the
  line without end may look after each piece (`Shape`): a section of nobody, under which
  all later points would be lost, is never completed.
* `KeptBySomeone` needs `Tidy`: without a cut and a line begun within another, at most
  one process is within a line, and that line is its own; who writes a point has a
  section; every recorded height stands under the section of some network.
* `ProjectsAtLeastMean` needs of the writers only `FileInv`: it is about any lines.
  Its premise is the code's: each network projects to the tip of its own node, and a
  point that is not its own may be above that.
* The last section of a file exists by the well-foundedness of `<` on the naturals
  in its set form (`WFMin`), which needs no operator parameter. `NatSetInduction` and
  `SubsetInduction` are induction in the same form: a set with 0 that is closed under
  successor has every natural number, a family of finite sets with the empty one that
  is closed under adding an element has every finite set. With them a fold can be
  reasoned about: `SumExists` builds its value layer by layer, `SumIsSum` states what
  the sums of `linreg` satisfy.
* `DenomPositive` is the Cauchy-Schwarz inequality for the heights, by induction over
  the subsets of the points: zero exactly if all points have the same height. With it
  `LineAboveMean`: at a height above all points a line through the mean with a slope
  that is not negative is not below the mean, truncation of the quotients included.
* `SteadyGrowthStartsFromTwo` needs `OwnInv`: without a cut, a network alone in the file
  reads back only points of its own sizes, and no height twice, and has recorded its
  highest block or is about to. So the denominator is not zero, slope and intercept come
  out without remainder (`SteadyLine`), and the projection is the size at the tip.

`WarehouseProofs`, for all entities, rows per block, batch and part sizes, passes and
loads: `PartsAgreeHolds`, `LoadsAddUpHolds`, `FirstLoadExactHolds`.

* `SinkInv` says that there is a set of blocks which, for every entity, is exactly
  what row groups and column builders together have of the open part, plus the
  rows of the block at hand that come before `k` and `i`. `FilesInv` adds that where one
  entity has a file of a part each has one, with or without a footer: it is why a
  part that can be read for one entity and not for another makes the load fail
  rather than miss rows.
* `LoadInv`: during a load without a writer, no file of an entity that is done lacks
  its footer (`Closed`). `FirstInv` states the exact counts of the first load, `LogInv` the
  bounds of every count in terms of what each load found and how far it got: a load
  that goes on past an entity adds exactly one copy of each row its files have, one
  that fails in it at most one. That
  a file holds a row at most once (`CountFacts`) is `PartsAgree` and that a height
  belongs to one part. The columns are compared one by one.

Assumed: the ranges of the constants, and that `Entities` is a sequence without
duplicates. Nothing is assumed of the number of rows: blocks without any in an
entity are why `Present`, on which the counts rest, speaks of rows and not of heights.

`DecodingProofs`, for every finite tree of blocks with any bodies and targets, every
key, file size, preallocation and number of records, and every interleaving of node
and reader: `ChainBestHolds`, `ChainReadableHolds`, `RetainedActiveHolds`. The
inductive invariant `PassInv` has one part for each side and one for the scan.

* `NodeInv` says what is on disk at any moment. In `Files`, each file has the cells of
  its records one behind the other up to `Written`, and zeros behind; only the last
  record of the last file may be incomplete, by the cells in `pending`. `BeginStep` and
  `WriteStep` keep it through a record begun, a file cut and a new one begun, and a
  cell written into padding or at the end.
* `DecodeFacts` turns that into what the reader sees through the key. A loop that
  advances by three cells or rests is at rest after a third as many rounds as there are
  cells (`LoopRest`), which is why bounding the rounds loses nothing. `WalkFacts`: the
  walk ends exactly behind the last record if all are whole, and never before a whole one;
  `WalkPast`: it goes beyond a record that is not whole if its length is there and the file
  is long enough for it.
  `PositionFacts`: the iterator is at the start of a record or behind all that is
  written, so that what it makes of a record half written cannot be taken for a block
  the node has not begun. `ScanFacts` and `OpenFacts` put the two together.
* `ReadInv`: every block in the header map has the place of one of its records, and the
  record is `Legible`: whole, or in a preallocated file and lacking at most its body.
  That a file without preallocation ends where the node has written to (`PlainInv`)
  is what excludes the others. Places are never reused and a record only becomes more
  complete (`LegibleKept`), so `ChainReadable` follows of every later state of the files.
* `ScanInv`: until the node writes, the map has exactly the blocks of the files scanned.
  The cumulative work is then that of the block's whole chain or none (`CumWorkFacts`),
  the walk back its path (`WalkBackFacts`), and there is a best tip because a genesis
  block is on disk and the blocks are finitely many (`BestFacts`).
* `RetainedActive` rests on `BranchFacts`, that walking down `branch_len` headers from a
  tip gives exactly its branch, and on `LeafAbove`, that a known block is below some leaf.

`Ancestors`, `TotalWork`, `cum_work`, `walk_back` and `Iterate` are recursive functions:
that each satisfies its equation is proved by building a solution rank by rank
(`TreeRecursion`), with a property as a set and the body of the recursion as a function.
Assumed: a finite forest with a bounded height (`BlockAssumption`); that XOR is undone by
itself, and that a cell never written decodes to neither a magic word nor a header
somebody mined (`CellAssumption`). The last could fail only for a random key that
equals a magic word or a header that is nothing but key, which nobody meets.

`AddressNamesOneScript`, in the same module, is the fact behind `AddressNamesScript` for
scripts of every length: each test fixes the bytes that are not stored, and for witness
programs the type fixes version and length, so that the padding hides nothing.

Model-checked only:

* liveness: `CatchesUp`, `CatchUpTerminates`, `Terminates`, `PlainTerminates`;
* `ParseExact`, `AddressNamesScript` and `CodecExact`: that a parser or a codec gives
  back what was serialised is an induction over its input, and the sums over a block
  are folds whose operator is a parameter. Of `AddressNamesScript`, the part that is
  about scripts rather than about the parser is proved;
* the runs with findings, `SteadyGrowthStarts` among them: they show a violation.

## 5. Plan

Done: the modules and runs above, and the proofs of every safety property but the
three just listed. Worth having still: the round trip of one value and one key in
`UtxoCodec`, which needs the powers of 256 spelled out for the provers.

## 6. Not modelled

* Command line, timing, metrics and report formatting: no state that another part
  reads.
* HTTP, JSON, authentication, ZMQ framing, memory mapping, Parquet encoding and
  RocksDB's tuning: libraries and I/O behind calls that succeed or fail.
* SHA-256 and RIPEMD-160, which are opaque injections here.
* `Network::detect_from_blocks_dir` (`disk.rs` 79 to 101), one stateless read. It
  takes the first magic word as it is on disk, so an obfuscated directory is taken
  for the default network.
* Table engines, partitions and codecs of the ClickHouse schema. The derived
  tables of `schema.rs` appear only as tables that nothing fills: no statement of
  the loader inserts into them.
* `f64` rounding in the cumulative work and in the regression.
* Witness programs of unknown versions: the address bytes drop the version and
  what is beyond 32 bytes, so different scripts share them; `AddressNamesScript`
  is about the types that have addresses.
* A chain whose genesis block is not on disk (a pruned node) has no header with
  cumulative work and ends in `NoRecords`; the branch for truncated history in the
  walk back is never taken.
