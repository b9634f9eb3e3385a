----------------------------- MODULE BulkStore ------------------------------
(***************************************************************************)
(* The UTXO store in bulk mode, as `bidx parse' and `bidx bench' drive it: *)
(* passes over ranges of heights, one after another on the same database,  *)
(* each in a process of its own or, for the trials of one benchmark, in    *)
(* the same.  A write goes to the memtable without WAL, so that a process  *)
(* killed in mid-pass loses what RocksDB had not flushed; no undo record   *)
(* and no tip marker is written.                                           *)
(*                                                                         *)
(* A store opened with open_cached answers spends from RecentUtxoCache     *)
(* first.  The input loop, each c.insert, each turn of evict_to_budget and *)
(* the batch are steps, in the order of apply_block; the order in which    *)
(* `pending' is published is that of a hash map, that is, any.             *)
(*                                                                         *)
(* A benchmark here is one of mode full or utxo with --utxo; without that  *)
(* option its database is a directory of its own.                          *)
(*                                                                         *)
(* Unlike BlockTree, the chain may create an outpoint again, as mainnet    *)
(* does below the height of BIP34; the later output replaces an unspent    *)
(* earlier one.                                                            *)
(***************************************************************************)
EXTENDS UtxoStore, Sequences

CONSTANTS Tip,           \* tip_height of the chain index
          Body,          \* height -> the transactions of its block
          Ledger,        \* n -> the UTXO set of the first n blocks
          CacheEntries   \* budget_bytes / CACHE_ENTRY_COST

ASSUME ChainAssumption ==
  /\ Tip \in Nat
  /\ \A h \in 0..Tip :
       /\ Body[h] \in [DOMAIN Body[h] -> Tx]
       /\ Spent(Body[h]) \subseteq DOMAIN Ledger[h] \cup Created(Body[h])
       /\ Spent(Body[h]) \cap Created(Body[h]) \cap DOMAIN Ledger[h] = {}
  /\ Ledger = [n \in 0..(Tip + 1) |-> Ledger[n]]
  /\ \A n \in 0..(Tip + 1) : IsUtxoSet(Ledger[n])
  /\ DOMAIN Ledger[0] = {}
  /\ \A h \in 0..Tip :
       Ledger[h + 1] = Put(Restrict(Ledger[h], DOMAIN Ledger[h] \ Spent(Body[h])),
                           [o \in Created(Body[h]) \ Spent(Body[h]) |-> h])

\* Only coinbases have ever been repeated, and no coinbase is spent in its own
\* block: an outpoint spent in the block that creates it is created once.
ASSUME RepeatAssumption ==
  \A g, h \in 0..Tip :
    g # h => Created(Body[g]) \cap Created(Body[h]) \cap Spent(Body[h]) = {}

ASSUME BudgetAssumption == CacheEntries \in Nat

VARIABLES disk,      \* the set as it is in SST files
          pc,        \* "down", "ready" (between blocks) or "publish"
          mode,      \* "parse", "bench" or "bench_allow" (--allow-missing-utxos)
          later,     \* a trial of a benchmark that is not its first
          first, end, next,  \* the range of the pass, and the block it is at
          cached,    \* opened with open_cached
          map, order, hits,  \* RecentUtxoCache
          pending,   \* outputs of the block not spent in it
          deleted,   \* prevouts the batch deletes
          unpublished,       \* outputs not yet inserted in the cache
          spends,    \* SpendRows of the block: prevout -> spent_height
          missing    \* <<height, prevout>> counted in `missing' during the pass

passVars == <<mode, later, first, end>>
cacheVars == <<map, order, hits>>
blockVars == <<pending, deleted, unpublished, spends>>
vars == <<storeVars, disk, pc, passVars, next, cached, cacheVars, blockVars, missing>>

EmptySet == [o \in {} |-> 0]

Init ==
  /\ utxo = EmptySet /\ disk = EmptySet
  /\ undo = EmptySet /\ tip = NoTip
  /\ pc = "down" /\ mode = "parse" /\ later = FALSE
  /\ first = 0 /\ end = 0 /\ next = 0
  /\ cached = FALSE
  /\ map = EmptySet /\ order = <<>> /\ hits = 0
  /\ pending = {} /\ deleted = {} /\ unpublished = {}
  /\ spends = EmptySet /\ missing = {}

-----------------------------------------------------------------------------
(* A pass begins and ends.                                                 *)

\* RecentUtxoCache::new
NewCache == map' = EmptySet /\ order' = <<>> /\ hits' = 0

\* --start and --end, brought into the range of the index; an empty range is
\* an error.
Clamped(start, stop) == [first |-> Min({start, Tip}), end |-> Min({stop, Tip + 1})]

\* Only a benchmark has --utxo-cache-mb.
HasCache(m, c) == c /\ m # "parse"

\* open_with, or open_cached where the command has a cache.  A start above the
\* tip is taken for the tip.
Open(start, stop, m, c) ==
  LET range == Clamped(start, stop)
  IN  /\ pc = "down"
      /\ range.first < range.end
      /\ first' = range.first /\ end' = range.end /\ next' = range.first
      /\ mode' = m /\ later' = FALSE
      /\ cached' = HasCache(m, c)
      /\ NewCache
      /\ missing' = {}
      /\ pc' = "ready"
      /\ UNCHANGED <<storeVars, disk, blockVars>>

Complete == pc = "ready" /\ next = end

\* The store is dropped, which flushes it.
Close ==
  /\ Complete
  /\ disk' = utxo
  /\ pc' = "down"
  /\ UNCHANGED <<storeVars, passVars, next, cached, cacheVars, blockVars, missing>>

\* A trial that found outputs missing is an error, unless told to accept that.
TrialAccepted == mode = "bench_allow" \/ (mode = "bench" /\ missing = {})

\* run_bench goes on to the next trial, which opens the store again.
NextTrial ==
  /\ Complete
  /\ TrialAccepted
  /\ disk' = utxo
  /\ next' = first
  /\ later' = TRUE
  /\ NewCache
  /\ missing' = {}
  /\ UNCHANGED <<storeVars, pc, mode, first, end, cached, blockVars>>

\* RocksDB flushes its memtable.
Flush ==
  /\ pc # "down"
  /\ disk # utxo
  /\ disk' = utxo
  /\ UNCHANGED <<storeVars, pc, passVars, next, cached, cacheVars, blockVars, missing>>

\* The pass ends in an error, or the process is killed: what was not flushed is
\* lost.
Crash ==
  /\ pc # "down"
  /\ utxo' = disk
  /\ pc' = "down"
  /\ UNCHANGED <<undo, tip, disk, passVars, next, cached, cacheVars, blockVars, missing>>

-----------------------------------------------------------------------------
(* apply_block.                                                            *)

\* Inputs neither this block's outputs nor the cache answer.
CacheHits(txs) == IF cached THEN (Spent(txs) \ Created(txs)) \cap DOMAIN map ELSE {}
DbReads(txs) == (Spent(txs) \ Created(txs)) \ CacheHits(txs)

\* Mutant: RecentUtxoCache::remove leaves the entry in the cache.
remove_keeps(keys) == map

\* RecentUtxoCache::remove, for the keys that hit.  Their place in `order' stays.
remove(keys) == Delete(map, keys)

\* Mutant: only what the cache answered is deleted.
BatchDeletesHits(cacheHits, found) == cacheHits

\* batch.delete, for an answer of the cache and one of the database.
BatchDeletes(cacheHits, found) == cacheHits \cup found

\* The input loop: same-block outputs first, then the cache, which gives its
\* entry up, then the database.
Spend ==
  /\ pc = "ready" /\ next < end
  /\ LET txs == Body[next]
         found == DbReads(txs) \cap DOMAIN utxo
     IN  /\ pending' = Pending(txs)
         /\ deleted' = BatchDeletes(CacheHits(txs), found)
         /\ unpublished' = IF cached THEN Pending(txs) ELSE {}
         /\ spends' = Put([o \in Spent(txs) \cap Created(txs) |-> next],
                          Put(Restrict(map, CacheHits(txs)), Restrict(utxo, found)))
         /\ missing' = missing \cup {<<next, o>> : o \in DbReads(txs) \ found}
         /\ map' = remove(CacheHits(txs))
         /\ hits' = hits + Cardinality(CacheHits(txs))
  /\ pc' = "publish"
  /\ UNCHANGED <<storeVars, disk, passVars, next, cached, order>>

\* evict_to_budget has nothing to do, or nothing left to do it with.
WithinBudget == Cardinality(DOMAIN map) <= CacheEntries \/ order = <<>>

\* Mutants: an outpoint resident already is left alone; it is queued once more.
RefreshedNot(o) == Put([k \in {o} |-> next], map)
QueuedAgain(o) == Append(order, o)

\* An outpoint already resident is refreshed and not queued again.
Refreshed(o) == PutOne(map, o, next)
Queued(o) == IF o \in DOMAIN map THEN order ELSE Append(order, o)

\* c.insert for one output.
Insert(o) ==
  /\ pc = "publish" /\ WithinBudget
  /\ o \in unpublished
  /\ unpublished' = unpublished \ {o}
  /\ map' = Refreshed(o)
  /\ order' = Queued(o)
  /\ UNCHANGED <<storeVars, disk, pc, passVars, next, cached, hits, pending, deleted,
                 spends, missing>>

\* One turn of evict_to_budget.  The key may be one a spend has removed since.
Evict ==
  /\ pc = "publish" /\ ~WithinBudget
  /\ map' = Delete(map, {Head(order)})
  /\ order' = Tail(order)
  /\ UNCHANGED <<storeVars, disk, pc, passVars, next, cached, hits, blockVars, missing>>

\* Mutant: what the cache holds is not put.
BatchUncached == Put(Delete(utxo, deleted), [o \in pending \ DOMAIN map |-> next])

\* The set once the batch is written.
Batch == Put(Delete(utxo, deleted), [o \in pending |-> next])

\* write_opt with disable_wal: in the memtable only.
Write ==
  /\ pc = "publish" /\ WithinBudget /\ unpublished = {}
  /\ utxo' = Batch
  /\ next' = next + 1
  /\ pc' = "ready"
  /\ UNCHANGED <<undo, tip, disk, passVars, cached, cacheVars, blockVars, missing>>

ApplyBlock == Spend \/ (\E o \in unpublished : Insert(o)) \/ Evict \/ Write

Begin == \E start, stop \in 0..(Tip + 2), c \in BOOLEAN,
             m \in {"parse", "bench", "bench_allow"} : Open(start, stop, m, c)

Next == Begin \/ ApplyBlock \/ Close \/ NextTrial \/ Flush \/ Crash

Spec == Init /\ [][Next]_vars

-----------------------------------------------------------------------------
(* Properties.                                                             *)

\* Every entry of the cache is the one the database has, or is about to have
\* from the batch of this block: a hit can never be a stale or a spent output.
CacheAgrees ==
  pc # "down" =>
    LET committed == IF pc = "publish" THEN Batch ELSE utxo
    IN  \A o \in DOMAIN map :
          IF o \in unpublished THEN o \in DOMAIN utxo
          ELSE o \in DOMAIN committed /\ map[o] = committed[o]

\* Whatever the cache answered, the prevouts the batch deletes, the rows it
\* reports and the inputs it counts as missing are those of a store without one.
CacheTransparent ==
  pc = "publish" =>
    LET txs == Body[next]
    IN  /\ deleted = DbHits(utxo, txs)
        /\ spends = Put([o \in Spent(txs) \cap Created(txs) |-> next],
                        Restrict(utxo, DbHits(utxo, txs)))
        /\ {o \in Outpoint : <<next, o>> \in missing} = Missing(utxo, txs)

\* Between blocks the cache is within its budget and every resident entry can be
\* evicted.  The queue is not within the budget: each hit may leave a dead key.
CacheBound ==
  pc = "ready" => /\ Cardinality(DOMAIN map) <= CacheEntries
                  /\ \A o \in DOMAIN map : \E i \in DOMAIN order : order[i] = o
                  /\ Len(order) <= Cardinality(DOMAIN map) + hits

\* Outpoints the blocks a..b-1 create or spend.
Touched(a, b) == UNION {Created(Body[h]) \cup Spent(Body[h]) : h \in a..(b - 1)}

\* Whatever the store held when the pass began (nothing, part of the range, all
\* of it, what a crash left), on every outpoint the pass has touched it now has
\* what consensus has after these blocks: a range may be parsed again.
ReplayConverges ==
  pc = "ready" =>
    \A o \in Touched(first, next) :
      /\ o \in DOMAIN utxo <=> o \in DOMAIN Ledger[next]
      /\ o \in DOMAIN utxo => utxo[o] = Ledger[next][o]

\* The inputs of the blocks a..b-1 that spend an output created below a.
FromBelow(a, b) ==
  {p \in (a..(b - 1)) \X Outpoint :
     p[2] \in Spent(Body[p[1]]) /\ \A g \in a..p[1] : p[2] \notin Created(Body[g])}

\* Only outputs created below the range can be missing: a pass from genesis
\* misses none, whatever the store held.
MissingOnlyFromBelow == pc = "ready" => missing \subseteq FromBelow(first, next)

\* A later trial of a benchmark finds every output the range spends from below
\* spent already, by the trial before: all of them are missing, but for the
\* outpoints the range itself creates again.  The comment in run_bench expects
\* 'fewer "missing" spends on later trials'; with MissingOnlyFromBelow, a first
\* trial misses no input that a later one does not, these outpoints excepted.
RepeatMissesAll ==
  pc = "ready" /\ later =>
    \A p \in FromBelow(first, next) :
      p \in missing \/ \E h \in first..(end - 1) : p[2] \in Created(Body[h])

=============================================================================
