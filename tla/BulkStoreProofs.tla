-------------------------- MODULE BulkStoreProofs ---------------------------
(***************************************************************************)
(* The bulk store for every chain, every cache budget and every sequence   *)
(* of passes, trials, flushes and crashes.                                 *)
(***************************************************************************)
EXTENDS BulkStore, UtxoStoreProofs, FiniteSetTheorems

Block == Body[next]

\* Types, the range of a pass, and a cache that is empty where there is none.
PassInv ==
  /\ pc \in {"down", "ready", "publish"}
  /\ first \in Nat /\ end \in Nat /\ next \in Nat
  /\ pc # "down" => first <= next /\ next <= end /\ end <= Tip + 1
  /\ pc = "publish" => next < end
  /\ IsUtxoSet(utxo) /\ IsUtxoSet(disk) /\ IsUtxoSet(map)
  /\ pc # "down" /\ ~cached => DOMAIN map = {}

\* What the input loop has computed when the outputs are published.
LoopInv ==
  pc = "publish" =>
    /\ pending = Pending(Block)
    /\ deleted = DbHits(utxo, Block)
    /\ unpublished \subseteq pending
    /\ ~cached => unpublished = {}

\* CacheAgrees, in the form in which steps preserve it.
AgreeInv ==
  /\ pc = "ready" => \A o \in DOMAIN map : o \in DOMAIN utxo /\ map[o] = utxo[o]
  /\ pc = "publish" =>
       \A o \in DOMAIN map :
         \/ o \in unpublished /\ o \in DOMAIN utxo
         \/ o \notin unpublished /\ o \in pending /\ map[o] = next
         \/ /\ o \notin pending /\ o \notin deleted
            /\ o \in DOMAIN utxo /\ map[o] = utxo[o]

CoreInv == PassInv /\ LoopInv /\ AgreeInv

-----------------------------------------------------------------------------
(* Facts about the chain and the operators.                                *)

LEMMA BodyTypes ==
  ASSUME NEW h \in 0..Tip
  PROVE  /\ Created(Body[h]) \subseteq Outpoint
         /\ Spent(Body[h]) \subseteq Outpoint
         /\ Body[h] \in [DOMAIN Body[h] -> Tx]
<1>1. Body[h] \in [DOMAIN Body[h] -> Tx]
  BY ChainAssumption
<1> QED BY <1>1 DEF Created, Spent, Tx

LEMMA MinOfTwo ==
  ASSUME NEW a \in Int, NEW b \in Int
  PROVE  Min({a, b}) \in {a, b} /\ Min({a, b}) <= a /\ Min({a, b}) <= b
<1>1. \E x \in {a, b} : \A y \in {a, b} : x =< y
  <2>1. CASE a <= b
    BY <2>1
  <2>2. CASE b <= a
    BY <2>2
  <2> QED BY <2>1, <2>2
<1> QED BY <1>1 DEF Min

\* The range of a pass is a range of heights the chain has.
LEMMA ClampedRange ==
  ASSUME NEW start \in 0..(Tip + 2), NEW stop \in 0..(Tip + 2)
  PROVE  /\ Clamped(start, stop).first \in Nat
         /\ Clamped(start, stop).end \in Nat
         /\ Clamped(start, stop).end <= Tip + 1
<1>1. Tip \in Int /\ Tip + 1 \in Int /\ Tip \in Nat /\ start \in Int /\ stop \in Int
  BY ChainAssumption
<1>2. Min({start, Tip}) \in {start, Tip}
  BY <1>1, MinOfTwo, Zenon
<1>3. Min({stop, Tip + 1}) \in {stop, Tip + 1} /\ Min({stop, Tip + 1}) <= Tip + 1
  BY <1>1, MinOfTwo, Zenon
<1> QED BY <1>1, <1>2, <1>3 DEF Clamped

\* The batch that is about to be written is that of apply_block in UtxoStore.
LEMMA BatchIsConnect ==
  ASSUME CoreInv, pc = "publish"
  PROVE  Batch = Connect(utxo, next, Block)
  BY DEF CoreInv, LoopInv, Batch, Connect

\* What the cache answers it answers for the database.
LEMMA HitsAreDbHits ==
  ASSUME CoreInv, pc = "ready", next < end
  PROVE  /\ CacheHits(Block) \subseteq DOMAIN utxo
         /\ CacheHits(Block) \cup (DbReads(Block) \cap DOMAIN utxo) = DbHits(utxo, Block)
         /\ DbReads(Block) \ DOMAIN utxo = Missing(utxo, Block)
<1>1. CacheHits(Block) \subseteq DOMAIN utxo
  BY DEF CoreInv, AgreeInv, CacheHits
<1>2. CacheHits(Block) \subseteq Spent(Block) \ Created(Block)
  BY DEF CacheHits
<1> QED BY <1>1, <1>2 DEF DbReads, DbHits, Missing

LEMMA DeleteType ==
  ASSUME NEW set, IsUtxoSet(set), NEW keys
  PROVE  /\ IsUtxoSet(Delete(set, keys))
         /\ DOMAIN Delete(set, keys) = DOMAIN set \ keys
         /\ \A o \in DOMAIN Delete(set, keys) : Delete(set, keys)[o] = set[o]
  BY DEF IsUtxoSet, Delete, Restrict

LEMMA EmptyType == IsUtxoSet(EmptySet) /\ DOMAIN EmptySet = {}
  BY DEF IsUtxoSet, EmptySet

-----------------------------------------------------------------------------
(* The core invariant.                                                     *)

LEMMA CoreInit == Init => CoreInv
<1> SUFFICES ASSUME Init PROVE CoreInv
  OBVIOUS
<1>1. /\ pc = "down" /\ later = FALSE /\ cached = FALSE
      /\ first = 0 /\ end = 0 /\ next = 0
      /\ utxo = EmptySet /\ disk = EmptySet /\ map = EmptySet
  BY DEF Init
<1>2. IsUtxoSet(utxo) /\ IsUtxoSet(disk) /\ IsUtxoSet(map)
  BY <1>1, EmptyType
<1> QED BY <1>1, <1>2 DEF CoreInv, PassInv, LoopInv, AgreeInv

LEMMA CoreOpen ==
  ASSUME CoreInv, Begin PROVE CoreInv'
<1>1. PICK start \in 0..(Tip + 2), stop \in 0..(Tip + 2), c \in BOOLEAN,
           m \in {"parse", "bench", "bench_allow"} : Open(start, stop, m, c)
  BY DEF Begin
<1>2. /\ first' \in Nat /\ end' \in Nat /\ end' <= Tip + 1
      /\ next' = first' /\ first' < end'
  BY <1>1, ClampedRange DEF Open
<1>3. /\ pc' = "ready" /\ map' = EmptySet
      /\ UNCHANGED <<utxo, disk, pending, deleted, unpublished>>
  BY <1>1 DEF Open, NewCache, storeVars, blockVars
<1>4. PassInv'
  <2>1. /\ IsUtxoSet(utxo)' /\ IsUtxoSet(disk)' /\ IsUtxoSet(map)' /\ DOMAIN map' = {}
    BY <1>3, EmptyType DEF CoreInv, PassInv
  <2> QED BY <1>2, <1>3, <2>1 DEF PassInv
<1> QED BY <1>3, <1>4, EmptyType DEF CoreInv, LoopInv, AgreeInv

LEMMA CoreSpend ==
  ASSUME CoreInv, Spend PROVE CoreInv'
<1>1. /\ pc = "ready" /\ next < end /\ pc' = "publish"
      /\ pending' = Pending(Block)
      /\ deleted' = CacheHits(Block) \cup (DbReads(Block) \cap DOMAIN utxo)
      /\ unpublished' = IF cached THEN Pending(Block) ELSE {}
      /\ map' = Delete(map, CacheHits(Block))
      /\ UNCHANGED <<utxo, disk, first, end, later, next, cached>>
  BY DEF Spend, Block, BatchDeletes, remove, storeVars, passVars
<1>2. deleted' = DbHits(utxo, Block)
  BY <1>1, HitsAreDbHits
<1>3. /\ IsUtxoSet(map') /\ DOMAIN map' = DOMAIN map \ CacheHits(Block)
      /\ \A o \in DOMAIN map' : map'[o] = map[o]
  <2>1. IsUtxoSet(map)
    BY DEF CoreInv, PassInv
  <2>2. map' = Delete(map, CacheHits(Block))
    BY <1>1
  <2>3. PICK keys : keys = CacheHits(Block)
    OBVIOUS
  <2>4. map' = Delete(map, keys)
    BY <2>2, <2>3
  <2>5. /\ IsUtxoSet(map') /\ DOMAIN map' = DOMAIN map \ keys
        /\ \A o \in DOMAIN map' : map'[o] = map[o]
    BY <2>1, <2>4 DEF IsUtxoSet, Delete, Restrict
  <2> QED BY <2>3, <2>5
<1>4. PassInv'
  BY <1>1, <1>3 DEF CoreInv, PassInv
<1>5. LoopInv'
  BY <1>1, <1>2 DEF LoopInv, Block
<1>6. AgreeInv'
  <2>1. \A o \in DOMAIN map : o \in DOMAIN utxo /\ map[o] = utxo[o]
    BY <1>1 DEF CoreInv, AgreeInv
  <2>2. CASE cached
    <3>1. \A o \in DOMAIN map' : o \notin Pending(Block) => o \notin DbHits(utxo, Block)
      BY <1>3, <2>2 DEF CacheHits, DbHits
    <3> QED BY <1>1, <1>2, <1>3, <2>1, <2>2, <3>1 DEF AgreeInv
  <2>3. CASE ~cached
    BY <1>1, <1>3, <2>3 DEF CoreInv, PassInv, AgreeInv
  <2> QED BY <2>2, <2>3
<1> QED BY <1>4, <1>5, <1>6 DEF CoreInv

LEMMA CoreInsert ==
  ASSUME CoreInv, NEW o \in unpublished, Insert(o) PROVE CoreInv'
<1>1. /\ pc = "publish" /\ pc' = "publish"
      /\ unpublished' = unpublished \ {o}
      /\ map' = PutOne(map, o, next)
      /\ UNCHANGED <<utxo, disk, first, end, later, next, cached, pending, deleted>>
  BY DEF Insert, Refreshed, storeVars, passVars
<1>2. o \in pending /\ o \in Outpoint /\ cached
  <2>1. next \in 0..Tip
    BY <1>1, ChainAssumption DEF CoreInv, PassInv
  <2>2. o \in Pending(Block) /\ cached
    BY <1>1 DEF CoreInv, PassInv, LoopInv
  <2> QED BY <1>1, <2>1, <2>2, BodyTypes DEF CoreInv, LoopInv, Pending, Block
<1>3. /\ IsUtxoSet(map') /\ DOMAIN map' = DOMAIN map \cup {o} /\ map'[o] = next
      /\ \A k \in DOMAIN map \ {o} : map'[k] = map[k]
  <2>1. next \in Nat /\ IsUtxoSet(map)
    BY DEF CoreInv, PassInv
  <2>2. map' = PutOne(map, o, next)
    BY <1>1
  <2> QED BY <1>2, <2>1, <2>2 DEF PutOne, Put, IsUtxoSet
<1>4. PassInv'
  BY <1>1, <1>2, <1>3 DEF CoreInv, PassInv
<1>5. LoopInv'
  BY <1>1, <1>2 DEF CoreInv, LoopInv, Block
<1>6. AgreeInv'
  BY <1>1, <1>2, <1>3 DEF CoreInv, AgreeInv
<1> QED BY <1>4, <1>5, <1>6 DEF CoreInv

LEMMA CoreEvict ==
  ASSUME CoreInv, Evict PROVE CoreInv'
<1>1. /\ pc = "publish" /\ pc' = "publish"
      /\ map' = Delete(map, {Head(order)})
      /\ UNCHANGED <<utxo, disk, first, end, later, next, cached, pending, deleted, unpublished>>
  BY DEF Evict, storeVars, passVars, blockVars
<1>2. /\ IsUtxoSet(map') /\ DOMAIN map' = DOMAIN map \ {Head(order)}
      /\ \A k \in DOMAIN map' : map'[k] = map[k]
  <2>1. IsUtxoSet(map)
    BY DEF CoreInv, PassInv
  <2>2. map' = Delete(map, {Head(order)})
    BY <1>1
  <2> QED BY <2>1, <2>2 DEF Delete, Restrict, IsUtxoSet
<1>3. PassInv'
  BY <1>1, <1>2 DEF CoreInv, PassInv
<1>4. LoopInv' /\ AgreeInv'
  BY <1>1, <1>2 DEF CoreInv, LoopInv, AgreeInv, Block
<1> QED BY <1>3, <1>4 DEF CoreInv

LEMMA CoreWrite ==
  ASSUME CoreInv, Write PROVE CoreInv'
<1>1. /\ pc = "publish" /\ pc' = "ready" /\ unpublished = {}
      /\ utxo' = Batch /\ next' = next + 1
      /\ UNCHANGED <<disk, first, end, later, cached, map>>
  BY DEF Write, passVars, cacheVars
<1>2. utxo' = Connect(utxo, next, Block)
  BY <1>1, BatchIsConnect
<1>3. next \in 0..Tip /\ next \in Nat
  BY <1>1, ChainAssumption DEF CoreInv, PassInv
<1>4. IsUtxoSet(utxo')
  BY <1>2, <1>3, BodyTypes, ConnectType DEF CoreInv, PassInv, Block
<1>5. PassInv'
  BY <1>1, <1>3, <1>4, ChainAssumption DEF CoreInv, PassInv
<1>6. \A o \in DOMAIN map : o \in DOMAIN Batch /\ map[o] = Batch[o]
  BY <1>1 DEF CoreInv, LoopInv, AgreeInv, Batch, Put, Delete, Restrict
<1> QED BY <1>1, <1>5, <1>6 DEF CoreInv, LoopInv, AgreeInv

LEMMA CoreStep == CoreInv /\ [Next]_vars => CoreInv'
<1> SUFFICES ASSUME CoreInv, [Next]_vars PROVE CoreInv'
  OBVIOUS
<1>1. CASE Close \/ Crash
  <2>1. pc' = "down" /\ IsUtxoSet(utxo') /\ IsUtxoSet(disk')
        /\ UNCHANGED <<later, first, end, next, cached, map>>
    BY <1>1 DEF CoreInv, PassInv, Close, Crash, storeVars, passVars, cacheVars
  <2> QED BY <2>1 DEF CoreInv, PassInv, LoopInv, AgreeInv
<1>2. CASE NextTrial
  <2>1. /\ pc = "ready" /\ pc' = "ready" /\ map' = EmptySet /\ next' = first
        /\ later' = TRUE /\ disk' = utxo
        /\ UNCHANGED <<utxo, first, end, cached>>
    BY <1>2 DEF NextTrial, Complete, NewCache, storeVars
  <2>2. PassInv'
    BY <2>1, EmptyType DEF CoreInv, PassInv
  <2> QED BY <2>1, <2>2, EmptyType DEF CoreInv, LoopInv, AgreeInv
<1>3. CASE Flush
  <2>1. /\ disk' = utxo
        /\ UNCHANGED <<pc, utxo, first, end, next, later, cached, map, pending, deleted,
                       unpublished>>
    BY <1>3 DEF Flush, storeVars, passVars, cacheVars, blockVars
  <2> QED BY <2>1 DEF CoreInv, PassInv, LoopInv, AgreeInv, Block
<1>4. CASE UNCHANGED vars
  <2>1. UNCHANGED <<pc, utxo, disk, first, end, next, later, cached, map, pending, deleted,
                    unpublished>>
    BY <1>4 DEF vars, storeVars, passVars, cacheVars, blockVars
  <2> QED BY <2>1 DEF CoreInv, PassInv, LoopInv, AgreeInv, Block
<1> QED BY <1>1, <1>2, <1>3, <1>4, CoreOpen, CoreSpend, CoreInsert, CoreEvict, CoreWrite
        DEF Next, ApplyBlock

LEMMA CoreHolds == Spec => []CoreInv
  BY CoreInit, CoreStep, PTL DEF Spec

\* A hit of RecentUtxoCache is never a stale or a spent output: after every
\* history of inserts, refreshes, evictions, spends, trials and restarts an
\* entry is what the database has, or is about to have from this block's batch.
THEOREM CacheAgreesHolds == Spec => []CacheAgrees
<1>1. CoreInv => CacheAgrees
  <2> SUFFICES ASSUME CoreInv, pc # "down" PROVE CacheAgrees
    BY DEF CacheAgrees
  <2>1. CASE pc = "ready"
    BY <2>1 DEF CoreInv, AgreeInv, LoopInv, CacheAgrees
  <2>2. CASE pc = "publish"
    BY <2>2 DEF CoreInv, AgreeInv, CacheAgrees, Batch, Put, Delete, Restrict
  <2> QED BY <2>1, <2>2 DEF CoreInv, PassInv
<1> QED BY <1>1, CoreHolds, PTL

-----------------------------------------------------------------------------
(* The cache is transparent.                                               *)

\* The rows and the misses of the block at hand are those of the database
\* alone; misses are of blocks the pass has come to.
ResultInv ==
  /\ missing \subseteq Nat \X Outpoint
  /\ pc = "ready" => \A p \in missing : p[1] < next
  /\ pc = "publish" =>
       /\ \A p \in missing : p[1] <= next
       /\ \A o \in Outpoint : <<next, o>> \in missing <=> o \in Missing(utxo, Block)
       /\ spends = Put([o \in Spent(Block) \cap Created(Block) |-> next],
                       Restrict(utxo, DbHits(utxo, Block)))

\* The answers of the cache and of the database add up to those of the database.
LEMMA SpendRowsAgree ==
  ASSUME CoreInv, pc = "ready", next < end
  PROVE  Put(Restrict(map, CacheHits(Block)), Restrict(utxo, DbReads(Block) \cap DOMAIN utxo))
           = Restrict(utxo, DbHits(utxo, Block))
<1>1. \A o \in CacheHits(Block) : o \in DOMAIN utxo /\ map[o] = utxo[o]
  BY DEF CoreInv, AgreeInv, CacheHits
<1>2. CacheHits(Block) \cup (DbReads(Block) \cap DOMAIN utxo) = DbHits(utxo, Block)
  BY HitsAreDbHits
<1> QED BY <1>1, <1>2 DEF Put, Restrict

LEMMA ResultSpend ==
  ASSUME CoreInv, ResultInv, Spend PROVE ResultInv'
<1>1. /\ pc = "ready" /\ next < end /\ pc' = "publish"
      /\ spends' = Put([o \in Spent(Block) \cap Created(Block) |-> next],
                       Put(Restrict(map, CacheHits(Block)),
                           Restrict(utxo, DbReads(Block) \cap DOMAIN utxo)))
      /\ missing' = missing \cup
           {<<next, o>> : o \in DbReads(Block) \ (DbReads(Block) \cap DOMAIN utxo)}
      /\ UNCHANGED <<utxo, next>>
  BY DEF Spend, Block, storeVars
<1>2. spends' = Put([o \in Spent(Block) \cap Created(Block) |-> next],
                    Restrict(utxo, DbHits(utxo, Block)))
  BY <1>1, SpendRowsAgree, Zenon
<1>3. missing' = missing \cup {<<next, o>> : o \in Missing(utxo, Block)}
  <2>1. DbReads(Block) \ (DbReads(Block) \cap DOMAIN utxo) = Missing(utxo, Block)
    BY <1>1, HitsAreDbHits
  <2> QED BY <1>1, <2>1
<1>4. next \in Nat /\ next \in 0..Tip
  BY <1>1, ChainAssumption DEF CoreInv, PassInv
<1>5. Missing(utxo, Block) \subseteq Outpoint
  BY <1>4, BodyTypes DEF Missing, Block
<1>6. missing' \subseteq Nat \X Outpoint
  BY <1>3, <1>4, <1>5 DEF ResultInv
<1>7. \A p \in missing' : p[1] <= next
  BY <1>1, <1>3, <1>4 DEF ResultInv
<1>8. \A o \in Outpoint : <<next, o>> \in missing' <=> o \in Missing(utxo, Block)
  BY <1>1, <1>3, <1>4 DEF ResultInv
<1> QED BY <1>1, <1>2, <1>6, <1>7, <1>8 DEF ResultInv, Block

LEMMA ResultStep == CoreInv /\ ResultInv /\ [Next]_vars => ResultInv'
<1> SUFFICES ASSUME CoreInv, ResultInv, [Next]_vars PROVE ResultInv'
  OBVIOUS
<1>1. CASE Begin \/ NextTrial
  <2>1. pc' = "ready" /\ missing' = {}
    BY <1>1 DEF Begin, Open, NextTrial, Complete
  <2> QED BY <2>1 DEF ResultInv
<1>2. CASE Close \/ Crash
  <2>1. pc' = "down" /\ missing' = missing
    BY <1>2 DEF Close, Crash
  <2> QED BY <2>1 DEF ResultInv
<1>3. CASE Write
  <2>1. /\ pc = "publish" /\ pc' = "ready" /\ missing' = missing /\ next' = next + 1
    BY <1>3 DEF Write
  <2>2. next \in Nat
    BY DEF CoreInv, PassInv
  <2>3. \A p \in missing : p[1] < next'
    BY <2>1, <2>2 DEF ResultInv
  <2> QED BY <2>1, <2>3 DEF ResultInv
<1>4. CASE Flush \/ Evict \/ (\E o \in unpublished : Insert(o)) \/ UNCHANGED vars
  <2>1. UNCHANGED <<pc, utxo, next, spends, missing>>
    BY <1>4 DEF Flush, Evict, Insert, vars, storeVars, blockVars
  <2> QED BY <2>1 DEF ResultInv, Block
<1> QED BY <1>1, <1>2, <1>3, <1>4, ResultSpend DEF Next, ApplyBlock

\* Whatever the cache holds and answers, the prevouts the batch deletes, the
\* SpendRows it reports and the inputs it counts as missing are those of a store
\* opened without a cache, for every budget, zero included.
THEOREM CacheTransparentHolds == Spec => []CacheTransparent
<1>1. Init => ResultInv
  BY DEF Init, ResultInv
<1>2. CoreInv /\ ResultInv => CacheTransparent
  <2> SUFFICES ASSUME CoreInv, ResultInv, pc = "publish" PROVE CacheTransparent
    BY DEF CacheTransparent
  <2>1. next \in 0..Tip
    BY ChainAssumption DEF CoreInv, PassInv
  <2>2. Missing(utxo, Block) \subseteq Outpoint
    BY <2>1, BodyTypes DEF Missing, Block
  <2> QED BY <2>2 DEF CoreInv, LoopInv, ResultInv, CacheTransparent, Block
<1> QED BY <1>1, <1>2, ResultStep, CoreHolds, PTL DEF Spec

-----------------------------------------------------------------------------
(* The cache is bounded.                                                   *)

Queue == {order[i] : i \in DOMAIN order}

\* Every resident entry is queued, and each hit leaves at most one dead key.
BoundInv ==
  /\ order \in Seq(Outpoint) /\ hits \in Nat
  /\ IsFiniteSet(DOMAIN map)
  /\ DOMAIN map \subseteq Queue
  /\ Len(order) <= Cardinality(DOMAIN map) + hits
  /\ pc = "ready" => Cardinality(DOMAIN map) <= CacheEntries

LEMMA BoundEmpty ==
  ASSUME map = EmptySet, order = <<>>, hits = 0 PROVE BoundInv
  BY FS_EmptySet, EmptyType, BudgetAssumption DEF BoundInv

LEMMA BoundSpend ==
  ASSUME CoreInv, BoundInv, Spend PROVE BoundInv'
<1> DEFINE H == CacheHits(Block)
<1>1. /\ pc = "ready" /\ pc' = "publish" /\ order' = order
      /\ map' = Delete(map, H)
      /\ hits' = hits + Cardinality(H)
  BY DEF Spend, Block, remove
<1>2. DOMAIN map' = DOMAIN map \ H
  BY <1>1 DEF Delete, Restrict
<1>3. H \subseteq DOMAIN map
  BY DEF CacheHits
<1> HIDE DEF H
<1>4. IsFiniteSet(H) /\ Cardinality(H) \in Nat
  BY <1>3, FS_Subset, FS_CardinalityType DEF BoundInv
<1>5. /\ IsFiniteSet(DOMAIN map') /\ Cardinality(DOMAIN map) \in Nat
      /\ Cardinality(DOMAIN map') \in Nat
  BY <1>2, FS_Subset, FS_CardinalityType DEF BoundInv
<1>6. Cardinality(DOMAIN map) = Cardinality(DOMAIN map') + Cardinality(H)
  <2>1. DOMAIN map = DOMAIN map' \cup H /\ DOMAIN map' \cap H = {}
    BY <1>2, <1>3
  <2>2. Cardinality(DOMAIN map' \cup H)
          = Cardinality(DOMAIN map') + Cardinality(H) - Cardinality(DOMAIN map' \cap H)
    BY <1>4, <1>5, FS_Union
  <2>3. Cardinality(DOMAIN map' \cap H) = 0
    BY <2>1, FS_EmptySet
  <2> QED BY <1>4, <1>5, <2>1, <2>2, <2>3
<1>7. Queue' = Queue
  BY <1>1 DEF Queue
<1>8. Len(order) \in Nat
  BY DEF BoundInv
<1> QED BY <1>1, <1>2, <1>4, <1>5, <1>6, <1>7, <1>8 DEF BoundInv

LEMMA BoundInsert ==
  ASSUME CoreInv, BoundInv, NEW o \in unpublished, Insert(o) PROVE BoundInv'
<1>1. /\ pc = "publish" /\ pc' = "publish" /\ hits' = hits
      /\ map' = PutOne(map, o, next)
      /\ order' = IF o \in DOMAIN map THEN order ELSE Append(order, o)
  BY DEF Insert, Refreshed, Queued
<1>2. DOMAIN map' = DOMAIN map \cup {o}
  BY <1>1 DEF PutOne, Put
<1>3. o \in Outpoint
  <2>1. next \in 0..Tip
    BY <1>1, ChainAssumption DEF CoreInv, PassInv
  <2> QED BY <1>1, <2>1, BodyTypes DEF CoreInv, LoopInv, Pending, Block
<1>4. Len(order) \in Nat /\ Cardinality(DOMAIN map) \in Nat
  BY FS_CardinalityType DEF BoundInv
<1>5. CASE o \in DOMAIN map
  <2>1. DOMAIN map' = DOMAIN map /\ order' = order
    BY <1>1, <1>2, <1>5
  <2> QED BY <1>1, <2>1 DEF BoundInv, Queue
<1>6. CASE o \notin DOMAIN map
  <2>1. order' = Append(order, o)
    BY <1>1, <1>6
  <2>2. /\ order' \in Seq(Outpoint) /\ Len(order') = Len(order) + 1
        /\ DOMAIN order' = 1..(Len(order) + 1) /\ DOMAIN order = 1..Len(order)
        /\ order'[Len(order) + 1] = o
        /\ \A i \in 1..Len(order) : order'[i] = order[i]
    BY <1>3, <2>1 DEF BoundInv
  <2>3. Queue \cup {o} \subseteq Queue'
    <3>1. \A i \in DOMAIN order : i \in DOMAIN order' /\ order'[i] = order[i]
      BY <1>4, <2>2
    <3>2. Len(order) + 1 \in DOMAIN order'
      BY <1>4, <2>2
    <3> QED BY <2>2, <3>1, <3>2 DEF Queue
  <2>4. IsFiniteSet(DOMAIN map') /\ Cardinality(DOMAIN map') = Cardinality(DOMAIN map) + 1
    BY <1>2, <1>6, FS_AddElement DEF BoundInv
  <2> QED BY <1>1, <1>2, <1>4, <2>2, <2>3, <2>4 DEF BoundInv
<1> QED BY <1>5, <1>6

LEMMA BoundEvict ==
  ASSUME BoundInv, Evict PROVE BoundInv'
<1>1. /\ pc = "publish" /\ pc' = "publish" /\ hits' = hits
      /\ order # <<>>
      /\ map' = Delete(map, {Head(order)})
      /\ order' = Tail(order)
  BY DEF Evict, WithinBudget
<1>2. DOMAIN map' = DOMAIN map \ {Head(order)}
  BY <1>1 DEF Delete, Restrict
<1>3. /\ order' \in Seq(Outpoint) /\ Len(order') = Len(order) - 1
      /\ DOMAIN order' = 1..(Len(order) - 1) /\ DOMAIN order = 1..Len(order)
      /\ \A i \in 1..(Len(order) - 1) : order'[i] = order[i + 1]
      /\ Head(order) = order[1]
      /\ Len(order) \in Nat /\ Len(order) >= 1
  BY <1>1 DEF BoundInv
<1>4. Queue \ {Head(order)} \subseteq Queue'
  <2> SUFFICES ASSUME NEW i \in 1..Len(order), order[i] # Head(order)
               PROVE  order[i] \in Queue'
    BY <1>3 DEF Queue
  <2>1. i - 1 \in 1..(Len(order) - 1) /\ i - 1 + 1 = i
    BY <1>3
  <2>2. order'[i - 1] = order[i]
    BY <1>3, <2>1
  <2> QED BY <1>3, <2>1, <2>2 DEF Queue
<1>5. Cardinality(DOMAIN map) \in Nat
  BY FS_CardinalityType DEF BoundInv
<1>6. /\ IsFiniteSet(DOMAIN map')
      /\ Cardinality(DOMAIN map') \in Nat
      /\ Cardinality(DOMAIN map') >= Cardinality(DOMAIN map) - 1
  <2>1. IsFiniteSet(DOMAIN map)
    BY DEF BoundInv
  <2>2. /\ IsFiniteSet(DOMAIN map \ {Head(order)})
        /\ Cardinality(DOMAIN map \ {Head(order)}) =
             IF Head(order) \in DOMAIN map THEN Cardinality(DOMAIN map) - 1
             ELSE Cardinality(DOMAIN map)
    BY <2>1, FS_RemoveElement
  <2>3. Cardinality(DOMAIN map') \in Nat
    BY <1>2, <2>2, FS_CardinalityType
  <2> QED BY <1>2, <1>5, <2>2, <2>3
<1>7. DOMAIN map' \subseteq Queue'
  BY <1>2, <1>4 DEF BoundInv
<1>8. hits \in Nat /\ Len(order) <= Cardinality(DOMAIN map) + hits
  BY DEF BoundInv
<1>9. Len(order') <= Cardinality(DOMAIN map') + hits'
  BY <1>1, <1>3, <1>5, <1>6, <1>8
<1> QED BY <1>1, <1>3, <1>6, <1>7, <1>8, <1>9 DEF BoundInv

LEMMA BoundWrite ==
  ASSUME BoundInv, Write PROVE BoundInv'
<1>1. pc' = "ready" /\ WithinBudget /\ UNCHANGED <<map, order, hits>>
  BY DEF Write, cacheVars
<1>2. Cardinality(DOMAIN map) <= CacheEntries
  <2>1. CASE order = <<>>
    <3>1. DOMAIN map = {}
      BY <2>1 DEF BoundInv, Queue
    <3> QED BY <3>1, FS_EmptySet, BudgetAssumption
  <2>2. CASE order # <<>>
    BY <1>1, <2>2 DEF WithinBudget
  <2> QED BY <2>1, <2>2
<1> QED BY <1>1, <1>2 DEF BoundInv, Queue

LEMMA BoundStep == CoreInv /\ BoundInv /\ [Next]_vars => BoundInv'
<1> SUFFICES ASSUME CoreInv, BoundInv, [Next]_vars PROVE BoundInv'
  OBVIOUS
<1>1. CASE Begin \/ NextTrial
  <2>1. map' = EmptySet /\ order' = <<>> /\ hits' = 0
    BY <1>1 DEF Begin, Open, NextTrial, NewCache
  <2>2. /\ IsFiniteSet(DOMAIN map') /\ Cardinality(DOMAIN map') = 0 /\ DOMAIN map' = {}
    BY <2>1, FS_EmptySet, EmptyType
  <2>3. order' \in Seq(Outpoint) /\ Len(order') = 0
    BY <2>1
  <2> QED BY <2>1, <2>2, <2>3, BudgetAssumption DEF BoundInv
<1>2. CASE Close \/ Crash \/ Flush \/ UNCHANGED vars
  <2>1. UNCHANGED <<map, order, hits>> /\ (pc' = "down" \/ pc' = pc)
    BY <1>2 DEF Close, Crash, Flush, vars, cacheVars
  <2> QED BY <2>1 DEF BoundInv, Queue
<1> QED BY <1>1, <1>2, BoundSpend, BoundInsert, BoundEvict, BoundWrite DEF Next, ApplyBlock

\* Between blocks RecentUtxoCache is within its budget, every resident entry is
\* in the eviction queue, and the queue holds at most one dead key for each hit:
\* that is all that bounds it.
THEOREM CacheBoundHolds == Spec => []CacheBound
<1>1. Init => BoundInv
  BY BoundEmpty DEF Init
<1>2. BoundInv => CacheBound
  BY DEF BoundInv, CacheBound, Queue
<1> QED BY <1>1, <1>2, BoundStep, CoreHolds, PTL DEF Spec

-----------------------------------------------------------------------------
(* A range may be parsed again.                                            *)

\* What the store holds some block has left unspent.
OriginInv ==
  \A o \in DOMAIN utxo \cup DOMAIN disk : \E h \in 0..Tip : o \in Pending(Body[h])

\* On what the pass has touched, the store is the ledger.
ReplayInv ==
  pc # "down" =>
    \A o \in Touched(first, next) :
      /\ o \in DOMAIN utxo <=> o \in DOMAIN Ledger[next]
      /\ o \in DOMAIN utxo => utxo[o] = Ledger[next][o]

LEMMA LedgerNext ==
  ASSUME NEW h \in 0..Tip
  PROVE  /\ DOMAIN Ledger[h + 1] = (DOMAIN Ledger[h] \ Spent(Body[h])) \cup Pending(Body[h])
         /\ \A o \in DOMAIN Ledger[h + 1] :
              Ledger[h + 1][o] = IF o \in Pending(Body[h]) THEN h ELSE Ledger[h][o]
<1>1. Ledger[h + 1] = Put(Restrict(Ledger[h], DOMAIN Ledger[h] \ Spent(Body[h])),
                          [o \in Created(Body[h]) \ Spent(Body[h]) |-> h])
  BY ChainAssumption
<1> QED BY <1>1 DEF Put, Restrict, Pending

LEMMA TouchedNext ==
  ASSUME NEW a \in Nat, NEW n \in Nat, a <= n
  PROVE  Touched(a, n + 1) = Touched(a, n) \cup Created(Body[n]) \cup Spent(Body[n])
<1>1. a..(n + 1 - 1) = (a..(n - 1)) \cup {n}
  OBVIOUS
<1> QED BY <1>1 DEF Touched

LEMMA TouchedNone ==
  ASSUME NEW a \in Nat PROVE Touched(a, a) = {}
<1>1. a..(a - 1) = {}
  OBVIOUS
<1> QED BY <1>1 DEF Touched

LEMMA OriginStep == CoreInv /\ OriginInv /\ [Next]_vars => OriginInv'
<1> SUFFICES ASSUME CoreInv, OriginInv, [Next]_vars PROVE OriginInv'
  OBVIOUS
<1>1. CASE Write
  <2>1. pc = "publish" /\ disk' = disk /\ utxo' = Batch
    BY <1>1 DEF Write
  <2>2. next \in 0..Tip
    BY <2>1, ChainAssumption DEF CoreInv, PassInv
  <2>3. DOMAIN utxo' \subseteq DOMAIN utxo \cup Pending(Body[next])
    BY <2>1 DEF CoreInv, LoopInv, Batch, Put, Delete, Restrict, Block
  <2> QED BY <2>1, <2>2, <2>3 DEF OriginInv
<1>2. CASE Begin \/ Spend \/ Evict \/ Close \/ NextTrial \/ Flush \/ Crash
           \/ (\E o \in unpublished : Insert(o)) \/ UNCHANGED vars
  <2>1. utxo' \in {utxo, disk} /\ disk' \in {utxo, disk}
    BY <1>2 DEF Begin, Open, Spend, Insert, Evict, Close, NextTrial, Flush, Crash, vars, storeVars
  <2> QED BY <2>1 DEF OriginInv
<1> QED BY <1>1, <1>2 DEF Next, ApplyBlock

\* An output spent in the block that creates it is not in the store.
LEMMA NotOfThisBlock ==
  ASSUME OriginInv, NEW h \in 0..Tip
  PROVE  Spent(Body[h]) \cap Created(Body[h]) \cap DOMAIN utxo = {}
<1> SUFFICES ASSUME NEW o \in Spent(Body[h]), o \in Created(Body[h]), o \in DOMAIN utxo
             PROVE  FALSE
  OBVIOUS
<1>1. PICK g \in 0..Tip : o \in Pending(Body[g])
  BY DEF OriginInv
<1>2. g # h
  BY <1>1 DEF Pending
<1> QED BY <1>1, <1>2, RepeatAssumption DEF Pending

LEMMA ReplayWrite ==
  ASSUME CoreInv, OriginInv, ReplayInv, Write PROVE ReplayInv'
<1>1. /\ pc = "publish" /\ pc' = "ready" /\ utxo' = Batch
      /\ next' = next + 1 /\ first' = first
  BY DEF Write, passVars
<1>2. next \in 0..Tip /\ first \in Nat /\ next \in Nat /\ first <= next
  BY <1>1, ChainAssumption DEF CoreInv, PassInv
<1>3. utxo' = Connect(utxo, next, Block)
  BY <1>1, BatchIsConnect
<1>4. /\ DOMAIN utxo' = (DOMAIN utxo \ Spent(Block)) \cup Pending(Block)
                          \cup (DOMAIN utxo \cap Created(Block))
      /\ \A o \in DOMAIN utxo' : utxo'[o] = IF o \in Pending(Block) THEN next ELSE utxo[o]
  BY <1>3 DEF Connect, Put, Delete, Restrict, DbHits, Pending
<1>5. /\ DOMAIN Ledger[next + 1] = (DOMAIN Ledger[next] \ Spent(Block)) \cup Pending(Block)
      /\ \A o \in DOMAIN Ledger[next + 1] :
           Ledger[next + 1][o] = IF o \in Pending(Block) THEN next ELSE Ledger[next][o]
  BY <1>2, LedgerNext DEF Block
<1>6. Spent(Block) \cap Created(Block) \cap DOMAIN utxo = {}
  BY <1>2, NotOfThisBlock DEF Block
<1>7. Touched(first, next)' = Touched(first, next) \cup Created(Block) \cup Spent(Block)
  BY <1>1, <1>2, TouchedNext DEF Block
<1>8. \A o \in Touched(first, next) :
        /\ o \in DOMAIN utxo <=> o \in DOMAIN Ledger[next]
        /\ o \in DOMAIN utxo => utxo[o] = Ledger[next][o]
  BY <1>1 DEF ReplayInv
<1>9. ASSUME NEW o \in Touched(first, next)'
      PROVE  /\ o \in DOMAIN utxo' <=> o \in DOMAIN Ledger[next + 1]
             /\ o \in DOMAIN utxo' => utxo'[o] = Ledger[next + 1][o]
  <2>1. CASE o \in Created(Block) \cup Spent(Block)
    BY <1>4, <1>5, <1>6, <2>1 DEF Pending
  <2>2. CASE o \notin Created(Block) \cup Spent(Block)
    BY <1>4, <1>5, <1>7, <1>8, <2>2 DEF Pending
  <2> QED BY <2>1, <2>2
<1> QED BY <1>1, <1>9 DEF ReplayInv

LEMMA ReplayStep == CoreInv /\ OriginInv /\ ReplayInv /\ [Next]_vars => ReplayInv'
<1> SUFFICES ASSUME CoreInv, OriginInv, ReplayInv, [Next]_vars PROVE ReplayInv'
  OBVIOUS
<1>1. CASE Begin \/ NextTrial
  <2>1. next' = first'
    BY <1>1 DEF Begin, Open, NextTrial
  <2>2. first' \in Nat
    BY CoreStep DEF CoreInv, PassInv
  <2>3. Touched(first, next)' = {}
    BY <2>1, <2>2, TouchedNone
  <2> QED BY <2>3 DEF ReplayInv
<1>2. CASE Close \/ Crash
  BY <1>2 DEF Close, Crash, ReplayInv
<1>3. CASE Spend \/ Evict \/ Flush \/ (\E o \in unpublished : Insert(o)) \/ UNCHANGED vars
  <2>1. UNCHANGED <<utxo, first, next>> /\ (pc' = "down" => pc = "down")
        /\ (pc = "down" => pc' = "down")
    BY <1>3 DEF Spend, Insert, Evict, Flush, vars, storeVars, passVars
  <2> QED BY <2>1 DEF ReplayInv, Touched
<1> QED BY <1>1, <1>2, <1>3, ReplayWrite DEF Next, ApplyBlock

LEMMA ReplayHolds == Spec => [](OriginInv /\ ReplayInv)
<1>1. Init => OriginInv /\ ReplayInv
  BY DEF Init, OriginInv, ReplayInv, EmptySet
<1> QED BY <1>1, OriginStep, ReplayStep, CoreHolds, PTL DEF Spec

\* A range may be parsed again on whatever the store holds: on every outpoint
\* the pass has touched the store then has what consensus has after its last
\* block, for every chain, every order of ranges and every crash before.
THEOREM ReplayConvergesHolds == Spec => []ReplayConverges
<1>1. ReplayInv => ReplayConverges
  BY DEF ReplayInv, ReplayConverges
<1> QED BY <1>1, ReplayHolds, PTL

-----------------------------------------------------------------------------
(* What is missing.                                                        *)

\* MissingOnlyFromBelow; in mid-block the block at hand is counted.
BelowInv ==
  /\ pc = "ready" => missing \subseteq FromBelow(first, next)
  /\ pc = "publish" => missing \subseteq FromBelow(first, next + 1)

LEMMA FromBelowGrows ==
  ASSUME NEW a \in Nat, NEW n \in Nat
  PROVE  FromBelow(a, n) \subseteq FromBelow(a, n + 1)
<1>1. a..(n - 1) \subseteq a..(n + 1 - 1)
  OBVIOUS
<1> QED BY <1>1 DEF FromBelow

LEMMA MissingAfterSpend ==
  ASSUME CoreInv, Spend
  PROVE  /\ pc = "ready" /\ pc' = "publish" /\ next \in 0..Tip
         /\ missing' = missing \cup {<<next, o>> : o \in Missing(utxo, Block)}
         /\ UNCHANGED <<utxo, first, end, next, later>>
<1>1. /\ pc = "ready" /\ next < end /\ pc' = "publish"
      /\ missing' = missing \cup
           {<<next, o>> : o \in DbReads(Block) \ (DbReads(Block) \cap DOMAIN utxo)}
      /\ UNCHANGED <<utxo, first, end, next, later>>
  BY DEF Spend, Block, storeVars, passVars
<1>2. DbReads(Block) \ (DbReads(Block) \cap DOMAIN utxo) = Missing(utxo, Block)
  BY <1>1, HitsAreDbHits
<1>3. next \in 0..Tip
  BY <1>1, ChainAssumption DEF CoreInv, PassInv
<1> QED BY <1>1, <1>2, <1>3

\* An input that is missing spends an output no block of the range has created.
LEMMA MissesAreFromBelow ==
  ASSUME CoreInv, ReplayInv, pc = "ready", next \in 0..Tip, NEW o \in Missing(utxo, Block)
  PROVE  <<next, o>> \in FromBelow(first, next + 1)
<1>1. first \in Nat /\ next \in Nat /\ first <= next
  BY DEF CoreInv, PassInv
<1>2. o \in Spent(Body[next]) /\ o \notin Created(Body[next]) /\ o \notin DOMAIN utxo
  BY DEF Missing, Block
<1>3. o \in Outpoint
  BY <1>2, BodyTypes
<1>4. o \in DOMAIN Ledger[next]
  BY <1>2, ChainAssumption
<1>5. o \notin Touched(first, next)
  BY <1>2, <1>4 DEF ReplayInv
<1>6. ASSUME NEW g \in first..next PROVE o \notin Created(Body[g])
  <2>1. CASE g = next
    BY <1>2, <2>1
  <2>2. CASE g # next
    <3>1. g \in first..(next - 1)
      BY <1>1, <2>2
    <3> QED BY <1>5, <3>1 DEF Touched
  <2> QED BY <2>1, <2>2
<1>7. <<next, o>> \in (first..(next + 1 - 1)) \X Outpoint
  BY <1>1, <1>3
<1> QED BY <1>2, <1>6, <1>7 DEF FromBelow

LEMMA BelowStep == CoreInv /\ ReplayInv /\ BelowInv /\ [Next]_vars => BelowInv'
<1> SUFFICES ASSUME CoreInv, ReplayInv, BelowInv, [Next]_vars PROVE BelowInv'
  OBVIOUS
<1>0. first \in Nat /\ next \in Nat
  BY DEF CoreInv, PassInv
<1>1. CASE Begin \/ NextTrial
  <2>1. pc' = "ready" /\ missing' = {}
    BY <1>1 DEF Begin, Open, NextTrial, Complete
  <2> QED BY <2>1 DEF BelowInv
<1>2. CASE Close \/ Crash
  BY <1>2 DEF Close, Crash, BelowInv
<1>3. CASE Spend
  <2>1. /\ pc = "ready" /\ pc' = "publish" /\ next \in 0..Tip
        /\ missing' = missing \cup {<<next, o>> : o \in Missing(utxo, Block)}
        /\ UNCHANGED <<first, next>>
    BY <1>3, MissingAfterSpend
  <2>2. missing \subseteq FromBelow(first, next + 1)
    BY <1>0, <2>1, FromBelowGrows DEF BelowInv
  <2>3. missing' \subseteq FromBelow(first, next + 1)
    BY <2>1, <2>2, MissesAreFromBelow
  <2> QED BY <2>1, <2>3 DEF BelowInv
<1>4. CASE Write
  BY <1>4 DEF Write, BelowInv, passVars
<1>5. CASE Evict \/ Flush \/ (\E o \in unpublished : Insert(o)) \/ UNCHANGED vars
  <2>1. UNCHANGED <<pc, first, next, missing>>
    BY <1>5 DEF Insert, Evict, Flush, vars, passVars
  <2> QED BY <2>1 DEF BelowInv
<1> QED BY <1>1, <1>2, <1>3, <1>4, <1>5 DEF Next, ApplyBlock

LEMMA BelowHolds == Spec => []BelowInv
<1>1. Init => BelowInv
  BY DEF Init, BelowInv
<1> QED BY <1>1, BelowStep, CoreHolds, ReplayHolds, PTL DEF Spec

\* Only outputs created below the range can be missing, whatever the store
\* held when the pass began: a parse from genesis misses none.
THEOREM MissingOnlyFromBelowHolds == Spec => []MissingOnlyFromBelow
<1>1. BelowInv => MissingOnlyFromBelow
  BY DEF BelowInv, MissingOnlyFromBelow
<1> QED BY <1>1, BelowHolds, PTL

-----------------------------------------------------------------------------
(* What a later trial of a benchmark measures.                             *)

CreatedInRange(o) == \E g \in first..(end - 1) : o \in Created(Body[g])

\* What the range spends the store has no longer, from the block that spends it
\* on and in all later trials, unless the range creates it.
GoneInv ==
  pc # "down" =>
    \A h \in first..(end - 1) :
      later \/ h < next =>
        \A o \in Spent(Body[h]) : o \in DOMAIN utxo => CreatedInRange(o)

\* RepeatMissesAll; in mid-block the block at hand is counted.
RepeatInv ==
  later =>
    /\ pc = "ready" =>
         \A p \in FromBelow(first, next) : p \in missing \/ CreatedInRange(p[2])
    /\ pc = "publish" =>
         \A p \in FromBelow(first, next + 1) : p \in missing \/ CreatedInRange(p[2])

LEMMA GoneWrite ==
  ASSUME CoreInv, GoneInv, Write PROVE GoneInv'
<1>1. /\ pc = "publish" /\ pc' = "ready" /\ utxo' = Batch
      /\ next' = next + 1 /\ UNCHANGED <<first, end, later>>
  BY DEF Write, passVars
<1>2. next \in first..(end - 1) /\ first \in Nat /\ end \in Nat /\ next \in Nat
  BY <1>1 DEF CoreInv, PassInv
<1>3. \A o \in DOMAIN utxo' : o \in Pending(Block) \/ (o \in DOMAIN utxo /\ o \notin DbHits(utxo, Block))
  BY <1>1 DEF CoreInv, LoopInv, Batch, Put, Delete, Restrict
<1>4. \A o \in Created(Block) : CreatedInRange(o)
  BY <1>2 DEF CreatedInRange, Block
<1>5. ASSUME NEW h \in first..(end - 1), later \/ h < next + 1,
             NEW o \in Spent(Body[h]), o \in DOMAIN utxo'
      PROVE  CreatedInRange(o)
  <2>1. CASE o \in Created(Block)
    BY <1>4, <2>1
  <2>2. CASE o \notin Created(Block)
    <3>1. o \in DOMAIN utxo /\ o \notin DbHits(utxo, Block)
      BY <1>3, <1>5, <2>2 DEF Pending
    <3>2. o \notin Spent(Block)
      BY <2>2, <3>1 DEF DbHits
    <3>3. h # next
      BY <1>5, <3>2 DEF Block
    <3>4. later \/ h < next
      BY <1>2, <1>5, <3>3
    <3> QED BY <1>1, <1>5, <3>1, <3>4 DEF GoneInv
  <2> QED BY <2>1, <2>2
<1> QED BY <1>1, <1>5 DEF GoneInv, CreatedInRange

LEMMA GoneStep == CoreInv /\ GoneInv /\ [Next]_vars => GoneInv'
<1> SUFFICES ASSUME CoreInv, GoneInv, [Next]_vars PROVE GoneInv'
  OBVIOUS
<1>1. CASE Begin
  <2>1. next' = first' /\ ~later' /\ first' \in Nat
    BY <1>1, CoreOpen DEF Begin, Open, CoreInv, PassInv
  <2>2. \A h \in first'..(end' - 1) : ~(h < next')
    BY <2>1
  <2> QED BY <2>1, <2>2 DEF GoneInv
<1>2. CASE NextTrial
  <2>1. pc = "ready" /\ next = end /\ UNCHANGED <<utxo, first, end>>
    BY <1>2 DEF NextTrial, Complete, storeVars
  <2>2. \A h \in first..(end - 1) : h < next
    BY <2>1 DEF CoreInv, PassInv
  <2> QED BY <2>1, <2>2 DEF GoneInv, CreatedInRange
<1>3. CASE Close \/ Crash
  BY <1>3 DEF Close, Crash, GoneInv
<1>4. CASE Spend \/ Evict \/ Flush \/ (\E o \in unpublished : Insert(o)) \/ UNCHANGED vars
  <2>1. UNCHANGED <<utxo, first, end, next, later>> /\ (pc = "down" => pc' = "down")
    BY <1>4 DEF Spend, Insert, Evict, Flush, vars, storeVars, passVars
  <2> QED BY <2>1 DEF GoneInv, CreatedInRange
<1> QED BY <1>1, <1>2, <1>3, <1>4, GoneWrite DEF Next, ApplyBlock

LEMMA RepeatSpend ==
  ASSUME CoreInv, GoneInv, RepeatInv, Spend PROVE RepeatInv'
<1>1. /\ pc = "ready" /\ pc' = "publish" /\ next \in 0..Tip
      /\ missing' = missing \cup {<<next, o>> : o \in Missing(utxo, Block)}
      /\ UNCHANGED <<utxo, first, end, next, later>>
  BY MissingAfterSpend
<1>2. next \in first..(end - 1) /\ first \in Nat /\ next \in Nat
  BY DEF CoreInv, PassInv, Spend
<1>3. ASSUME later, NEW p \in FromBelow(first, next + 1)
      PROVE  p \in missing' \/ CreatedInRange(p[2])
  <2>1. /\ p = <<p[1], p[2]>> /\ p[1] \in first..next /\ p[2] \in Outpoint
        /\ p[2] \in Spent(Body[p[1]])
        /\ \A g \in first..p[1] : p[2] \notin Created(Body[g])
    BY <1>2, <1>3 DEF FromBelow
  <2>2. CASE p[1] # next
    <3>1. p[1] \in first..(next - 1)
      BY <1>2, <2>1, <2>2
    <3>2. p \in FromBelow(first, next)
      BY <2>1, <3>1 DEF FromBelow
    <3> QED BY <1>1, <1>3, <3>2 DEF RepeatInv
  <2>3. CASE p[1] = next
    <3>1. p[2] \in Spent(Block) /\ p[2] \notin Created(Block)
      BY <1>2, <2>1, <2>3 DEF Block
    <3>2. CASE p[2] \in DOMAIN utxo
      BY <1>1, <1>2, <1>3, <3>1, <3>2 DEF GoneInv, Block
    <3>3. CASE p[2] \notin DOMAIN utxo
      <4>1. p[2] \in Missing(utxo, Block)
        BY <3>1, <3>3 DEF Missing
      <4> QED BY <1>1, <2>1, <2>3, <4>1
    <3> QED BY <3>2, <3>3
  <2> QED BY <2>2, <2>3
<1> QED BY <1>1, <1>3 DEF RepeatInv, CreatedInRange

LEMMA RepeatStep == CoreInv /\ GoneInv /\ RepeatInv /\ [Next]_vars => RepeatInv'
<1> SUFFICES ASSUME CoreInv, GoneInv, RepeatInv, [Next]_vars PROVE RepeatInv'
  OBVIOUS
<1>1. CASE Begin
  BY <1>1 DEF Begin, Open, RepeatInv
<1>2. CASE NextTrial
  <2>1. pc' = "ready" /\ next' = first' /\ first' \in Nat
    BY <1>2 DEF NextTrial, Complete, CoreInv, PassInv
  <2>2. \A a \in Nat : a..(a - 1) = {}
    OBVIOUS
  <2>3. FromBelow(first, next)' = {}
    BY <2>1, <2>2 DEF FromBelow
  <2> QED BY <2>1, <2>3 DEF RepeatInv
<1>3. CASE Close \/ Crash
  BY <1>3 DEF Close, Crash, RepeatInv
<1>4. CASE Write
  <2>1. /\ pc = "publish" /\ pc' = "ready" /\ next' = next + 1
        /\ UNCHANGED <<first, end, later, missing>>
    BY <1>4 DEF Write, passVars
  <2> QED BY <2>1 DEF RepeatInv, CreatedInRange
<1>5. CASE Evict \/ Flush \/ (\E o \in unpublished : Insert(o)) \/ UNCHANGED vars
  <2>1. UNCHANGED <<pc, first, end, next, later, missing>>
    BY <1>5 DEF Insert, Evict, Flush, vars, passVars
  <2> QED BY <2>1 DEF RepeatInv, CreatedInRange
<1> QED BY <1>1, <1>2, <1>3, <1>4, <1>5, RepeatSpend DEF Next, ApplyBlock

\* A later trial of `bidx bench' runs on the set the one before left: all the
\* outputs its range spends from below are missing, but for those the range
\* creates again itself.
THEOREM RepeatMissesAllHolds == Spec => []RepeatMissesAll
<1>1. Init => GoneInv /\ RepeatInv
  BY DEF Init, GoneInv, RepeatInv
<1>2. RepeatInv => RepeatMissesAll
  BY DEF RepeatInv, RepeatMissesAll, CreatedInRange
<1> QED BY <1>1, <1>2, GoneStep, RepeatStep, CoreHolds, PTL DEF Spec

=============================================================================
