-------------------------- MODULE UtxoStoreProofs ---------------------------
(***************************************************************************)
(* Facts about the batches of the UTXO store, for every set and every      *)
(* block body.                                                             *)
(***************************************************************************)
EXTENDS UtxoStore, TLAPS

\* The set after a batch of apply_block, key by key.
LEMMA ConnectEntries ==
  ASSUME NEW set, NEW height, NEW txs
  PROVE  /\ DOMAIN Connect(set, height, txs)
              = (DOMAIN set \ Spent(txs)) \cup Pending(txs)
                \cup (DOMAIN set \cap Created(txs))
         /\ \A o \in DOMAIN Connect(set, height, txs) :
              Connect(set, height, txs)[o] = IF o \in Pending(txs) THEN height ELSE set[o]
  BY DEF Connect, Put, Delete, Restrict, DbHits, Pending

\* The batch of apply_block computes the consensus rule, for every set and
\* every body whose inputs the set or the block itself answers and whose
\* outputs are new: same-block spends, deletes and puts add up to it.
THEOREM ConnectIsConsensus ==
  ASSUME NEW set, IsUtxoSet(set), NEW height, NEW txs,
         Spent(txs) \subseteq DOMAIN set \cup Created(txs),
         Created(txs) \cap DOMAIN set = {}
  PROVE  Connect(set, height, txs) = Unspent(set, height, txs)
<1> DEFINE after == Connect(set, height, txs)
<1>1. /\ DOMAIN after = (DOMAIN set \ Spent(txs)) \cup Pending(txs)
                     \cup (DOMAIN set \cap Created(txs))
      /\ \A o \in DOMAIN after : after[o] = IF o \in Pending(txs) THEN height ELSE set[o]
  BY DEF Connect, Put, Delete, Restrict, DbHits, Pending
<1>2. after = [o \in DOMAIN after |-> after[o]]
  BY DEF Connect, Put
<1>3. DOMAIN after = (DOMAIN set \cup Created(txs)) \ Spent(txs)
  <2> HIDE DEF after
  <2> QED BY <1>1 DEF Pending
<1>4. \A o \in DOMAIN after : after[o] = IF o \in DOMAIN set THEN set[o] ELSE height
  <2> HIDE DEF after
  <2> QED BY <1>1, <1>3 DEF Pending
<1>5. after = Unspent(set, height, txs)
  <2> HIDE DEF after
  <2> QED BY <1>2, <1>3, <1>4 DEF Unspent
<1> QED BY <1>5

\* disconnect_block undoes apply_block: the undo record written with a block
\* whose outputs are new to the set turns the set back into what it was,
\* entry for entry, whatever the block spent, its own outputs included.
THEOREM RevertUndoesConnect ==
  ASSUME NEW set, IsUtxoSet(set), NEW height, NEW txs,
         Created(txs) \cap DOMAIN set = {}
  PROVE  Revert(Connect(set, height, txs), UndoOf(set, txs)) = set
<1> DEFINE after == Connect(set, height, txs)
           rec   == UndoOf(set, txs)
           mid   == Put(after, rec.spent)
<1>0. /\ DOMAIN after = (DOMAIN set \ Spent(txs)) \cup Pending(txs)
                     \cup (DOMAIN set \cap Created(txs))
      /\ \A o \in DOMAIN after : after[o] = IF o \in Pending(txs) THEN height ELSE set[o]
  BY ConnectEntries, Zenon
<1>1. /\ DOMAIN after = (DOMAIN set \ Spent(txs)) \cup Pending(txs)
      /\ \A o \in DOMAIN set \ Spent(txs) : after[o] = set[o]
  <2> HIDE DEF after
  <2> QED BY <1>0 DEF Pending
<1>2. /\ DOMAIN rec.spent = Spent(txs) \cap DOMAIN set
      /\ \A o \in Spent(txs) \cap DOMAIN set : rec.spent[o] = set[o]
      /\ rec.created = Pending(txs)
  BY DEF UndoOf, Restrict, DbHits
<1>3. /\ DOMAIN mid = DOMAIN set \cup Pending(txs)
      /\ \A o \in DOMAIN set : mid[o] = set[o]
  BY <1>1, <1>2 DEF Put
<1>4. Revert(after, rec) = [o \in DOMAIN mid \ Pending(txs) |-> mid[o]]
  BY <1>2 DEF Revert, Delete, Restrict
<1>5. DOMAIN mid \ Pending(txs) = DOMAIN set
  BY <1>3 DEF Pending
<1>6. set = [o \in DOMAIN set |-> set[o]]
  BY DEF IsUtxoSet
<1> QED BY <1>3, <1>4, <1>5, <1>6

\* The batches keep the store's types.
LEMMA ConnectType ==
  ASSUME NEW set, IsUtxoSet(set), NEW height \in Nat,
         NEW txs, txs \in [DOMAIN txs -> Tx]
  PROVE  IsUtxoSet(Connect(set, height, txs))
<1>1. Created(txs) \subseteq Outpoint
  BY DEF Created, Tx
<1>2. DOMAIN Connect(set, height, txs) \subseteq Outpoint
  BY <1>1, ConnectEntries DEF IsUtxoSet, Pending
<1>3. \A o \in DOMAIN Connect(set, height, txs) : Connect(set, height, txs)[o] \in Nat
  BY DEF Connect, Put, Delete, Restrict, IsUtxoSet
<1> QED BY <1>2, <1>3 DEF Connect, Put, IsUtxoSet

LEMMA UndoType ==
  ASSUME NEW set, IsUtxoSet(set), NEW txs, txs \in [DOMAIN txs -> Tx]
  PROVE  IsBlockUndo(UndoOf(set, txs))
<1>1. Created(txs) \subseteq Outpoint
  BY DEF Created, Tx
<1> QED BY <1>1 DEF UndoOf, IsBlockUndo, IsUtxoSet, Restrict, DbHits, Pending

LEMMA RevertType ==
  ASSUME NEW set, IsUtxoSet(set), NEW rec, IsBlockUndo(rec)
  PROVE  IsUtxoSet(Revert(set, rec))
  BY DEF Revert, Put, Delete, Restrict, IsUtxoSet, IsBlockUndo

LEMMA PutUndoType ==
  ASSUME NEW log, IsUndoLog(log), NEW height \in Nat, NEW rec, IsBlockUndo(rec)
  PROVE  IsUndoLog(PutOne(log, height, rec))
  BY DEF PutOne, Put, IsUndoLog

LEMMA DeleteUndoType ==
  ASSUME NEW log, IsUndoLog(log), NEW height
  PROVE  /\ IsUndoLog(Delete(log, {height}))
         /\ DOMAIN Delete(log, {height}) = DOMAIN log \ {height}
         /\ \A h \in DOMAIN log \ {height} : Delete(log, {height})[h] = log[h]
  BY DEF Delete, Restrict, IsUndoLog

=============================================================================
