----------------------------- MODULE UtxoStore ------------------------------
(***************************************************************************)
(* The RocksDB-backed UTXO store of crates/bidx-store/src/utxo.rs: the set *)
(* of unspent outputs (default column family), the per-height undo records *)
(* (CF "undo") and the tip marker (CF "meta").  A column family is a       *)
(* function whose DOMAIN is the set of keys present.                       *)
(*                                                                         *)
(* Every operation below ends in ONE synchronous WriteBatch (or one put),  *)
(* which RocksDB makes atomic and durable, so each is one step of state.   *)
(*                                                                         *)
(* Data abstraction.  An outpoint (txid || vout) commits to the output it  *)
(* names, so amount and script are functions of the outpoint: Value gives  *)
(* the amount.  What a stored UtxoValue adds is the creation height, and   *)
(* that is what `utxo' keeps per outpoint.  A block body is a sequence of  *)
(* transactions [ins, outs]; `ins' holds the prevouts of the non-coinbase  *)
(* inputs (the input loop skips coinbase ones).  A block the node serves   *)
(* spends an outpoint at most once, so the loop order is immaterial and    *)
(* sets replace it.                                                        *)
(***************************************************************************)
EXTENDS Integers, FiniteSetsExt, Functions

CONSTANTS Outpoint,  \* the outpoints of the block bodies considered
          Value,     \* amount in satoshi of the output each one names
          NoTip      \* tip() of a store whose meta CF has no marker

ASSUME ValueAssumption == Value \in [Outpoint -> Nat]

VARIABLES utxo,  \* default CF: outpoint -> creation height
          undo,  \* undo CF: height -> [spent, created]
          tip    \* meta CF, key "tip": a block, or NoTip

storeVars == <<utxo, undo, tip>>

Tx == [ins : SUBSET Outpoint, outs : SUBSET Outpoint]

IsUtxoSet(set) == DOMAIN set \subseteq Outpoint /\ set \in [DOMAIN set -> Nat]

IsBlockUndo(rec) ==
  /\ rec = [spent |-> rec.spent, created |-> rec.created]
  /\ IsUtxoSet(rec.spent)
  /\ rec.created \subseteq Outpoint

IsUndoLog(log) ==
  /\ DOMAIN log \subseteq Nat
  /\ log = [h \in DOMAIN log |-> log[h]]
  /\ \A h \in DOMAIN log : IsBlockUndo(log[h])

-----------------------------------------------------------------------------
(* Write batches on a column family.                                       *)

Put(cf, new) ==
  [k \in DOMAIN cf \cup DOMAIN new |-> IF k \in DOMAIN new THEN new[k] ELSE cf[k]]

PutOne(cf, key, val) == Put(cf, [k \in {key} |-> val])

Delete(cf, keys) == Restrict(cf, DOMAIN cf \ keys)

-----------------------------------------------------------------------------
(* What apply_block computes from a body and the committed set.            *)

Created(txs) == UNION {txs[i].outs : i \in DOMAIN txs}

Spent(txs) == UNION {txs[i].ins : i \in DOMAIN txs}

\* `pending' once the input loop is over: the outputs no input of the block
\* itself removed.
Pending(txs) == Created(txs) \ Spent(txs)

\* Inputs answered by the database: neither same-block nor absent.
DbHits(set, txs) == (Spent(txs) \ Created(txs)) \cap DOMAIN set

\* Mutant: the lookup goes to the database without asking `pending'.
MissingIgnoresPending(set, txs) == Spent(txs) \ DOMAIN set

\* Inputs counted in SpendResult.missing.
Missing(set, txs) == (Spent(txs) \ Created(txs)) \ DOMAIN set

\* Mutant: outputs are stored with the height of the next block.
ConnectNextHeight(set, height, txs) ==
  Put(Delete(set, DbHits(set, txs)), [o \in Pending(txs) |-> height + 1])

\* The set after the batch: the prevouts found are deleted, then `pending'
\* is put, each output with this block's height.
Connect(set, height, txs) ==
  Put(Delete(set, DbHits(set, txs)), [o \in Pending(txs) |-> height])

\* The undo record of the same batch: the entries deleted, and the outpoints
\* created less those the block spent itself.
UndoOf(set, txs) == [spent   |-> Restrict(set, DbHits(set, txs)),
                     created |-> Pending(txs)]

\* disconnect_block's batch: put every spent entry, delete every created one.
Revert(set, rec) == Delete(Put(set, rec.spent), rec.created)

\* The consensus rule for a block on a UTXO set, stated without the store's
\* batches: what was unspent or is created, less what the block spends; an
\* output keeps the height of the block that created it.
Unspent(set, height, txs) ==
  [o \in (DOMAIN set \cup Created(txs)) \ Spent(txs) |->
     IF o \in DOMAIN set THEN set[o] ELSE height]

SaturatingSub(a, b) == IF a > b THEN a - b ELSE 0

Amount(ops) == MapThenSumSet(LAMBDA o : Value[o], ops)

\* SpendResult.fees: what the resolved inputs of each transaction add up to,
\* less its outputs.
Fees(set, txs) ==
  [i \in DOMAIN txs |->
     SaturatingSub(Amount(txs[i].ins \ Missing(set, txs)), Amount(txs[i].outs))]

-----------------------------------------------------------------------------
(* The operations.                                                         *)

\* apply_block with undo_enabled (open_live).
apply_block(height, txs) ==
  /\ utxo' = Connect(utxo, height, txs)
  /\ undo' = PutOne(undo, height, UndoOf(utxo, txs))
  /\ UNCHANGED tip

\* disconnect_block; without a record it is the error NoUndo and no change.
HasUndo(height) == height \in DOMAIN undo

\* Mutant: the batch leaves the record in the undo log.
disconnect_keeps_record(height) ==
  /\ HasUndo(height)
  /\ utxo' = Revert(utxo, undo[height])
  /\ UNCHANGED <<undo, tip>>

disconnect_block(height) ==
  /\ HasUndo(height)
  /\ utxo' = Revert(utxo, undo[height])
  /\ undo' = Delete(undo, {height})
  /\ UNCHANGED tip

\* set_tip: a write of its own, never part of the batches above.  The marker
\* is height || hash; the hash alone stands for both, as the callers always
\* pass a hash together with the height it has.
set_tip(block) ==
  /\ tip' = block
  /\ UNCHANGED <<utxo, undo>>

=============================================================================
