----------------------------- MODULE BlockTree ------------------------------
(***************************************************************************)
(* The blocks a Bitcoin node may serve: a finite tree rooted at Genesis,   *)
(* with the body and the consensus UTXO set of every block.  The node is   *)
(* external to the repository; what is assumed of it is what the code      *)
(* relies on: every block it serves is valid on its parent, spends only    *)
(* outputs its branch has, and creates only outpoints its branch does not  *)
(* hold (BIP30/BIP34).                                                     *)
(***************************************************************************)
EXTENDS UtxoStore

CONSTANTS Block,    \* block hashes
          Genesis,  \* the block of height 0
          Parent,   \* prev_hash of every other block
          Height,   \* distance from Genesis
          Branch,   \* the blocks from Genesis up to and including a block
          Txs,      \* the body of each block
          Ledger    \* the UTXO set after each block, by consensus

ASSUME TreeAssumption ==
  /\ Genesis \in Block
  /\ NoTip \notin Block
  /\ Parent \in [Block \ {Genesis} -> Block]
  /\ Height \in [Block -> Nat]
  /\ Height[Genesis] = 0
  /\ \A b \in Block \ {Genesis} : Height[b] = Height[Parent[b]] + 1

ASSUME BranchAssumption ==
  /\ Branch \in [Block -> SUBSET Block]
  /\ Branch[Genesis] = {Genesis}
  /\ \A b \in Block \ {Genesis} : Branch[b] = Branch[Parent[b]] \cup {b}
  /\ \A b \in Block : \A c, d \in Branch[b] : Height[c] = Height[d] => c = d
  /\ \A b \in Block : \A c \in Branch[b] :
       Branch[c] = {d \in Branch[b] : Height[d] <= Height[c]}
  /\ \A b \in Block : \A h \in 0..Height[b] : \E c \in Branch[b] : Height[c] = h

ASSUME LedgerAssumption ==
  /\ \A b \in Block : Txs[b] \in [DOMAIN Txs[b] -> Tx]
  /\ Ledger = [b \in Block |-> Ledger[b]]
  /\ \A b \in Block : IsUtxoSet(Ledger[b])
  /\ \A b \in Block \ {Genesis} :
       /\ Spent(Txs[b]) \subseteq DOMAIN Ledger[Parent[b]] \cup Created(Txs[b])
       /\ Created(Txs[b]) \cap DOMAIN Ledger[Parent[b]] = {}
       /\ Ledger[b] = Unspent(Ledger[Parent[b]], Height[b], Txs[b])

\* getblockhash(h) of a node whose best block is b, for h <= Height[b].
HashAt(b, h) == CHOOSE c \in Branch[b] : Height[c] = h

=============================================================================
