---------------------------- MODULE MCBulkStore -----------------------------
(***************************************************************************)
(* A chain of four blocks for BulkStore.  The outpoint d is created at     *)
(* height 0 and, unspent, again at height 1; e is created at 0, spent at 1 *)
(* and created again at 2.  Block 1 spends an output of its own.           *)
(***************************************************************************)
EXTENDS BulkStore, SequencesExt

MCOutpoint == {"d", "e", "f", "g", "s"}

MCValue == [o \in MCOutpoint |-> 5]

MCBody ==
  [h \in 0..3 |->
     CASE h = 0 -> <<[ins |-> {}, outs |-> {"d", "e"}]>>
       [] h = 1 -> <<[ins |-> {}, outs |-> {"d"}], [ins |-> {"e"}, outs |-> {"f", "s"}],
                     [ins |-> {"s"}, outs |-> {}]>>
       [] h = 2 -> <<[ins |-> {}, outs |-> {"e"}], [ins |-> {"f"}, outs |-> {"g"}]>>
       [] h = 3 -> <<[ins |-> {}, outs |-> {}], [ins |-> {"d", "e"}, outs |-> {}]>>]

MCLedger ==
  LET after[n \in 0..4] ==
        IF n = 0 THEN EmptySet
        ELSE LET set == after[n - 1]
                 txs == MCBody[n - 1]
             IN  [o \in (DOMAIN set \cup Created(txs)) \ Spent(txs) |->
                    IF o \in Created(txs) THEN n - 1 ELSE set[o]]
  IN  after

=============================================================================
