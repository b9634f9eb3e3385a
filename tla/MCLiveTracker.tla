--------------------------- MODULE MCLiveTracker ----------------------------
(***************************************************************************)
(* A tree of eight blocks for LiveSink:                                    *)
(*                                                                         *)
(*        g --- a1 --- a2 --- a3                                           *)
(*         \      \                                                        *)
(*          \      --- b2 --- b3                                           *)
(*           --- c1 --- c2                                                 *)
(*                                                                         *)
(* a2 spends an output of a1 and, in the same block, an output of its own; *)
(* b3 holds the transaction of a2 again, as a reorganisation usually does, *)
(* so the outpoint y is created at height 2 on one branch and at height 3  *)
(* on the other.                                                           *)
(***************************************************************************)
EXTENDS LiveSink, SequencesExt

MCBlock == {"g", "a1", "a2", "a3", "b2", "b3", "c1", "c2"}

MCParent ==
  [b \in MCBlock \ {"g"} |->
     CASE b \in {"a1", "c1"} -> "g"
       [] b \in {"a2", "b2"} -> "a1"
       [] b = "a3" -> "a2"
       [] b = "b3" -> "b2"
       [] b = "c2" -> "c1"]

MCBranch ==
  LET up[b \in MCBlock] == IF b = "g" THEN {b} ELSE up[MCParent[b]] \cup {b}
  IN  up

MCHeight == [b \in MCBlock |-> Cardinality(MCBranch[b]) - 1]

MCOutpoint == {"kg", "k1", "k2", "k3", "m2", "m3", "n1", "n2", "y", "z", "x"}

\* Coinbase outputs (k on branch a, m on b, n on c) are worth 8, y 7, z and x 5,
\* so that the fees of a block differ.
MCValue == [o \in MCOutpoint |-> CASE o = "y" -> 7 [] o \in {"z", "x"} -> 5 [] OTHER -> 8]

Coinbase(o) == [ins |-> {}, outs |-> {o}]

MCTxs ==
  [b \in MCBlock |->
     CASE b = "g"  -> <<Coinbase("kg")>>
       [] b = "a1" -> <<Coinbase("k1")>>
       [] b = "a2" -> <<Coinbase("k2"), [ins |-> {"k1"}, outs |-> {"y"}],
                        [ins |-> {"y"}, outs |-> {"z"}]>>
       [] b = "a3" -> <<Coinbase("k3"), [ins |-> {"z", "k2"}, outs |-> {}]>>
       [] b = "b2" -> <<Coinbase("m2")>>
       [] b = "b3" -> <<Coinbase("m3"), [ins |-> {"k1"}, outs |-> {"y"}]>>
       [] b = "c1" -> <<Coinbase("n1")>>
       [] b = "c2" -> <<Coinbase("n2"), [ins |-> {"n1"}, outs |-> {"x"}]>>]

\* The UTXO sets, computed transaction by transaction.
Spend(set, height, tx) ==
  [o \in (DOMAIN set \ tx.ins) \cup tx.outs |-> IF o \in tx.outs THEN height ELSE set[o]]

MCLedger ==
  LET at[b \in MCBlock] ==
        FoldLeft(LAMBDA set, tx : Spend(set, MCHeight[b], tx),
                 IF b = "g" THEN [o \in {} |-> 0] ELSE at[MCParent[b]],
                 MCTxs[b])
  IN  at

\* The two branches that part at g, for the run that allows everything.
SmallBlock == {"g", "a1", "a2", "c1"}
SmallParent == Restrict(MCParent, SmallBlock \ {"g"})
SmallBranch == Restrict(MCBranch, SmallBlock)
SmallHeight == Restrict(MCHeight, SmallBlock)
SmallTxs == Restrict(MCTxs, SmallBlock)
SmallLedger == Restrict(MCLedger, SmallBlock)

=============================================================================
