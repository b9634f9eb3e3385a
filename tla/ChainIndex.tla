----------------------------- MODULE ChainIndex -----------------------------
(***************************************************************************)
(* What the live index promises, with no trace of RPC calls, undo records  *)
(* or markers: it stands at one block of the tree, holds exactly the UTXO  *)
(* set consensus defines there, and moves one block up or down at a time.  *)
(***************************************************************************)
CONSTANTS Block, Genesis, Parent, Ledger, Base

VARIABLES at,    \* the block the index stands at
          coins  \* the UTXO set it holds

Init == at = Base /\ coins = Ledger[Base]

MoveTo(b) == at' = b /\ coins' = Ledger[b]

ConnectBlock == \E b \in Block \ {Genesis} : Parent[b] = at /\ MoveTo(b)

DisconnectTip == at # Genesis /\ MoveTo(Parent[at])

Next == ConnectBlock \/ DisconnectTip

Spec == Init /\ [][Next]_<<at, coins>>

=============================================================================
