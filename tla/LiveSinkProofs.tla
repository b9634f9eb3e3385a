--------------------------- MODULE LiveSinkProofs ---------------------------
(***************************************************************************)
(* The live tracker and its sink.  Under benign conditions (SafeEnv) the   *)
(* live index is exact, for every block tree, every Base and every bound;  *)
(* with its sink, for every part length and, where it says so, every       *)
(* adversity in Env.                                                       *)
(***************************************************************************)
EXTENDS LiveSink, UtxoStoreProofs

\* The adversities under which the code keeps its promises.
SafeEnv == Env \subseteq {"rpc_error", "crash", "base_reorg"}

-----------------------------------------------------------------------------
(* The inductive invariant.                                                *)

\* TypeOK, with what catch_up has checked before it disconnects a block.
TypeInv ==
  /\ TypeOK
  /\ pc = "disconnect" => disconnects < MaxReorgDepth
  /\ pc \in {"disconnect", "parent"} => Height[local] # 0

\* The node is where the walk back can find it: at Base until the first start,
\* and afterwards at most one block off the index.
NodeNear ==
  /\ tip = NoTip => nodeTip = Base /\ pc \in {"down", "count", "seed"}
  /\ tip = NoTip => caller = "run"
  /\ WithinOne(nodeTip)

\* What catch_up knows of its locals at each step.
LocalsInv ==
  /\ pc = "seed" => tip = NoTip /\ target = Height[Base]
  /\ pc \in {"probe", "disconnect", "parent", "forward", "fetch", "apply", "advance"}
       => tip # NoTip /\ local = tip
  /\ pc \in {"disconnect", "parent", "step_back"} => tip # NoTip /\ tip # Genesis
  /\ pc = "step_back" => local = Parent[tip]
  /\ pc \in {"forward", "fetch", "apply", "advance"} => tip \in Branch[nodeTip]
  /\ pc \in {"fetch", "apply", "advance"} =>
       fetched \in Branch[nodeTip] /\ fetched # Genesis /\ Parent[fetched] = tip

SetInv == At \in Block /\ Base \in Branch[At] /\ utxo = Ledger[At]

IInv == TypeInv /\ NodeNear /\ LocalsInv /\ SetInv /\ UndoLogExact

-----------------------------------------------------------------------------
(* The block tree.                                                         *)

LEMMA BranchFacts ==
  ASSUME NEW b \in Block
  PROVE  /\ b \in Branch[b]
         /\ Genesis \in Branch[b]
         /\ \A c \in Branch[b] : c \in Block /\ Height[c] <= Height[b]
         /\ \A c \in Branch[b] : Branch[c] \subseteq Branch[b]
<1>1. b \in Branch[b]
  <2>1. CASE b = Genesis
    BY <2>1, BranchAssumption
  <2>2. CASE b # Genesis
    <3>1. Branch[b] = Branch[Parent[b]] \cup {b}
      BY <2>2, BranchAssumption
    <3> QED BY <3>1
  <2> QED BY <2>1, <2>2
<1>2. \A c \in Branch[b] : c \in Block /\ Height[c] <= Height[b]
  BY <1>1, BranchAssumption
<1>3. \A c \in Branch[b] : Branch[c] \subseteq Branch[b]
  BY BranchAssumption
<1>4. Genesis \in Branch[b]
  <2>1. 0 \in 0..Height[b]
    BY TreeAssumption
  <2>2. PICK c \in Branch[b] : Height[c] = 0
    BY <2>1, BranchAssumption
  <2>3. c = Genesis
    BY <2>2, <1>2, TreeAssumption
  <2> QED BY <2>3
<1> QED BY <1>1, <1>2, <1>3, <1>4

LEMMA ParentInBranch ==
  ASSUME NEW b \in Block, NEW c \in Branch[b], c # Genesis
  PROVE  Parent[c] \in Branch[b]
<1>1. c \in Block /\ Branch[c] \subseteq Branch[b]
  BY BranchFacts
<1>2. Parent[c] \in Block /\ Branch[c] = Branch[Parent[c]] \cup {c}
  BY <1>1, TreeAssumption, BranchAssumption
<1> QED BY <1>1, <1>2, BranchFacts

\* getblockhash answers with the block of that height on the best chain.
LEMMA HashAtHeight ==
  ASSUME NEW b \in Block, NEW h \in Nat, h <= Height[b]
  PROVE  HashAt(b, h) \in Branch[b] /\ Height[HashAt(b, h)] = h
<1>1. \E c \in Branch[b] : Height[c] = h
  BY TreeAssumption, BranchAssumption
<1> QED BY <1>1 DEF HashAt

LEMMA HashAtUnique ==
  ASSUME NEW b \in Block, NEW c \in Branch[b]
  PROVE  HashAt(b, Height[c]) = c
<1>1. Height[c] \in Nat /\ Height[c] <= Height[b]
  BY BranchFacts, TreeAssumption
<1>2. HashAt(b, Height[c]) \in Branch[b] /\ Height[HashAt(b, Height[c])] = Height[c]
  BY <1>1, HashAtHeight
<1> QED BY <1>2, BranchAssumption

\* The block above one of the best chain is its child.
LEMMA HashAtChild ==
  ASSUME NEW b \in Block, NEW c \in Branch[b], Height[c] + 1 <= Height[b]
  PROVE  /\ HashAt(b, Height[c] + 1) \in Block \ {Genesis}
         /\ Parent[HashAt(b, Height[c] + 1)] = c
<1> DEFINE d == HashAt(b, Height[c] + 1)
<1>1. c \in Block /\ Height[c] \in Nat
  BY BranchFacts, TreeAssumption
<1>2. d \in Branch[b] /\ Height[d] = Height[c] + 1
  BY <1>1, HashAtHeight
<1> HIDE DEF d
<1>3. d \in Block \ {Genesis}
  BY <1>1, <1>2, BranchFacts, TreeAssumption
<1>4. Parent[d] \in Branch[b]
  BY <1>2, <1>3, ParentInBranch
<1>5. Height[Parent[d]] = Height[c]
  <2>1. Parent[d] \in Block /\ Height[Parent[d]] \in Nat /\ Height[d] = Height[Parent[d]] + 1
    BY <1>3, TreeAssumption
  <2> QED BY <1>1, <1>2, <2>1
<1>6. Parent[d] = c
  BY <1>4, <1>5, BranchAssumption
<1> QED BY <1>3, <1>6 DEF d

\* A block connected to its parent's set gives its own, and the record written
\* with it leads back.
LEMMA LedgerStep ==
  ASSUME NEW b \in Block, b # Genesis
  PROVE  /\ Connect(Ledger[Parent[b]], Height[Parent[b]] + 1, Txs[b]) = Ledger[b]
         /\ Revert(Ledger[b], UndoOf(Ledger[Parent[b]], Txs[b])) = Ledger[Parent[b]]
<1>1. Parent[b] \in Block /\ Height[b] = Height[Parent[b]] + 1
  BY TreeAssumption
<1>2. /\ IsUtxoSet(Ledger[Parent[b]])
      /\ Created(Txs[b]) \cap DOMAIN Ledger[Parent[b]] = {}
      /\ Spent(Txs[b]) \subseteq DOMAIN Ledger[Parent[b]] \cup Created(Txs[b])
      /\ Ledger[b] = Unspent(Ledger[Parent[b]], Height[b], Txs[b])
  BY <1>1, LedgerAssumption
<1>3. Revert(Connect(Ledger[Parent[b]], Height[b], Txs[b]), UndoOf(Ledger[Parent[b]], Txs[b]))
        = Ledger[Parent[b]]
  BY <1>2, RevertUndoesConnect
<1>4. Ledger[b] = Connect(Ledger[Parent[b]], Height[b], Txs[b])
  BY <1>2, ConnectIsConsensus
<1> QED BY <1>1, <1>3, <1>4

-----------------------------------------------------------------------------
(* Type correctness, whatever the environment does.                        *)

LEMMA InitType == Init => TypeInv
<1> SUFFICES ASSUME Init PROVE TypeInv
  OBVIOUS
<1>1. IsUtxoSet(utxo)
  BY BaseAssumption, LedgerAssumption DEF Init
<1>2. IsUndoLog(undo)
  BY DEF Init, IsUndoLog
<1> QED
  BY <1>1, <1>2, BaseAssumption, TreeAssumption, BoundAssumption
  DEF Init, TypeInv, TypeOK, PC, Idle

LEMMA FailType == ASSUME TypeInv, NEW error, Fail(error) PROVE TypeInv'
  BY TreeAssumption, BoundAssumption
  DEF TypeInv, TypeOK, Fail, Exit, Return, NoLocals, PC, Idle, storeVars

LEMMA TypeStep == TypeInv /\ [Next]_vars => TypeInv'
<1> SUFFICES ASSUME TypeInv, [Next]_vars PROVE TypeInv'
  OBVIOUS
<1> USE TreeAssumption, BoundAssumption DEF PC, Idle
<1>h. \A b \in Block : Height[b] \in Nat
  OBVIOUS
<1>n. \A h \in Nat : NodeHas(h) => HashAt(nodeTip, h) \in Block
  BY HashAtHeight, BranchFacts DEF NodeHas, TypeOK, TypeInv
<1>1. CASE NodeMove
  BY <1>1 DEF NodeMove, TypeOK, TypeInv, storeVars, threadVars
<1>2. CASE Start
  BY <1>2 DEF Start, TypeOK, TypeInv, storeVars
<1>3. CASE Wake
  BY <1>3 DEF Wake, TypeOK, TypeInv, storeVars
<1>4. CASE Count
  BY <1>4, FailType, <1>h DEF Count, RpcFails, TypeOK, TypeInv, storeVars
<1>5. CASE Seed
  BY <1>5, FailType, <1>n DEF Seed, RpcFails, set_tip, Return, NoLocals, TypeOK, TypeInv
<1>6. CASE Probe
  BY <1>6, FailType DEF Probe, TypeOK, TypeInv, storeVars
<1>7. CASE Disconnect
  <2>1. CASE disconnect_block(Height[local])
    <3>1. IsUtxoSet(utxo') /\ IsUndoLog(undo') /\ tip' = tip
      <4>1. IsBlockUndo(undo[Height[local]])
        BY <2>1 DEF disconnect_block, HasUndo, TypeInv, TypeOK, IsUndoLog
      <4> QED BY <2>1, <4>1, RevertType, DeleteUndoType DEF disconnect_block, TypeInv, TypeOK
    <3> QED BY <1>7, <2>1, <3>1, FailType DEF Disconnect, TypeOK, TypeInv, HasUndo, disconnect_block
  <2>2. CASE ~HasUndo(Height[local]) /\ Fail("NoUndo")
    BY <2>2, FailType
  <2> QED BY <1>7, <2>1, <2>2 DEF Disconnect
<1>8. CASE ParentHash
  BY <1>8, FailType, <1>n, <1>h DEF ParentHash, NodeHas, TypeOK, TypeInv, storeVars
<1>9. CASE StepBack
  BY <1>9 DEF StepBack, set_tip, TypeOK, TypeInv
<1>10. CASE Forward
  BY <1>10, FailType, <1>n, <1>h DEF Forward, RpcFails, Return, NoLocals, TypeOK, TypeInv, storeVars
<1>11. CASE Fetch
  BY <1>11, FailType DEF Fetch, RpcFails, TypeOK, TypeInv, storeVars
<1>12. CASE Apply
  <2>1. /\ IsUtxoSet(utxo) /\ IsUndoLog(undo) /\ Height[local] + 1 \in Nat
        /\ Txs[fetched] \in [DOMAIN Txs[fetched] -> Tx]
    BY <1>h, LedgerAssumption DEF TypeOK, TypeInv
  <2>2. IsUtxoSet(utxo')
    BY <1>12, <2>1, ConnectType DEF Apply, apply_block
  <2>3. IsBlockUndo(UndoOf(utxo, Txs[fetched]))
    BY <2>1, UndoType
  <2>4. IsUndoLog(undo')
    BY <1>12, <2>1, <2>3, PutUndoType DEF Apply, apply_block
  <2> QED BY <1>12, <2>2, <2>4 DEF Apply, apply_block, TypeOK, TypeInv
<1>13. CASE Advance
  BY <1>13 DEF Advance, set_tip, TypeOK, TypeInv
<1>14. CASE Crash
  BY <1>14 DEF Crash, Exit, NoLocals, TypeOK, TypeInv, storeVars
<1>15. CASE UNCHANGED vars
  BY <1>15 DEF vars, storeVars, threadVars, TypeOK, TypeInv
<1> QED
  BY <1>1, <1>2, <1>3, <1>4, <1>5, <1>6, <1>7, <1>8, <1>9, <1>10, <1>11, <1>12,
     <1>13, <1>14, <1>15 DEF Next, Tracker, CatchUp

\* Every variable of the tracker and its store keeps its type, in every
\* environment: in particular the walk back never exceeds --max-reorg-depth.
THEOREM TypeCorrect == Spec => []TypeOK
<1>1. TypeInv => TypeOK
  BY DEF TypeInv
<1> QED BY <1>1, InitType, TypeStep, PTL DEF Spec

-----------------------------------------------------------------------------
(* The index is exact, in a benign environment.                            *)

LEMMA NearParent ==
  ASSUME TypeOK, WithinOne(nodeTip), tip # NoTip, tip # Genesis
  PROVE  Parent[tip] \in Branch[nodeTip]
  BY ParentInBranch DEF WithinOne, Indexed, TypeOK

\* The block the set stands at stays, or becomes its parent or a child.
Moves == \/ At' = At
         \/ At # Genesis /\ At' = Parent[At]
         \/ At' \in Block \ {Genesis} /\ Parent[At'] = At

\* A step that leaves the store and the block it stands at alone.
LEMMA StoreFrame ==
  ASSUME SetInv, UndoLogExact, UNCHANGED storeVars, At' = At
  PROVE  SetInv' /\ UndoLogExact'
  BY DEF SetInv, UndoLogExact, storeVars

\* An error outside the windows between a batch and its set_tip is harmless.
LEMMA FailStep ==
  ASSUME IInv, NEW error, Fail(error), pc \notin {"parent", "step_back", "advance"}
  PROVE  IInv' /\ Moves
<1>1. TypeInv'
  BY FailType DEF IInv
<1>2. pc' \in Idle /\ tip' = tip /\ nodeTip' = nodeTip /\ UNCHANGED storeVars
  BY DEF Fail, Exit, Return, Idle, storeVars
<1>3. At' = At
  BY <1>2 DEF At, Indexed, Idle
<1>4. NodeNear'
  BY <1>2 DEF IInv, NodeNear, Fail, Exit, Return, WithinOne, Indexed
<1>5. LocalsInv'
  BY <1>2 DEF LocalsInv, Idle
<1> QED BY <1>1, <1>2, <1>3, <1>4, <1>5, StoreFrame DEF IInv, Moves

LEMMA InitInv == Init => IInv
<1> SUFFICES ASSUME Init PROVE IInv
  OBVIOUS
<1>1. TypeInv
  BY InitType
<1>2. At = Base
  BY DEF Init, At, Indexed
<1>3. NodeNear
  BY BaseAssumption, BranchFacts DEF Init, NodeNear, WithinOne, Indexed
<1>4. LocalsInv
  BY DEF Init, LocalsInv
<1>5. SetInv
  BY <1>2, BaseAssumption, BranchFacts DEF Init, SetInv
<1>6. UndoLogExact
  <2>1. DOMAIN undo = (Height[Base] + 1)..Height[At]
    BY <1>2, BaseAssumption, TreeAssumption DEF Init
  <2>2. \A b \in Branch[At] : ~ Height[b] > Height[Base]
    BY <1>2, BaseAssumption, BranchFacts, TreeAssumption
  <2> QED BY <2>1, <2>2 DEF UndoLogExact
<1> QED BY <1>1, <1>3, <1>4, <1>5, <1>6 DEF IInv

\* One batch of apply_block on top of the stored tip.
LEMMA ApplyStep ==
  ASSUME IInv, Apply PROVE IInv' /\ Moves
<1> DEFINE b == fetched
           h == Height[tip] + 1
<1>1. TypeInv'
  BY TypeStep DEF IInv, Next, Tracker, CatchUp
<1>2. /\ tip # NoTip /\ tip \in Block /\ local = tip /\ At = tip
      /\ b \in Block /\ b # Genesis /\ Parent[b] = tip /\ tip' = tip /\ fetched' = b
  BY DEF IInv, LocalsInv, Apply, apply_block, At, Indexed, TypeInv, TypeOK
<1>3. h \in Nat /\ Height[b] = h /\ Height[tip] \in Nat /\ Height[Base] \in Nat
  BY <1>2, TreeAssumption, BaseAssumption
<1>4. At' = b
  BY <1>2 DEF Apply, At
<1>5. NodeNear' /\ LocalsInv'
  BY <1>2 DEF IInv, NodeNear, LocalsInv, Apply, WithinOne, Indexed
<1>6. utxo = Ledger[Parent[b]] /\ IsUtxoSet(utxo) /\ Base \in Branch[tip]
  BY <1>2 DEF IInv, SetInv, TypeInv, TypeOK
<1>7. Branch[b] = Branch[tip] \cup {b}
  BY <1>2, BranchAssumption
<1>8. SetInv'
  BY <1>2, <1>3, <1>4, <1>6, <1>7, LedgerStep DEF SetInv, Apply, apply_block
<1>9. UndoLogExact'
  <2>1. IsBlockUndo(UndoOf(utxo, Txs[b])) /\ IsUndoLog(undo)
    BY <1>2, <1>6, UndoType, LedgerAssumption DEF IInv, TypeInv, TypeOK
  <2>2. /\ DOMAIN undo' = DOMAIN undo \cup {h}
        /\ undo'[h] = UndoOf(utxo, Txs[b])
        /\ \A k \in DOMAIN undo \ {h} : undo'[k] = undo[k]
    <3>1. undo' = PutOne(undo, h, UndoOf(utxo, Txs[b]))
      BY <1>2 DEF Apply, apply_block
    <3> DEFINE rec == UndoOf(utxo, Txs[b])
    <3>2. h \in Nat /\ IsUndoLog(undo) /\ IsBlockUndo(rec) /\ undo' = PutOne(undo, h, rec)
      BY <3>1, <1>3, <2>1
    <3> HIDE DEF h, rec
    <3>3. /\ DOMAIN PutOne(undo, h, rec) = DOMAIN undo \cup {h}
          /\ PutOne(undo, h, rec)[h] = rec
          /\ \A k \in DOMAIN undo \ {h} : PutOne(undo, h, rec)[k] = undo[k]
      BY <3>2 DEF PutOne, Put, IsUndoLog
    <3> QED BY <3>2, <3>3 DEF rec
  <2>3. /\ DOMAIN undo = (Height[Base] + 1)..Height[tip]
        /\ \A c \in Branch[tip] : Height[c] > Height[Base]
             => Revert(Ledger[c], undo[Height[c]]) = Ledger[Parent[c]]
    BY <1>2 DEF IInv, UndoLogExact
  <2>4. Height[Base] <= Height[tip]
    BY <1>2, <1>6, BranchFacts
  <2>5. DOMAIN undo' = (Height[Base] + 1)..Height[b]
    BY <2>2, <2>3, <2>4, <1>3
  <2>6. ASSUME NEW c \in Branch[b], Height[c] > Height[Base]
        PROVE  Revert(Ledger[c], undo'[Height[c]]) = Ledger[Parent[c]]
    <3>1. CASE c = b
      BY <3>1, <1>2, <1>3, <1>6, <2>2, LedgerStep
    <3>2. CASE c \in Branch[tip]
      <4>1. Height[c] \in Nat /\ Height[c] <= Height[tip]
        BY <3>2, <1>2, BranchFacts, TreeAssumption
      <4>2. Height[c] \in DOMAIN undo \ {h}
        BY <4>1, <2>3, <2>6, <1>3
      <4> QED BY <3>2, <4>2, <2>2, <2>3, <2>6
    <3> QED BY <3>1, <3>2, <1>7
  <2> QED BY <2>5, <2>6, <1>4 DEF UndoLogExact
<1> QED BY <1>1, <1>2, <1>4, <1>5, <1>8, <1>9 DEF IInv, Moves

\* One batch of disconnect_block at the stored tip.
LEMMA DisconnectStep ==
  ASSUME IInv, Disconnect PROVE IInv' /\ Moves
<1>1. CASE Fail("NoUndo")
  BY <1>1, FailStep DEF Disconnect
<1>2. CASE disconnect_block(Height[local]) /\ pc' = "parent"
  <2>1. TypeInv'
    BY TypeStep DEF IInv, Next, Tracker, CatchUp
  <2>2. /\ tip # NoTip /\ tip # Genesis /\ tip \in Block /\ local = tip /\ At = tip
        /\ tip' = tip /\ local' = local /\ nodeTip' = nodeTip /\ caller' = caller
    BY <1>2 DEF IInv, LocalsInv, Disconnect, disconnect_block, Fail, Exit, Return,
                At, Indexed, TypeInv, TypeOK
  <2>3. /\ Parent[tip] \in Block
        /\ Height[tip] = Height[Parent[tip]] + 1
        /\ Height[Parent[tip]] \in Nat /\ Height[Base] \in Nat
        /\ Branch[tip] = Branch[Parent[tip]] \cup {tip}
    BY <2>2, TreeAssumption, BranchAssumption, BaseAssumption
  <2>4. At' = Parent[tip]
    BY <1>2, <2>2 DEF At
  <2>5. NodeNear' /\ LocalsInv'
    BY <1>2, <2>2 DEF IInv, NodeNear, LocalsInv, WithinOne, Indexed, Disconnect
  <2>6. /\ DOMAIN undo = (Height[Base] + 1)..Height[tip]
        /\ \A c \in Branch[tip] : Height[c] > Height[Base]
             => Revert(Ledger[c], undo[Height[c]]) = Ledger[Parent[c]]
    BY <2>2 DEF IInv, UndoLogExact
  <2>7. Height[tip] > Height[Base]
    BY <1>2, <2>2, <2>3, <2>6 DEF disconnect_block, HasUndo
  <2>8. SetInv'
    <3>1. utxo' = Ledger[Parent[tip]]
      BY <1>2, <2>2, <2>6, <2>7, BranchFacts DEF IInv, SetInv, disconnect_block
    <3>2. Base \in Branch[Parent[tip]]
      BY <2>2, <2>3, <2>7 DEF IInv, SetInv
    <3> QED BY <3>1, <3>2, <2>3, <2>4 DEF SetInv
  <2>9. UndoLogExact'
    <3>1. /\ DOMAIN undo' = DOMAIN undo \ {Height[tip]}
          /\ \A k \in DOMAIN undo \ {Height[tip]} : undo'[k] = undo[k]
      BY <1>2, <2>2, DeleteUndoType DEF IInv, TypeInv, TypeOK, disconnect_block
    <3>2. DOMAIN undo' = (Height[Base] + 1)..Height[Parent[tip]]
      BY <3>1, <2>3, <2>6
    <3>3. ASSUME NEW c \in Branch[Parent[tip]], Height[c] > Height[Base]
          PROVE  Revert(Ledger[c], undo'[Height[c]]) = Ledger[Parent[c]]
      <4>1. Height[c] \in Nat /\ Height[c] <= Height[Parent[tip]]
        BY <2>3, BranchFacts, TreeAssumption
      <4>2. Height[c] \in DOMAIN undo \ {Height[tip]}
        BY <4>1, <3>3, <2>3, <2>6
      <4> QED BY <4>2, <3>1, <3>3, <2>3, <2>6
    <3> QED BY <3>2, <3>3, <2>4 DEF UndoLogExact
  <2> QED BY <2>1, <2>2, <2>4, <2>5, <2>8, <2>9 DEF IInv, Moves
<1> QED BY <1>1, <1>2 DEF Disconnect

LEMMA InvStep ==
  ASSUME SafeEnv PROVE IInv /\ [Next]_vars => IInv' /\ Moves
<1> SUFFICES ASSUME IInv, [Next]_vars PROVE IInv' /\ Moves
  OBVIOUS
<1>e. Env \cap {"parent_error", "crash_apply", "crash_disconnect", "deep_reorg",
                "race", "gap"} = {}
  BY DEF SafeEnv
<1>t. TypeInv'
  BY TypeStep DEF IInv
<1>b. \A b, c \in Block : b \in Branch[c] => Branch[b] \subseteq Branch[c]
  BY BranchFacts
<1>1. CASE NodeMove
  <2>1. UNCHANGED storeVars /\ UNCHANGED threadVars /\ WithinOne(nodeTip') /\ tip # NoTip
    BY <1>1, <1>e DEF NodeMove, NodeMayMove
  <2>2. At' = At /\ WithinOne(nodeTip)' /\ UNCHANGED <<tip, pc, caller, local, fetched, target>>
    BY <2>1 DEF At, Indexed, WithinOne, storeVars, threadVars
  <2>3. pc \in Idle \/ Branch[nodeTip] \subseteq Branch[nodeTip']
    BY <1>1, <1>e, <1>b DEF NodeMove, NodeMayMove, IInv, TypeInv, TypeOK
  <2>4. LocalsInv'
    BY <2>1, <2>2, <2>3 DEF IInv, LocalsInv, Idle
  <2>5. NodeNear'
    BY <2>1, <2>2 DEF NodeNear
  <2> QED BY <1>t, <2>1, <2>2, <2>4, <2>5, StoreFrame DEF IInv, Moves
<1>2. CASE Start
  <2>1. UNCHANGED storeVars /\ At' = At /\ nodeTip' = nodeTip
    BY <1>2 DEF Start, At, Indexed, storeVars
  <2>2. NodeNear' /\ LocalsInv'
    BY <1>2 DEF Start, IInv, NodeNear, LocalsInv, WithinOne, Indexed, storeVars
  <2> QED BY <1>t, <2>1, <2>2, StoreFrame DEF IInv, Moves
<1>3. CASE Wake
  <2>1. UNCHANGED storeVars /\ At' = At /\ nodeTip' = nodeTip
    BY <1>3 DEF Wake, At, Indexed, storeVars
  <2>2. NodeNear' /\ LocalsInv'
    BY <1>3 DEF Wake, IInv, NodeNear, LocalsInv, WithinOne, Indexed, storeVars
  <2> QED BY <1>t, <2>1, <2>2, StoreFrame DEF IInv, Moves
<1>4. CASE Count
  <2>1. CASE Fail("Rpc")
    BY <1>4, <2>1, FailStep DEF Count
  <2>2. CASE target' = Height[nodeTip] /\ UNCHANGED storeVars /\ UNCHANGED <<nodeTip, caller>>
             /\ (IF tip = NoTip THEN pc' = "seed" ELSE pc' = "probe" /\ local' = tip)
    <3>1. At' = At
      BY <1>4, <2>2 DEF Count, At, Indexed, storeVars
    <3>2. NodeNear' /\ LocalsInv'
      BY <2>2 DEF IInv, NodeNear, LocalsInv, WithinOne, Indexed, storeVars
    <3> QED BY <1>t, <2>2, <3>1, <3>2, StoreFrame DEF IInv, Moves
  <2> QED BY <1>4, <2>1, <2>2 DEF Count, RpcFails
<1>5. CASE Seed
  <2>1. CASE Fail("Rpc")
    BY <1>5, <2>1, FailStep DEF Seed
  <2>2. CASE set_tip(HashAt(nodeTip, target)) /\ Return /\ nodeTip' = nodeTip
    <3>1. tip = NoTip /\ nodeTip = Base /\ target = Height[Base] /\ At = Base
      BY <1>5 DEF Seed, IInv, LocalsInv, NodeNear, At, Indexed
    <3>2. tip' = Base /\ UNCHANGED <<utxo, undo>>
      BY <2>2, <3>1, HashAtUnique, BranchFacts, BaseAssumption DEF set_tip
    <3>3. tip' # NoTip /\ pc' = "wait" /\ At' = Base
      BY <2>2, <3>2, BaseAssumption, TreeAssumption DEF Return, At, Indexed
    <3>4. NodeNear'
      BY <2>2, <3>1, <3>2, <3>3, BranchFacts, BaseAssumption DEF NodeNear, WithinOne, Indexed
    <3>5. LocalsInv'
      BY <3>3 DEF LocalsInv
    <3>6. SetInv' /\ UndoLogExact'
      BY <3>1, <3>2, <3>3 DEF IInv, SetInv, UndoLogExact
    <3> QED BY <1>t, <3>1, <3>3, <3>4, <3>5, <3>6 DEF IInv, Moves
  <2> QED BY <1>5, <2>1, <2>2 DEF Seed, RpcFails
<1>6. CASE Probe
  <2>1. CASE Fail("ReorgTooDeep")
    BY <1>6, <2>1, FailStep DEF Probe
  <2>2. CASE pc' \in {"forward", "disconnect"} /\ ~Fail("ReorgTooDeep")
    <3>1. /\ UNCHANGED storeVars /\ UNCHANGED <<nodeTip, caller, local, fetched, target>>
          /\ tip # NoTip /\ local = tip /\ tip \in Block
      BY <1>6, <2>2 DEF Probe, IInv, LocalsInv, TypeInv, TypeOK
    <3>2. At' = At
      BY <1>6, <2>2, <3>1 DEF Probe, At, Indexed, storeVars
    <3>3. pc' = "forward" => tip \in Branch[nodeTip]
      <4>1. Height[tip] = 0 => tip = Genesis
        BY <3>1, TreeAssumption
      <4>2. Genesis \in Branch[nodeTip]
        BY BranchFacts DEF IInv, TypeInv, TypeOK
      <4> QED BY <1>6, <2>2, <3>1, <4>1, <4>2 DEF Probe
    <3>4. pc' = "disconnect" => tip # Genesis
      BY <1>6, <2>2, <3>1, TreeAssumption DEF Probe
    <3>5. NodeNear' /\ LocalsInv'
      BY <2>2, <3>1, <3>3, <3>4 DEF IInv, NodeNear, LocalsInv, WithinOne, Indexed, storeVars
    <3> QED BY <1>t, <3>1, <3>2, <3>5, StoreFrame DEF IInv, Moves
  <2> QED BY <1>6, <2>1, <2>2 DEF Probe
<1>7. CASE Disconnect
  BY <1>7, DisconnectStep
<1>8. CASE ParentHash
  <2>1. tip # NoTip /\ tip # Genesis /\ local = tip /\ tip \in Block
    BY <1>8 DEF ParentHash, IInv, LocalsInv, TypeInv, TypeOK
  <2>2. Parent[tip] \in Branch[nodeTip]
    BY <2>1, NearParent DEF IInv, NodeNear, TypeInv
  <2>3. Height[local] - 1 = Height[Parent[tip]]
    BY <2>1, TreeAssumption
  <2>4. NodeHas(Height[local] - 1) /\ HashAt(nodeTip, Height[local] - 1) = Parent[tip]
    BY <2>2, <2>3, BranchFacts, HashAtUnique DEF NodeHas, IInv, TypeInv, TypeOK
  <2>5. /\ local' = Parent[tip] /\ pc' = "step_back" /\ UNCHANGED storeVars
        /\ UNCHANGED <<nodeTip, caller>>
    BY <1>8, <1>e, <2>4 DEF ParentHash
  <2>6. At' = At
    BY <1>8, <2>5 DEF ParentHash, At, storeVars
  <2>7. NodeNear' /\ LocalsInv'
    BY <2>1, <2>5 DEF IInv, NodeNear, LocalsInv, WithinOne, Indexed, storeVars
  <2> QED BY <1>t, <2>5, <2>6, <2>7, StoreFrame DEF IInv, Moves
<1>9. CASE StepBack
  <2>1. tip # NoTip /\ tip # Genesis /\ tip \in Block /\ local = Parent[tip] /\ At = local
    BY <1>9 DEF StepBack, IInv, LocalsInv, TypeInv, TypeOK, At
  <2>2. /\ local \in Branch[nodeTip] /\ local \in Block /\ local # NoTip
    BY <2>1, NearParent, TreeAssumption DEF IInv, NodeNear, TypeInv
  <2>3. tip' = local /\ local' = local /\ nodeTip' = nodeTip /\ pc' = "probe"
        /\ UNCHANGED <<utxo, undo>>
    BY <1>9 DEF StepBack, set_tip
  <2>4. At' = At
    BY <2>1, <2>2, <2>3 DEF At, Indexed
  <2>5. NodeNear' /\ LocalsInv'
    BY <2>2, <2>3 DEF NodeNear, LocalsInv, WithinOne, Indexed
  <2>6. SetInv' /\ UndoLogExact'
    BY <2>3, <2>4 DEF IInv, SetInv, UndoLogExact
  <2> QED BY <1>t, <2>4, <2>5, <2>6 DEF IInv, Moves
<1>10. CASE Forward
  <2>1. tip # NoTip /\ local = tip /\ tip \in Branch[nodeTip] /\ tip \in Block /\ nodeTip \in Block
    BY <1>10 DEF Forward, IInv, LocalsInv, TypeInv, TypeOK
  <2>2. CASE Fail("Rpc")
    BY <1>10, <2>2, FailStep DEF Forward
  <2>3. CASE Return /\ UNCHANGED storeVars /\ nodeTip' = nodeTip
    <3>1. At' = At
      BY <1>10, <2>3 DEF Forward, Return, At, Indexed, storeVars
    <3>2. NodeNear' /\ LocalsInv'
      BY <2>1, <2>3 DEF Return, IInv, NodeNear, LocalsInv, WithinOne, Indexed, storeVars
    <3> QED BY <1>t, <2>3, <3>1, <3>2, StoreFrame DEF IInv, Moves
  <2>4. CASE /\ NodeHas(Height[local] + 1) /\ fetched' = HashAt(nodeTip, Height[local] + 1)
             /\ pc' = "fetch" /\ UNCHANGED storeVars /\ UNCHANGED <<nodeTip, caller, local>>
    <3>1. fetched' # Genesis /\ Parent[fetched'] = tip
      BY <2>1, <2>4, HashAtChild DEF NodeHas
    <3>f. fetched' \in Branch[nodeTip]
      BY <2>1, <2>4, HashAtHeight, TreeAssumption DEF NodeHas
    <3>2. At' = At
      BY <1>10, <2>4 DEF Forward, At, Indexed, storeVars
    <3>3. NodeNear' /\ LocalsInv'
      BY <2>1, <2>4, <3>1, <3>f DEF IInv, NodeNear, LocalsInv, WithinOne, Indexed, storeVars
    <3> QED BY <1>t, <2>4, <3>2, <3>3, StoreFrame DEF IInv, Moves
  <2> QED BY <1>10, <2>2, <2>3, <2>4 DEF Forward, RpcFails
<1>11. CASE Fetch
  <2>1. CASE Fail("Rpc")
    BY <1>11, <2>1, FailStep DEF Fetch
  <2>2. CASE /\ pc' = "apply" /\ UNCHANGED storeVars
             /\ UNCHANGED <<nodeTip, caller, local, fetched>>
    <3>1. At' = At
      BY <1>11, <2>2 DEF Fetch, At, Indexed, storeVars
    <3>2. NodeNear' /\ LocalsInv'
      BY <1>11, <2>2 DEF Fetch, IInv, NodeNear, LocalsInv, WithinOne, Indexed, storeVars
    <3> QED BY <1>t, <2>2, <3>1, <3>2, StoreFrame DEF IInv, Moves
  <2> QED BY <1>11, <2>1, <2>2 DEF Fetch, RpcFails
<1>12. CASE Apply
  BY <1>12, ApplyStep
<1>13. CASE Advance
  <2>1. /\ tip # NoTip /\ fetched # NoTip /\ fetched # Genesis /\ Parent[fetched] = tip
        /\ At = fetched /\ fetched \in Block /\ fetched \in Branch[nodeTip]
    BY <1>13, TreeAssumption DEF Advance, IInv, LocalsInv, TypeInv, TypeOK, At
  <2>2. /\ tip' = fetched /\ local' = fetched /\ pc' = "forward" /\ nodeTip' = nodeTip
        /\ UNCHANGED <<utxo, undo>>
    BY <1>13 DEF Advance, set_tip
  <2>3. At' = At
    BY <2>1, <2>2 DEF At, Indexed
  <2>4. NodeNear' /\ LocalsInv'
    BY <2>1, <2>2 DEF NodeNear, LocalsInv, WithinOne, Indexed
  <2>5. SetInv' /\ UndoLogExact'
    BY <2>2, <2>3 DEF IInv, SetInv, UndoLogExact
  <2> QED BY <1>t, <2>3, <2>4, <2>5 DEF IInv, Moves
<1>14. CASE Crash
  <2>1. pc \notin {"advance", "parent", "step_back"}
    BY <1>14, <1>e DEF Crash
  <2>2. UNCHANGED storeVars /\ pc' = "down" /\ nodeTip' = nodeTip /\ caller' = "run"
    BY <1>14 DEF Crash, Exit
  <2>3. At' = At
    BY <2>1, <2>2 DEF At, Indexed, storeVars
  <2>4. NodeNear' /\ LocalsInv'
    BY <2>2 DEF IInv, NodeNear, LocalsInv, WithinOne, Indexed, storeVars
  <2> QED BY <1>t, <2>2, <2>3, <2>4, StoreFrame DEF IInv, Moves
<1>15. CASE UNCHANGED vars
  BY <1>15, <1>t DEF vars, storeVars, threadVars, IInv, NodeNear, LocalsInv, SetInv,
                     UndoLogExact, At, Indexed, WithinOne, Moves
<1> QED
  BY <1>1, <1>2, <1>3, <1>4, <1>5, <1>6, <1>7, <1>8, <1>9, <1>10, <1>11, <1>12,
     <1>13, <1>14, <1>15 DEF Next, Tracker, CatchUp

LEMMA InvCorrect == ASSUME SafeEnv PROVE Spec => []IInv
  BY InitInv, InvStep, PTL DEF Spec

\* In a benign environment the set is the consensus set of the stored tip
\* whenever the process is down or waiting: tracker.rs and utxo.rs together
\* lose no output and leave none over, through any number of one-block
\* reorganisations, RPC errors and crashes outside the two windows.
THEOREM IndexExact == ASSUME SafeEnv PROVE Spec => []IndexMatchesTip
<1>1. IInv => IndexMatchesTip
  BY DEF IInv, SetInv, IndexMatchesTip, At, Idle
<1> QED BY <1>1, InvCorrect, PTL

\* In a benign environment the undo log always holds exactly the records of
\* the blocks above Base, each of which leads back to its parent's set.
THEOREM UndoExact == ASSUME SafeEnv PROVE Spec => []UndoLogExact
<1>1. IInv => UndoLogExact
  BY DEF IInv
<1> QED BY <1>1, InvCorrect, PTL

\* In a benign environment apply_block only ever gets a child of the stored
\* tip, although catch_up compares no prev_hash.
THEOREM AppliesOnTipHolds == ASSUME SafeEnv PROVE Spec => AppliesOnTip
<1>1. IInv /\ [Next]_vars => [Apply => Parent[fetched] = tip]_vars
  BY DEF IInv, LocalsInv, Apply
<1> QED BY <1>1, InvCorrect, PTL DEF Spec, AppliesOnTip

\* In a benign environment every fee handed to the sinks is complete, as no
\* prevout of an applied block is ever missing from the set.
THEOREM FeesExactHolds == ASSUME SafeEnv PROVE Spec => FeesExact
<1>1. ASSUME IInv, Apply
      PROVE  Fees(utxo, Txs[fetched]) =
               [i \in DOMAIN Txs[fetched] |->
                  SaturatingSub(Amount(Txs[fetched][i].ins), Amount(Txs[fetched][i].outs))]
  <2>1. /\ fetched \in Block \ {Genesis} /\ Parent[fetched] = tip
        /\ utxo = Ledger[tip]
    BY <1>1 DEF IInv, LocalsInv, SetInv, TypeInv, TypeOK, At, Indexed, Apply
  <2>2. Missing(utxo, Txs[fetched]) = {}
    BY <2>1, LedgerAssumption DEF Missing
  <2>3. \A ops : ops \ Missing(utxo, Txs[fetched]) = ops
    BY <2>2
  <2> QED BY <2>3 DEF Fees
<1>2. IInv /\ [Next]_vars =>
        [Apply => Fees(utxo, Txs[fetched]) =
           [i \in DOMAIN Txs[fetched] |->
              SaturatingSub(Amount(Txs[fetched][i].ins), Amount(Txs[fetched][i].outs))]]_vars
  BY <1>1
<1> QED BY <1>2, InvCorrect, PTL DEF Spec, FeesExact

\* In a benign environment a catch_up that returns Ok leaves the index on the
\* node's best chain, with the consensus set of its tip.
THEOREM CaughtUpExactHolds == ASSUME SafeEnv PROVE Spec => CaughtUpExact
<1>1. IInv /\ [Next]_vars =>
        [pc = "forward" /\ pc' = "wait" /\ Height[local] >= target
           => tip \in Branch[nodeTip] /\ utxo = Ledger[tip]]_vars
  BY DEF IInv, LocalsInv, SetInv, At, Indexed
<1> QED BY <1>1, InvCorrect, PTL DEF Spec, CaughtUpExact

\* In a benign environment the tracker implements the abstract index: every
\* batch moves it one block up or down the tree, every other step leaves it.
THEOREM TrackerImplementsIndex == ASSUME SafeEnv PROVE Spec => ImplementsIndex
<1>1. Init => Index!Init
  BY InitInv DEF Init, Index!Init, At, Indexed
<1>2. IInv /\ [Next]_vars => [Index!Next]_<<At, utxo>>
  <2> SUFFICES ASSUME IInv, [Next]_vars
               PROVE  Index!Next \/ UNCHANGED <<At, utxo>>
    OBVIOUS
  <2>1. IInv' /\ Moves
    BY InvStep
  <2>2. At' \in Block /\ At \in Block /\ utxo' = Ledger[At'] /\ utxo = Ledger[At]
    BY <2>1 DEF IInv, SetInv
  <2>3. CASE At' = At
    BY <2>2, <2>3
  <2>4. CASE At # Genesis /\ At' = Parent[At]
    BY <2>2, <2>4 DEF Index!Next, Index!DisconnectTip, Index!MoveTo
  <2>5. CASE At' \in Block \ {Genesis} /\ Parent[At'] = At
    BY <2>2, <2>5 DEF Index!Next, Index!ConnectBlock, Index!MoveTo
  <2> QED BY <2>1, <2>3, <2>4, <2>5 DEF Moves
<1> QED BY <1>1, <1>2, InvCorrect, PTL DEF Spec, ImplementsIndex, Index!Spec

-----------------------------------------------------------------------------
(* The tracker with its sink.                                              *)

\* An event is handled before catch_up goes on from set_tip, and only an error
\* leaves a running process without an open part.
EventInv ==
  /\ event # NoBlock => pc = "forward"
  /\ "sink_error" \in Env \/ pc = "down" \/ open

\* RowsInTheirPart, with the rows of a part that has failed.
PlacedInv ==
  /\ \A b \in rows : PartOf(b) = part
  /\ \A p \in DOMAIN files : \A b \in files[p] : PartOf(b) = p

-----------------------------------------------------------------------------
(* The composition and the tracker.                                        *)

LEMMA EventInit == SinkInit => EventInv
  BY DEF SinkInit, Init, EventInv

LEMMA EventStep == EventInv /\ [LiveNext]_allVars => EventInv'
<1> SUFFICES ASSUME EventInv, [LiveNext]_allVars PROVE EventInv'
  OBVIOUS
<1> USE DEF EventInv
<1>1. CASE StartLive
  BY <1>1 DEF StartLive, Start
<1>2. CASE event = NoBlock /\ AdvanceEmits
  BY <1>2 DEF AdvanceEmits, Advance
<1>3. CASE OtherStep
  <2>1. pc # "down"
    BY <1>3 DEF OtherStep, Wake, Count, Seed, Probe, Disconnect, ParentHash,
                StepBack, Forward, Fetch, Apply
  <2> QED BY <1>3, <2>1 DEF OtherStep, SinkGone, sinkVars
<1>4. CASE WriteBlock
  BY <1>4 DEF WriteBlock, vars, threadVars
<1>5. CASE WriteFails
  BY <1>5 DEF WriteFails, vars, threadVars
<1>6. CASE SinkPanics
  BY <1>6 DEF SinkPanics, SinkGone, Exit
<1>7. CASE Crash /\ SinkGone
  BY <1>7 DEF Crash, SinkGone, Exit
<1>8. CASE NodeMove /\ UNCHANGED sinkVars
  BY <1>8 DEF NodeMove, threadVars, sinkVars
<1>9. CASE UNCHANGED allVars
  BY <1>9 DEF allVars, vars, threadVars, sinkVars
<1> QED BY <1>1, <1>2, <1>3, <1>4, <1>5, <1>6, <1>7, <1>8, <1>9 DEF LiveNext

LEMMA EventHolds == LiveSpec => []EventInv
  BY EventInit, EventStep, PTL DEF LiveSpec

LEMMA StepOfTracker ==
  ASSUME "sink_error" \in Env => "crash" \in Env, EventInv, [LiveNext]_allVars
  PROVE  [Next]_vars
<1>1. CASE StartLive
  BY <1>1 DEF StartLive, Next, Tracker
<1>2. CASE event = NoBlock /\ AdvanceEmits
  BY <1>2 DEF AdvanceEmits, Next, Tracker, CatchUp
<1>3. CASE OtherStep
  BY <1>3 DEF OtherStep, Next, Tracker, CatchUp
<1>4. CASE WriteBlock \/ WriteFails
  BY <1>4 DEF WriteBlock, WriteFails
<1>5. CASE SinkPanics
  <2>1. pc = "forward" /\ "crash" \in Env
    BY <1>5 DEF SinkPanics, EventInv
  <2> QED BY <1>5, <2>1 DEF SinkPanics, Crash, Next
<1>6. CASE (Crash /\ SinkGone) \/ (NodeMove /\ UNCHANGED sinkVars)
  BY <1>6 DEF Next
<1>7. CASE UNCHANGED allVars
  BY <1>7 DEF allVars
<1> QED BY <1>1, <1>2, <1>3, <1>4, <1>5, <1>6, <1>7 DEF LiveNext

\* The tracker with its sink is still the tracker: handling an event in the
\* callback takes no step of its own, and a callback that panics is a crash at
\* a moment at which the tracker allows for one.  So what is proved of
\* LiveTracker holds of `bidx live --out'.
THEOREM SinkKeepsTracker ==
  ASSUME "sink_error" \in Env => "crash" \in Env
  PROVE  LiveSpec => Spec
<1>1. SinkInit => Init
  BY DEF SinkInit
<1>2. EventInv /\ [LiveNext]_allVars => [Next]_vars
  BY StepOfTracker
<1> QED BY <1>1, <1>2, EventHolds, PTL DEF LiveSpec, Spec

-----------------------------------------------------------------------------
(* Rows and parts.                                                         *)

LEMMA FinishedPlaced ==
  ASSUME NEW fs, NEW p, NEW bs,
         \A q \in DOMAIN fs : \A b \in fs[q] : PartOf(b) = q,
         \A b \in bs : PartOf(b) = p
  PROVE  \A q \in DOMAIN Finished(fs, p, bs) : \A b \in Finished(fs, p, bs)[q] : PartOf(b) = q
  BY DEF Finished

LEMMA TruncatedPlaced ==
  ASSUME NEW fs, NEW p, \A q \in DOMAIN fs : \A b \in fs[q] : PartOf(b) = q
  PROVE  \A q \in DOMAIN Truncated(fs, p) : \A b \in Truncated(fs, p)[q] : PartOf(b) = q
  BY DEF Truncated

LEMMA RotatedPlaced ==
  ASSUME PlacedInv
  PROVE  \A q \in DOMAIN Rotated : \A b \in Rotated[q] : PartOf(b) = q
<1>1. CASE open
  BY <1>1, FinishedPlaced, TruncatedPlaced DEF PlacedInv, Rotated
<1>2. CASE ~open
  BY <1>2, TruncatedPlaced DEF PlacedInv, Rotated
<1> QED BY <1>1, <1>2

LEMMA PlacedStep == PlacedInv /\ [LiveNext]_allVars => PlacedInv'
<1> SUFFICES ASSUME PlacedInv, [LiveNext]_allVars PROVE PlacedInv'
  OBVIOUS
<1> USE DEF PlacedInv, PartOf
<1>1. CASE StartLive
  <2>1. \A q \in DOMAIN files' : \A b \in files'[q] : PartOf(b) = q
    BY <1>1, TruncatedPlaced DEF StartLive
  <2> QED BY <1>1, <2>1 DEF StartLive
<1>2. CASE event = NoBlock /\ AdvanceEmits
  BY <1>2 DEF AdvanceEmits
<1>3. CASE OtherStep
  BY <1>3 DEF OtherStep, SinkGone, sinkVars
<1>4. CASE WriteBlock
  <2>1. CASE Rotates
    <3>1. \A q \in DOMAIN files' : \A b \in files'[q] : PartOf(b) = q
      BY <1>4, <2>1, RotatedPlaced DEF WriteBlock
    <3> QED BY <1>4, <2>1, <3>1 DEF WriteBlock
  <2>2. CASE ~Rotates
    BY <1>4, <2>2 DEF WriteBlock, Rotates
  <2> QED BY <2>1, <2>2
<1>5. CASE WriteFails
  <2>1. CASE ~Rotates
    BY <1>5, <2>1 DEF WriteFails, Rotates
  <2>2. CASE Rotates
    <3>1. \A q \in DOMAIN files' : \A b \in files'[q] : PartOf(b) = q
      BY <1>5, <2>2, RotatedPlaced, FinishedPlaced DEF WriteFails
    <3>2. rows' = {} \/ (rows' \subseteq {event} /\ part' = PartOf(event))
      BY <1>5, <2>2 DEF WriteFails
    <3> QED BY <3>1, <3>2
  <2> QED BY <2>1, <2>2
<1>6. CASE SinkPanics \/ (Crash /\ SinkGone)
  BY <1>6 DEF SinkPanics, SinkGone
<1>7. CASE NodeMove /\ UNCHANGED sinkVars
  BY <1>7 DEF sinkVars
<1>8. CASE UNCHANGED allVars
  BY <1>8 DEF allVars, sinkVars
<1> QED BY <1>1, <1>2, <1>3, <1>4, <1>5, <1>6, <1>7, <1>8 DEF LiveNext

\* Whatever fails, wherever the process dies and whichever way reorganisations
\* and restarts cross a boundary, rotate_if_needed keeps the rows of a block
\* out of every part file but that of its height.
THEOREM RowsInTheirPartHolds == LiveSpec => []RowsInTheirPart
<1>1. SinkInit => PlacedInv
  BY DEF SinkInit, PlacedInv
<1>2. PlacedInv => RowsInTheirPart
  BY FinishedPlaced DEF PlacedInv, RowsInTheirPart, Parts
<1> QED BY <1>1, <1>2, PlacedStep, PTL DEF LiveSpec

-----------------------------------------------------------------------------
(* Holes, under SafeEnv.                                                   *)

\* An event is about the block the index has just reached, there are no rows
\* before there is a tip, and the part that is open cannot be read.
WriterInv ==
  /\ rows \subseteq Block
  /\ \A q \in DOMAIN files : files[q] \subseteq Block
  /\ event # NoBlock => event = tip
  /\ tip = NoTip => rows = {} /\ \A q \in DOMAIN files : files[q] = {}
  /\ open => part \notin DOMAIN files

\* The open part has no hole.
OpenInv ==
  open => \A b \in rows, c \in Branch[Indexed] :
            PartOf(c) = part /\ Height[c] >= Height[b] => c \in rows \cup {event}

\* A finished part has a row of every indexed block of it but the lost one.
FinishedInv ==
  \A q \in DOMAIN files : \A b \in files[q], c \in Branch[Indexed] :
    PartOf(c) = q /\ Height[c] >= Height[b] =>
      c \in files[q] \cup {event} \/ LostInCrash(c)

\* A height past the index belongs to a part that was being written when the
\* index had that height, as long as the writer has caught up.
Reach(h) == h <= Height[Indexed] \/ (h = Height[Indexed] + 1 /\ event = NoBlock /\ pc # "down")

\* A finished part has rows at every height from its first up to the index and,
\* unless the next event or the next start creates it again, one further: what
\* a lost block replaced is there.
HeightsInv ==
  \A q \in DOMAIN files : \A b \in files[q] : \A h \in Nat :
    h \div BlocksPerPart = q /\ h >= Height[b] /\ Reach(h) =>
      \E d \in files[q] : Height[d] = h

HolesInv == WriterInv /\ OpenInv /\ FinishedInv /\ HeightsInv

LEMMA PartMonotone ==
  ASSUME NEW g \in Nat, NEW h \in Nat, g <= h
  PROVE  g \div BlocksPerPart <= h \div BlocksPerPart
  BY SinkAssumption

\* Two heights of a part have every height between them in it.
LEMMA PartInterval ==
  ASSUME NEW g \in Nat, NEW k \in Nat, NEW h \in Nat, g <= k, k <= h,
         g \div BlocksPerPart = h \div BlocksPerPart
  PROVE  k \div BlocksPerPart = h \div BlocksPerPart
<1>1. /\ g \div BlocksPerPart <= k \div BlocksPerPart
      /\ k \div BlocksPerPart <= h \div BlocksPerPart
  BY PartMonotone
<1>2. /\ g \div BlocksPerPart \in Int
      /\ k \div BlocksPerPart \in Int
      /\ h \div BlocksPerPart \in Int
  BY SinkAssumption
<1> QED BY <1>1, <1>2

LEMMA HolesInit == SinkInit => HolesInv
  BY DEF SinkInit, Init, HolesInv, WriterInv, OpenInv, FinishedInv, HeightsInv

LEMMA IndexedType ==
  ASSUME IInv
  PROVE  /\ Indexed \in Block /\ Height[Indexed] \in Nat
         /\ Indexed \in Branch[Indexed]
         /\ \A c \in Branch[Indexed] : c \in Block /\ Height[c] \in Nat /\ Height[c] <= Height[Indexed]
<1>1. Indexed \in Block
  BY BaseAssumption DEF IInv, TypeInv, TypeOK, Indexed
<1>2. \A c \in Branch[Indexed] : c \in Block /\ Height[c] <= Height[Indexed]
  BY <1>1, BranchFacts
<1>3. \A c \in Block : Height[c] \in Nat
  BY TreeAssumption
<1>4. Indexed \in Branch[Indexed]
  BY <1>1, BranchFacts
<1> QED BY <1>1, <1>2, <1>3, <1>4

\* The node moves, or nothing does.
LEMMA HolesSame ==
  ASSUME HolesInv, UNCHANGED sinkVars, tip' = tip, pc' = pc
  PROVE  HolesInv'
<1>1. Indexed' = Indexed /\ event' = event /\ part' = part /\ open' = open
      /\ rows' = rows /\ files' = files
  BY DEF Indexed, sinkVars
<1> USE <1>1 DEF HolesInv
<1>2. WriterInv'
  BY DEF WriterInv
<1>3. OpenInv'
  BY DEF OpenInv, PartOf
<1>4. FinishedInv'
  BY DEF FinishedInv, LostInCrash, LastOfPart, PartOf
<1>5. HeightsInv'
  BY DEF HeightsInv, Reach
<1> QED BY <1>2, <1>3, <1>4, <1>5

\* The tracker takes a step that is not an event, and the index stays or goes
\* back.
LEMMA HolesBack ==
  ASSUME HolesInv, IInv, IInv', UNCHANGED sinkVars, event = NoBlock,
         pc # "down", pc' # "down",
         Branch[Indexed'] \subseteq Branch[Indexed],
         Height[Indexed'] <= Height[Indexed],
         tip' = NoTip => tip = NoTip
  PROVE  HolesInv'
<1>1. event' = NoBlock /\ part' = part /\ open' = open /\ rows' = rows /\ files' = files
  BY DEF sinkVars
<1> USE <1>1 DEF HolesInv
<1>2. WriterInv'
  BY DEF WriterInv
<1>3. OpenInv'
  BY DEF OpenInv, PartOf
<1>4. FinishedInv'
  <2>1. \A c : LostInCrash(c) => LostInCrash(c)'
    BY DEF LostInCrash, LastOfPart, PartOf
  <2> QED BY <2>1 DEF FinishedInv, PartOf
<1>5. HeightsInv'
  <2>1. Height[Indexed] \in Nat /\ Height[Indexed'] \in Nat
    BY IndexedType, BaseAssumption, TreeAssumption DEF IInv, TypeInv, TypeOK, Indexed
  <2>2. \A h \in Nat : Reach(h)' => Reach(h)
    BY <2>1 DEF Reach
  <2> QED BY <2>2 DEF HeightsInv
<1> QED BY <1>2, <1>3, <1>4, <1>5

\* The process ends: a block whose event was pending is lost.
LEMMA HolesGone ==
  ASSUME HolesInv, IInv, SinkGone, tip' = tip, pc' = "down",
         event # NoBlock => "crash" \in Env
  PROVE  HolesInv'
<1>1. Indexed' = Indexed /\ event' = NoBlock /\ ~open' /\ rows' = {} /\ files' = files
  BY DEF Indexed, SinkGone
<1> USE <1>1 DEF HolesInv
<1>2. WriterInv'
  BY DEF WriterInv
<1>3. OpenInv'
  BY DEF OpenInv
<1>4. FinishedInv'
  <2>1. \A c \in Block : LostInCrash(c) => LostInCrash(c)'
    BY DEF LostInCrash, LastOfPart, PartOf
  <2>2. \A c \in Block : c = event => LostInCrash(c)'
    BY SinkAssumption DEF LostInCrash, WriterInv
  <2>3. \A c \in Branch[Indexed] : c \in Block
    BY IndexedType
  <2> QED BY <2>1, <2>2, <2>3 DEF FinishedInv, PartOf
<1>5. HeightsInv'
  <2>1. \A h \in Nat : Reach(h)' => Reach(h)
    BY DEF Reach
  <2> QED BY <2>1 DEF HeightsInv
<1> QED BY <1>2, <1>3, <1>4, <1>5

\* A restart creates the part of the next height again, and with it the part
\* of the tip unless the tip is its last block.
LEMMA HolesStart ==
  ASSUME HolesInv, EventInv, IInv, StartLive
  PROVE  HolesInv'
<1>1. /\ Indexed' = Indexed /\ event = NoBlock /\ event' = NoBlock /\ tip' = tip
      /\ pc = "down" /\ pc' = "count"
      /\ part' = StartPart /\ open' /\ rows' = {} /\ files' = Truncated(files, StartPart)
  BY DEF Indexed, StartLive, Start, EventInv, storeVars
<1>2. /\ DOMAIN files' = DOMAIN files \ {StartPart}
      /\ \A q \in DOMAIN files' : files'[q] = files[q]
  BY <1>1 DEF Truncated
<1>3. WriterInv'
  BY <1>1, <1>2 DEF HolesInv, WriterInv
<1>4. OpenInv'
  BY <1>1 DEF OpenInv
<1>5. FinishedInv'
  <2> SUFFICES ASSUME NEW q \in DOMAIN files', NEW b \in files'[q], NEW c \in Branch[Indexed],
                      PartOf(c) = q, Height[c] >= Height[b], c \notin files'[q]
               PROVE  LostInCrash(c)'
    BY <1>1 DEF FinishedInv, PartOf
  <2>1. c \in Block /\ c # NoBlock
    BY IndexedType, SinkAssumption
  <2>2. LostInCrash(c)
    BY <1>1, <1>2, <2>1 DEF HolesInv, FinishedInv
  <2>3. CASE LastOfPart(c)
    BY <2>2, <2>3 DEF LostInCrash, LastOfPart, PartOf
  <2>4. CASE c = tip
    <3>1. tip # NoTip
      BY <2>1, <2>4, TreeAssumption
    <3>2. q # (Height[c] + 1) \div BlocksPerPart
      BY <1>2, <2>4, <3>1 DEF StartPart
    <3> QED BY <2>2, <3>2 DEF LostInCrash, LastOfPart, PartOf
  <2> QED BY <2>2, <2>3, <2>4 DEF LostInCrash
<1>6. HeightsInv'
  <2> SUFFICES ASSUME NEW q \in DOMAIN files', NEW b \in files'[q], NEW h \in Nat,
                      h \div BlocksPerPart = q, h >= Height[b], Reach(h)'
               PROVE  \E d \in files'[q] : Height[d] = h
    BY DEF HeightsInv
  <2>1. tip # NoTip
    BY <1>2 DEF HolesInv, WriterInv
  <2>2. h # Height[Indexed] + 1
    BY <1>2, <2>1 DEF StartPart, Indexed
  <2>3. Reach(h)
    BY <1>1, <2>2 DEF Reach
  <2> QED BY <1>2, <2>3 DEF HolesInv, HeightsInv
<1> QED BY <1>3, <1>4, <1>5, <1>6 DEF HolesInv

\* The index moves on to the child of its tip, whose event is now pending.
LEMMA HolesAdvance ==
  ASSUME HolesInv, IInv, event = NoBlock, AdvanceEmits
  PROVE  HolesInv'
<1>1. /\ pc = "advance" /\ pc' = "forward"
      /\ tip' = fetched /\ event' = fetched
      /\ part' = part /\ open' = open /\ rows' = rows /\ files' = files
  BY DEF AdvanceEmits, Advance, set_tip
<1>2. /\ fetched \in Block \ {Genesis} /\ Parent[fetched] = Indexed
      /\ tip # NoTip
  BY <1>1, TreeAssumption DEF IInv, TypeInv, TypeOK, LocalsInv, Indexed
<1>3. Indexed' = fetched
  BY <1>1, <1>2, TreeAssumption DEF Indexed
<1>4. /\ Branch[fetched] = Branch[Indexed] \cup {fetched}
      /\ Height[fetched] = Height[Indexed] + 1 /\ Height[Indexed] \in Nat
  BY <1>2, IndexedType, TreeAssumption, BranchAssumption
<1>5. WriterInv'
  BY <1>1, <1>2, TreeAssumption DEF HolesInv, WriterInv
<1>6. OpenInv'
  BY <1>1, <1>3, <1>4, IndexedType, SinkAssumption DEF HolesInv, OpenInv, PartOf
<1>7. FinishedInv'
  <2>1. \A c : LostInCrash(c) => LostInCrash(c)'
    BY <1>1 DEF LostInCrash, LastOfPart, PartOf
  <2>2. \A c \in Branch[Indexed] : c # NoBlock
    BY IndexedType, SinkAssumption
  <2> QED BY <1>1, <1>3, <1>4, <2>1, <2>2 DEF HolesInv, FinishedInv, PartOf
<1>8. HeightsInv'
  <2>1. \A h \in Nat : Reach(h)' => Reach(h)
    BY <1>1, <1>2, <1>3, <1>4, SinkAssumption DEF Reach
  <2> QED BY <1>1, <2>1 DEF HolesInv, HeightsInv
<1> QED BY <1>5, <1>6, <1>7, <1>8 DEF HolesInv

\* A part other than the tip's that has the height after the tip begins there.
LEMMA NextPart ==
  ASSUME NEW b \in Block, NEW t \in Block, PartOf(b) = (Height[t] + 1) \div BlocksPerPart,
         PartOf(t) # PartOf(b), Height[b] <= Height[t] + 1
  PROVE  Height[b] = Height[t] + 1
<1>1. Height[b] \in Nat /\ Height[t] \in Nat
  BY TreeAssumption
<1>2. Height[b] <= Height[t] => PartOf(t) = PartOf(b)
  BY <1>1, PartInterval DEF PartOf
<1> QED BY <1>1, <1>2

\* The rows are added to the open part.
LEMMA HolesWrite ==
  ASSUME HolesInv, PlacedInv, IInv, WriteBlock, pc = "forward", ~Rotates
  PROVE  HolesInv'
<1>1. /\ event # NoBlock /\ event = tip /\ event' = NoBlock /\ tip' = tip /\ pc' = pc
      /\ part = PartOf(event) /\ part' = part /\ open /\ open' = open
      /\ rows' = rows \cup {event} /\ files' = files
  BY DEF WriteBlock, Rotates, HolesInv, WriterInv, vars, storeVars, threadVars
<1>2. Indexed' = Indexed /\ tip \in Block /\ tip # NoTip /\ Indexed = tip
  BY <1>1, TreeAssumption DEF Indexed, IInv, TypeInv, TypeOK, LocalsInv
<1>3. \A c \in Branch[Indexed] : Height[c] \in Nat /\ Height[c] <= Height[tip]
  BY <1>2, IndexedType
<1>4. WriterInv'
  BY <1>1, <1>2 DEF HolesInv, WriterInv
<1>5. OpenInv'
  <2> SUFFICES ASSUME NEW b \in rows', NEW c \in Branch[Indexed],
                      PartOf(c) = part, Height[c] >= Height[b]
               PROVE  c \in rows'
    BY <1>1, <1>2 DEF OpenInv, PartOf
  <2>1. CASE b \in rows
    BY <1>1, <2>1 DEF HolesInv, OpenInv
  <2>2. CASE b = tip
    <3>1. Height[c] = Height[tip]
      BY <1>2, <1>3, <2>2, IndexedType
    <3>2. c = tip
      BY <1>2, <3>1, IndexedType, BranchAssumption
    <3> QED BY <1>1, <3>2
  <2> QED BY <1>1, <2>1, <2>2
<1>6. FinishedInv'
  <2> SUFFICES ASSUME NEW q \in DOMAIN files, NEW b \in files[q], NEW c \in Branch[Indexed],
                      PartOf(c) = q, Height[c] >= Height[b]
               PROVE  c \in files[q] \/ LostInCrash(c)'
    BY <1>1, <1>2 DEF FinishedInv, PartOf
  <2>1. c # event
    BY <1>1 DEF HolesInv, WriterInv
  <2>2. LostInCrash(c) => LostInCrash(c)'
    BY <1>1 DEF LostInCrash, LastOfPart, PartOf
  <2> QED BY <2>1, <2>2 DEF HolesInv, FinishedInv
<1>7. HeightsInv'
  <2> SUFFICES ASSUME NEW q \in DOMAIN files, NEW b \in files[q], NEW h \in Nat,
                      h \div BlocksPerPart = q, h >= Height[b], Reach(h)'
               PROVE  \E d \in files[q] : Height[d] = h
    BY <1>1 DEF HeightsInv
  <2>1. CASE h <= Height[Indexed]
    BY <2>1 DEF HolesInv, HeightsInv, Reach
  <2>2. CASE h = Height[Indexed] + 1
    <3>1. b \in Block /\ PartOf(b) = q /\ q # PartOf(tip)
      BY <1>1 DEF HolesInv, WriterInv, PlacedInv
    <3>2. Height[b] = h
      BY <1>2, <2>2, <3>1, NextPart
    <3> QED BY <3>2
  <2> QED BY <1>2, <2>1, <2>2 DEF Reach
<1> QED BY <1>4, <1>5, <1>6, <1>7 DEF HolesInv

\* The part is finished, without a hole, and that of the event created.
LEMMA HolesRotate ==
  ASSUME HolesInv, PlacedInv, IInv, WriteBlock, pc = "forward", open, Rotates
  PROVE  HolesInv'
<1>1. /\ event # NoBlock /\ event = tip /\ event' = NoBlock /\ tip' = tip /\ pc' = pc
      /\ part # PartOf(event) /\ part' = PartOf(event) /\ open'
      /\ rows' = {event} /\ files' = Truncated(Finished(files, part, rows), PartOf(event))
  BY DEF WriteBlock, Rotates, Rotated, HolesInv, WriterInv, vars, storeVars, threadVars
<1>2. Indexed' = Indexed /\ tip \in Block /\ tip # NoTip /\ Indexed = tip
  BY <1>1, TreeAssumption DEF Indexed, IInv, TypeInv, TypeOK, LocalsInv
<1>3. \A c \in Branch[tip] : c \in Block /\ Height[c] \in Nat /\ Height[c] <= Height[tip]
  BY <1>2, IndexedType
<1>4. DOMAIN files' = (DOMAIN files \cup {part}) \ {PartOf(tip)}
  BY <1>1 DEF Truncated, Finished
<1>5. \A q \in DOMAIN files' : IF q = part THEN files'[q] = rows
                                          ELSE q \in DOMAIN files /\ files'[q] = files[q]
  BY <1>1, <1>4 DEF Truncated, Finished
<1>6. WriterInv'
  BY <1>1, <1>2, <1>4, <1>5 DEF HolesInv, WriterInv
<1>7. OpenInv'
  <2> SUFFICES ASSUME NEW c \in Branch[tip], Height[c] >= Height[tip]
               PROVE  c = tip
    BY <1>1, <1>2 DEF OpenInv, PartOf
  <2>1. Height[c] = Height[tip]
    BY <1>2, <1>3, TreeAssumption
  <2> QED BY <1>2, <2>1, IndexedType, BranchAssumption
<1>8. FinishedInv'
  <2> SUFFICES ASSUME NEW q \in DOMAIN files', NEW b \in files'[q], NEW c \in Branch[tip],
                      PartOf(c) = q, Height[c] >= Height[b]
               PROVE  c \in files'[q] \/ LostInCrash(c)'
    BY <1>1, <1>2 DEF FinishedInv, PartOf
  <2>1. c # event
    BY <1>1, <1>4
  <2>2. CASE q = part
    BY <1>2, <1>5, <2>1, <2>2 DEF HolesInv, OpenInv
  <2>3. CASE q # part
    <3>1. LostInCrash(c) => LostInCrash(c)'
      BY <1>1 DEF LostInCrash, LastOfPart, PartOf
    <3> QED BY <1>2, <1>5, <2>1, <2>3, <3>1 DEF HolesInv, FinishedInv
  <2> QED BY <2>2, <2>3
<1>9. HeightsInv'
  <2> SUFFICES ASSUME NEW q \in DOMAIN files', NEW b \in files'[q], NEW h \in Nat,
                      h \div BlocksPerPart = q, h >= Height[b], Reach(h)'
               PROVE  \E d \in files'[q] : Height[d] = h
    BY DEF HeightsInv
  <2>1. b \in Block /\ PartOf(b) = q /\ q # PartOf(tip)
    BY <1>1, <1>4, <1>5 DEF HolesInv, WriterInv, PlacedInv
  <2>2. CASE h = Height[tip] + 1
    <3>1. Height[b] = h
      BY <1>2, <2>1, <2>2, NextPart
    <3> QED BY <3>1
  <2>3. CASE h <= Height[tip] /\ q = part
    <3>1. PICK c \in Branch[tip] : Height[c] = h
      BY <1>2, <2>3, TreeAssumption, BranchAssumption
    <3>2. PartOf(c) = part /\ Height[c] >= Height[b] /\ c # event
      BY <1>1, <2>1, <2>3, <3>1 DEF PartOf
    <3>3. c \in rows
      BY <1>2, <1>5, <2>3, <3>2 DEF HolesInv, OpenInv
    <3> QED BY <1>5, <2>3, <3>1, <3>3
  <2>4. CASE h <= Height[tip] /\ q # part
    BY <1>2, <1>5, <2>4 DEF HolesInv, HeightsInv, Reach
  <2> QED BY <1>2, <2>2, <2>3, <2>4 DEF Reach
<1> QED BY <1>6, <1>7, <1>8, <1>9 DEF HolesInv

\* Where the index goes in a step that handles no event.
LEMMA IndexBack ==
  ASSUME IInv, IInv', OtherStep
  PROVE  /\ Branch[Indexed'] \subseteq Branch[Indexed]
         /\ Height[Indexed'] <= Height[Indexed]
         /\ tip' = NoTip => tip = NoTip
         /\ pc' = "down" => tip' = tip
<1>1. Indexed \in Block /\ Height[Indexed] \in Nat
  BY IndexedType
<1>2. CASE Seed /\ tip' # tip
  <2>1. tip = NoTip /\ nodeTip = Base /\ target = Height[Base] /\ pc' = "wait"
        /\ tip' = HashAt(nodeTip, target)
    BY <1>2 DEF Seed, set_tip, Return, Fail, RpcFails, storeVars, IInv, NodeNear, LocalsInv
  <2>2. HashAt(Base, Height[Base]) = Base
    BY HashAtUnique, BranchFacts, BaseAssumption
  <2>3. tip' = Base /\ Base # NoTip
    BY <2>1, <2>2, BaseAssumption, TreeAssumption
  <2>4. Indexed' = Indexed
    BY <2>1, <2>3 DEF Indexed
  <2> QED BY <1>1, <2>1, <2>3, <2>4
<1>3. CASE StepBack
  <2>1. tip' = local /\ local = Parent[tip] /\ tip # NoTip /\ tip # Genesis /\ pc' = "probe"
    BY <1>3 DEF StepBack, set_tip, IInv, LocalsInv
  <2>2. tip \in Block /\ Indexed = tip /\ Parent[tip] \in Block
    BY <1>1, <2>1, TreeAssumption DEF Indexed
  <2>3. Indexed' = Parent[tip] /\ Parent[tip] # NoTip
    BY <2>1, <2>2, TreeAssumption DEF Indexed
  <2>4. Branch[tip] = Branch[Parent[tip]] \cup {tip} /\ Height[tip] = Height[Parent[tip]] + 1
    BY <2>1, <2>2, TreeAssumption, BranchAssumption
  <2> QED BY <2>1, <2>2, <2>3, <2>4, TreeAssumption
<1>4. CASE tip' = tip
  <2>1. Indexed' = Indexed
    BY <1>4 DEF Indexed
  <2> QED BY <1>1, <1>4, <2>1
<1>5. tip' = tip \/ (Seed /\ tip' # tip) \/ StepBack
  BY DEF OtherStep, Wake, Count, Probe, Disconnect, disconnect_block, ParentHash, Forward,
         Fetch, Apply, apply_block, RpcFails, Fail, storeVars
<1> QED BY <1>2, <1>3, <1>4, <1>5

LEMMA HolesStep ==
  ASSUME SafeEnv, HolesInv, PlacedInv, EventInv, IInv, IInv', [LiveNext]_allVars
  PROVE  HolesInv'
<1>1. "sink_error" \notin Env
  BY DEF SafeEnv
<1>2. CASE StartLive
  BY <1>2, HolesStart
<1>3. CASE event = NoBlock /\ AdvanceEmits
  BY <1>3, HolesAdvance
<1>4. CASE OtherStep
  <2>1. pc # "down" /\ event = NoBlock
    BY <1>4 DEF OtherStep, Wake, Count, Seed, Probe, Disconnect, ParentHash,
                StepBack, Forward, Fetch, Apply
  <2>2. CASE pc' = "down"
    BY <1>4, <2>1, <2>2, IndexBack, HolesGone DEF OtherStep
  <2>3. CASE pc' # "down"
    BY <1>4, <2>1, <2>3, IndexBack, HolesBack DEF OtherStep
  <2> QED BY <2>2, <2>3
<1>5. CASE WriteBlock
  <2>1. pc = "forward" /\ open
    BY <1>1, <1>5 DEF WriteBlock, EventInv
  <2> QED BY <1>5, <2>1, HolesWrite, HolesRotate
<1>6. CASE WriteFails
  BY <1>1, <1>6 DEF WriteFails
<1>7. CASE SinkPanics
  BY <1>1, <1>7 DEF SinkPanics, EventInv
<1>8. CASE Crash /\ SinkGone
  <2>1. event # NoBlock => "crash" \in Env
    BY <1>8 DEF Crash, EventInv
  <2>2. tip' = tip /\ pc' = "down"
    BY <1>8 DEF Crash, Exit, storeVars
  <2> QED BY <1>8, <2>1, <2>2, HolesGone
<1>9. CASE (NodeMove /\ UNCHANGED sinkVars) \/ UNCHANGED allVars
  <2>1. UNCHANGED sinkVars /\ tip' = tip /\ pc' = pc
    BY <1>9 DEF NodeMove, allVars, vars, storeVars, threadVars
  <2> QED BY <2>1, HolesSame
<1> QED BY <1>2, <1>3, <1>4, <1>5, <1>6, <1>7, <1>8, <1>9 DEF LiveNext

LEMMA HolesImply ==
  ASSUME HolesInv, IInv
  PROVE  NoHoles
<1> SUFFICES ASSUME NEW p \in DOMAIN Parts, NEW b \in Parts[p], NEW c \in Branch[Indexed],
                    c # event, PartOf(c) = p, Height[c] >= Height[b]
             PROVE  \/ c \in Parts[p]
                    \/ LostInCrash(c) /\ \E d \in Parts[p] : Height[d] = Height[c]
  BY DEF NoHoles, Handled
<1>1. CASE open /\ p = part
  <2>1. Parts[p] = rows
    BY <1>1 DEF Parts, Finished
  <2> QED BY <1>1, <2>1 DEF HolesInv, OpenInv
<1>2. CASE ~(open /\ p = part)
  <2>1. p \in DOMAIN files /\ Parts[p] = files[p]
    BY <1>2 DEF Parts, Finished
  <2>2. c \in files[p] \/ LostInCrash(c)
    BY <2>1 DEF HolesInv, FinishedInv
  <2>3. Height[c] \in Nat /\ Reach(Height[c])
    BY IndexedType DEF Reach
  <2>4. \E d \in files[p] : Height[d] = Height[c]
    BY <2>1, <2>3 DEF HolesInv, HeightsInv, PartOf
  <2> QED BY <2>1, <2>2, <2>4
<1> QED BY <1>1, <1>2

\* Under benign conditions a part file has no hole, wherever the process dies
\* and however reorganisations cross a boundary, except for a block that
\* replaced another and whose event a crash swallowed.
THEOREM NoHolesHolds == ASSUME SafeEnv PROVE LiveSpec => []NoHoles
<1>1. SinkInit => PlacedInv
  BY DEF SinkInit, PlacedInv
<1>2. LiveSpec => []PlacedInv
  BY <1>1, PlacedStep, PTL DEF LiveSpec
<1>3. LiveSpec => Spec
  BY SinkKeepsTracker DEF SafeEnv
<1>4. LiveSpec => []IInv
  BY <1>3, InvCorrect, PTL
<1>5. SafeEnv /\ HolesInv /\ PlacedInv /\ EventInv /\ IInv /\ IInv' /\ [LiveNext]_allVars
        => HolesInv'
  BY HolesStep
<1>6. HolesInv /\ IInv => NoHoles
  BY HolesImply
<1>7. SafeEnv
  OBVIOUS
<1> QED BY <1>2, <1>4, <1>5, <1>6, <1>7, HolesInit, EventHolds, PTL DEF LiveSpec

=============================================================================
