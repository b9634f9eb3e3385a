---------------------------- MODULE LiveTracker -----------------------------
(***************************************************************************)
(* The live tracker of crates/bidx-live/src/tracker.rs: one thread that    *)
(* keeps the UTXO store in step with a node over JSON-RPC.  Each RPC call  *)
(* and each store write of catch_up is a step of its own, so that the node *)
(* may move, and the process may die, between any two of them.             *)
(*                                                                         *)
(* The node's best block is nodeTip.  Env names the adversities a run      *)
(* allows beyond the benign ones, which are always possible:               *)
(*   "rpc_error"        any RPC may fail, except the one of parent_error   *)
(*   "parent_error"     getblockhash(height - 1) after a disconnect fails  *)
(*   "crash"            the process dies, outside the two windows below    *)
(*   "crash_apply"      ... between apply_block and its set_tip            *)
(*   "crash_disconnect" ... between disconnect_block and its set_tip       *)
(*   "deep_reorg"       the node leaves the index more than one block off  *)
(*                      its best chain                                     *)
(*   "race"             the node reorganises while catch_up is running     *)
(*   "base_reorg"       the node drops a block bulk parsing indexed        *)
(*   "gap"              blocks arrive between the bulk parse and the first *)
(*                      start of the tracker                               *)
(*   "sink_error"       (LiveSink) a call of the Parquet sink fails        *)
(* Benign: the node extends its chain at any time, and moves to a branch   *)
(* that leaves the index at most one block off while the tracker is idle.  *)
(***************************************************************************)
EXTENDS BlockTree

CONSTANTS Base,           \* the last block the bulk parse indexed
          MaxReorgDepth,  \* --max-reorg-depth
          ZmqHwm,         \* notifications the SUB socket queues
          Env             \* the adversities of this run

Adversities == {"rpc_error", "parent_error", "crash", "crash_apply",
                "crash_disconnect", "deep_reorg", "race", "base_reorg", "gap",
                "sink_error"}

ASSUME BaseAssumption == Base \in Block
ASSUME BoundAssumption == MaxReorgDepth \in Nat /\ ZmqHwm \in Nat \ {0}
ASSUME EnvAssumption == Env \subseteq Adversities

VARIABLES nodeTip,      \* the node's best block
          pc,           \* where the tracker's thread is
          mode,         \* "zmq" if LiveTracker.zmq is Some, else "poll"
          caller,       \* who called catch_up: "run" or "live_loop"
          local,        \* catch_up: local
          target,       \* catch_up: node_tip_height
          disconnects,  \* catch_up: disconnects
          fetched,      \* catch_up: hash of the block being applied
          queue         \* hashblock notifications not yet received

threadVars == <<pc, mode, caller, local, target, disconnects, fetched>>
vars == <<storeVars, nodeTip, threadVars, queue>>

Idle == {"down", "wait"}

PC == Idle \cup {"count", "seed", "probe", "disconnect", "parent", "step_back",
                 "forward", "fetch", "apply", "advance"}

TypeOK ==
  /\ IsUtxoSet(utxo)
  /\ IsUndoLog(undo)
  /\ tip \in Block \cup {NoTip}
  /\ nodeTip \in Block
  /\ pc \in PC
  /\ mode \in {"zmq", "poll"}
  /\ caller \in {"run", "live_loop"}
  /\ local \in Block
  /\ target \in Nat
  /\ disconnects \in 0..MaxReorgDepth
  /\ fetched \in Block
  /\ queue \in 0..ZmqHwm

\* After `bidx parse': the set is that of Base, with no undo records and no
\* tip marker, as the bulk pipeline calls neither.
Init ==
  /\ utxo = Ledger[Base]
  /\ undo = [h \in {} |-> [spent |-> Ledger[Base], created |-> {}]]
  /\ tip = NoTip
  /\ nodeTip = Base
  /\ pc = "down"
  /\ mode = "poll"
  /\ caller = "run"
  /\ local = Genesis
  /\ target = 0
  /\ disconnects = 0
  /\ fetched = Genesis
  /\ queue = 0

-----------------------------------------------------------------------------
(* The node (external).                                                    *)

\* The block whose effects the index is to have: before the first start, Base.
Indexed == IF tip = NoTip THEN Base ELSE tip

WithinOne(b) == \/ Indexed \in Branch[b]
                \/ Indexed # Genesis /\ Parent[Indexed] \in Branch[b]

NodeMayMove(b) ==
  /\ "gap" \in Env \/ tip # NoTip
  /\ "base_reorg" \in Env \/ Base \in Branch[b]
  /\ "deep_reorg" \in Env \/ WithinOne(b)
  /\ "race" \in Env \/ pc \in Idle \/ nodeTip \in Branch[b]

\* The best chain changes: one hashblock notification, which a subscriber that
\* is up queues and drops at its high-water mark.
NodeMove ==
  \E b \in Block \ {nodeTip} :
    /\ NodeMayMove(b)
    /\ nodeTip' = b
    /\ queue' = IF pc # "down" /\ mode = "zmq" /\ queue < ZmqHwm THEN queue + 1 ELSE queue
    /\ UNCHANGED <<storeVars, threadVars>>

-----------------------------------------------------------------------------
(* Leaving catch_up.                                                       *)

\* The locals of a call that is over hold nothing.
NoLocals ==
  /\ local' = Genesis
  /\ target' = 0
  /\ disconnects' = 0
  /\ fetched' = Genesis

\* Mutant: the notifications that came in meanwhile are thrown away.
ReturnDrains ==
  /\ pc' = "wait"
  /\ caller' = "live_loop"
  /\ NoLocals
  /\ queue' = 0
  /\ UNCHANGED mode

\* Back in live_loop, from run or from an earlier turn of the loop.
Return ==
  /\ pc' = "wait"
  /\ caller' = "live_loop"
  /\ NoLocals
  /\ UNCHANGED <<mode, queue>>

\* The process is gone, and its socket's queue with it.
Exit ==
  /\ pc' = "down"
  /\ caller' = "run"
  /\ mode' = "poll"
  /\ queue' = 0
  /\ NoLocals

\* An error leaves catch_up through `?'.
\* run and the poll loop return the error and the process exits; the ZMQ loop
\* logs it and waits for the next notification, unless it is ReorgTooDeep.
Fail(error) ==
  /\ IF caller = "run" \/ mode = "poll" \/ error = "ReorgTooDeep" THEN Exit ELSE Return
  /\ UNCHANGED <<storeVars, nodeTip>>

RpcFails == "rpc_error" \in Env /\ Fail("Rpc")

\* getblockhash(h) on the node's best chain; an error above its tip.
NodeHas(h) == h <= Height[nodeTip]

-----------------------------------------------------------------------------
(* run and live_loop.                                                      *)

\* The process starts, subscribes if --zmq was given, and enters catch_up.
Start ==
  /\ pc = "down"
  /\ mode' \in {"zmq", "poll"}
  /\ caller' = "run"
  /\ pc' = "count"
  /\ UNCHANGED <<storeVars, nodeTip, local, target, disconnects, fetched, queue>>

\* A notification was received, or the 2s poll interval is over.
Wake ==
  /\ pc = "wait"
  /\ IF mode = "zmq" THEN queue > 0 /\ queue' = queue - 1 ELSE UNCHANGED queue
  /\ pc' = "count"
  /\ UNCHANGED <<storeVars, nodeTip, mode, caller, local, target, disconnects, fetched>>

-----------------------------------------------------------------------------
(* catch_up.                                                               *)

\* getblockcount, then the stored tip.
Count ==
  /\ pc = "count"
  /\ \/ /\ target' = Height[nodeTip]
        /\ IF tip = NoTip
             THEN pc' = "seed" /\ UNCHANGED <<local, disconnects>>
             ELSE pc' = "probe" /\ local' = tip /\ disconnects' = 0
        /\ UNCHANGED <<storeVars, nodeTip, mode, caller, fetched, queue>>
     \/ RpcFails

\* Mutant: the block count is taken for a number of blocks, not a height.
SeedBelow ==
  /\ pc = "seed"
  /\ \/ /\ NodeHas(target)
        /\ set_tip(HashAt(nodeTip, SaturatingSub(target, 1)))
        /\ Return
        /\ UNCHANGED nodeTip
     \/ ~NodeHas(target) /\ Fail("Rpc")
     \/ RpcFails

\* No stored tip: adopt the node's.
Seed ==
  /\ pc = "seed"
  /\ \/ /\ NodeHas(target)
        /\ set_tip(HashAt(nodeTip, target))
        /\ Return
        /\ UNCHANGED nodeTip
     \/ ~NodeHas(target) /\ Fail("Rpc")
     \/ RpcFails

\* getblockhash(local.height) is local.hash just when local is on the node's
\* best chain; an error counts as Hash32::ZERO, which never matches.
HashDiffers == local \notin Branch[nodeTip] \/ "rpc_error" \in Env

\* Mutant: one disconnect more than --max-reorg-depth.
ProbeOneMore ==
  /\ pc = "probe"
  /\ \/ /\ local \in Branch[nodeTip] \/ (HashDiffers /\ Height[local] = 0)
        /\ pc' = "forward"
        /\ UNCHANGED <<storeVars, nodeTip, mode, caller, local, target,
                       disconnects, fetched, queue>>
     \/ /\ HashDiffers /\ Height[local] # 0
        /\ disconnects > MaxReorgDepth
        /\ Fail("ReorgTooDeep")
     \/ /\ HashDiffers /\ Height[local] # 0
        /\ disconnects <= MaxReorgDepth
        /\ pc' = "disconnect"
        /\ UNCHANGED <<storeVars, nodeTip, mode, caller, local, target,
                       disconnects, fetched, queue>>

\* Mutant: an RPC error counts as an unchanged hash.
ProbeTrustsErrors ==
  /\ pc = "probe"
  /\ \/ /\ local \in Branch[nodeTip] \/ "rpc_error" \in Env
        /\ pc' = "forward"
        /\ UNCHANGED <<storeVars, nodeTip, mode, caller, local, target,
                       disconnects, fetched, queue>>
     \/ /\ HashDiffers /\ Height[local] # 0
        /\ disconnects < MaxReorgDepth
        /\ pc' = "disconnect"
        /\ UNCHANGED <<storeVars, nodeTip, mode, caller, local, target,
                       disconnects, fetched, queue>>

Probe ==
  /\ pc = "probe"
  /\ \/ /\ local \in Branch[nodeTip] \/ (HashDiffers /\ Height[local] = 0)
        /\ pc' = "forward"
        /\ UNCHANGED <<storeVars, nodeTip, mode, caller, local, target,
                       disconnects, fetched, queue>>
     \/ /\ HashDiffers /\ Height[local] # 0
        /\ disconnects >= MaxReorgDepth
        /\ Fail("ReorgTooDeep")
     \/ /\ HashDiffers /\ Height[local] # 0
        /\ disconnects < MaxReorgDepth
        /\ pc' = "disconnect"
        /\ UNCHANGED <<storeVars, nodeTip, mode, caller, local, target,
                       disconnects, fetched, queue>>

\* disconnect_block(local.height), or NoUndo.
Disconnect ==
  /\ pc = "disconnect"
  /\ \/ /\ disconnect_block(Height[local])
        /\ disconnects' = disconnects + 1
        /\ pc' = "parent"
        /\ UNCHANGED <<nodeTip, mode, caller, local, target, fetched, queue>>
     \/ ~HasUndo(Height[local]) /\ Fail("NoUndo")

\* local steps back to the node's hash at height - 1.
ParentHash ==
  /\ pc = "parent"
  /\ \/ /\ NodeHas(Height[local] - 1)
        /\ local' = HashAt(nodeTip, Height[local] - 1)
        /\ pc' = "step_back"
        /\ UNCHANGED <<storeVars, nodeTip, mode, caller, target, disconnects,
                       fetched, queue>>
     \/ ~NodeHas(Height[local] - 1) /\ Fail("Rpc")
     \/ "parent_error" \in Env /\ Fail("Rpc")

StepBack ==
  /\ pc = "step_back"
  /\ set_tip(local)
  /\ pc' = "probe"
  /\ UNCHANGED <<nodeTip, mode, caller, local, target, disconnects, fetched, queue>>

\* Mutant: the loop goes straight to the block of the target height.
ForwardJumps ==
  /\ pc = "forward"
  /\ \/ /\ Height[local] >= target
        /\ Return
        /\ UNCHANGED <<storeVars, nodeTip>>
     \/ /\ Height[local] < target
        /\ fetched' = HashAt(nodeTip, target)
        /\ pc' = "fetch"
        /\ UNCHANGED <<storeVars, nodeTip, mode, caller, local, target,
                       disconnects, queue>>

\* The head of the forward loop: done, or getblockhash(local.height + 1).
Forward ==
  /\ pc = "forward"
  /\ \/ /\ Height[local] >= target
        /\ Return
        /\ UNCHANGED <<storeVars, nodeTip>>
     \/ /\ Height[local] < target
        /\ \/ /\ NodeHas(Height[local] + 1)
              /\ fetched' = HashAt(nodeTip, Height[local] + 1)
              /\ pc' = "fetch"
              /\ UNCHANGED <<storeVars, nodeTip, mode, caller, local, target,
                             disconnects, queue>>
           \/ ~NodeHas(Height[local] + 1) /\ Fail("Rpc")
           \/ RpcFails

\* getblock(hash) and the parse of what it returns.
Fetch ==
  /\ pc = "fetch"
  /\ \/ /\ pc' = "apply"
        /\ UNCHANGED <<storeVars, nodeTip, mode, caller, local, target,
                       disconnects, fetched, queue>>
     \/ RpcFails

Apply ==
  /\ pc = "apply"
  /\ apply_block(Height[local] + 1, Txs[fetched])
  /\ pc' = "advance"
  /\ UNCHANGED <<nodeTip, mode, caller, local, target, disconnects, fetched, queue>>

\* Mutant: local is not moved on.
AdvanceStays ==
  /\ pc = "advance"
  /\ set_tip(fetched)
  /\ pc' = "forward"
  /\ UNCHANGED <<nodeTip, mode, caller, local, target, disconnects, fetched, queue>>

Advance ==
  /\ pc = "advance"
  /\ set_tip(fetched)
  /\ local' = fetched
  /\ pc' = "forward"
  /\ UNCHANGED <<nodeTip, mode, caller, target, disconnects, fetched, queue>>

-----------------------------------------------------------------------------
\* The process dies: the store keeps what was written, all else is gone.
Crash ==
  /\ pc # "down"
  /\ CASE pc = "advance"                 -> "crash_apply" \in Env
       [] pc \in {"parent", "step_back"} -> "crash_disconnect" \in Env
       [] OTHER                          -> "crash" \in Env
  /\ Exit
  /\ UNCHANGED <<storeVars, nodeTip>>

CatchUp == \/ Count \/ Seed \/ Probe \/ Disconnect \/ ParentHash \/ StepBack
           \/ Forward \/ Fetch \/ Apply \/ Advance

Tracker == Start \/ Wake \/ CatchUp

Next == NodeMove \/ Tracker \/ Crash

Spec == Init /\ [][Next]_vars

-----------------------------------------------------------------------------
(* Properties.                                                             *)

\* The block whose UTXO set the store holds: the marker's, except between a
\* batch and the set_tip that follows it.
At == CASE pc \in {"parent", "step_back"} -> Parent[tip]
        [] pc = "advance"                 -> fetched
        [] OTHER                          -> Indexed

\* Whenever the process is down or waiting for the next block, the UTXO set is
\* exactly the one consensus defines at the stored tip: no output lost, none
\* left over, each with its creation height.
IndexMatchesTip == pc \in Idle => utxo = Ledger[Indexed]

\* The undo log has a record for each block above Base up to the one the set
\* stands at and no other, and the record of each turns its UTXO set back into
\* its parent's.
UndoLogExact ==
  /\ DOMAIN undo = (Height[Base] + 1)..Height[At]
  /\ \A b \in Branch[At] :
       Height[b] > Height[Base] => Revert(Ledger[b], undo[Height[b]]) = Ledger[Parent[b]]

\* apply_block is only ever given a child of the stored tip.  HANDOFF.md has a
\* `reorg_guard' compare header.prev_hash to the stored tip before applying; there
\* is none in the code, so this rests on the node staying on its branch while
\* catch_up runs, and fails with "race" in Env.
AppliesOnTip == [][Apply => Parent[fetched] = tip]_vars

\* The fee of every transaction of an applied block is what its inputs exceed
\* its outputs by: no prevout of it was missing from the set.
FeesExact ==
  [][Apply => Fees(utxo, Txs[fetched]) =
       [i \in DOMAIN Txs[fetched] |->
          SaturatingSub(Amount(Txs[fetched][i].ins), Amount(Txs[fetched][i].outs))]]_vars

\* When catch_up returns Ok after its forward loop, the stored tip is on the
\* node's best chain and the UTXO set is the one consensus defines there.
CaughtUpExact ==
  [][pc = "forward" /\ pc' = "wait" /\ Height[local] >= target
       => tip \in Branch[nodeTip] /\ utxo = Ledger[tip]]_vars

\* Every step of the tracker is a step of the abstract index or leaves it be.
Index == INSTANCE ChainIndex WITH at <- At, coins <- utxo

ImplementsIndex == Index!Spec

\* Once the node stays on its best block and the process is no longer killed,
\* the index reaches that block and stays there: a block that arrives while
\* catch_up runs has its notification left in the queue.
CatchesUp ==
  <>[][nodeTip' = nodeTip /\ ~Crash]_vars => <>[](tip = nodeTip)

\* Whatever the node and the network do, a call of catch_up comes to an end:
\* the walk back and the walk forward cannot chase each other for ever.
CatchUpTerminates == []<>(pc \in Idle)

=============================================================================
