----------------------------- MODULE MCDecoding -----------------------------
(***************************************************************************)
(* The two halves of decoding: the header pass over the blk files of a     *)
(* running node, and the parsing of one block.  They share no state; `run` *)
(* says which of them a behaviour is about.                                *)
(***************************************************************************)
EXTENDS HeaderPass, BlockParser, Bitwise

VARIABLE run

(* Four blocks: 1 is the genesis block, 2 and 3 its children, 4 a child of   *)
(* 2.  Blocks 2 and 4 together have the work of block 3.                     *)
MCBlock  == 1..4
MCParent == <<NoHash, 1, 1, 2>>
MCBits   == <<[exponent |-> 5, mantissa |-> 4], [exponent |-> 5, mantissa |-> 4],
              [exponent |-> 4, mantissa |-> 4], [exponent |-> 5, mantissa |-> 4]>>
MCBody   == <<<<0>>, <<6>>, <<0, 0>>, <<>>>>
MCSetups == [xor : {<<>>, <<5, 6>>}, padded : BOOLEAN, invalid : {{}}]
            \cup [xor : {<<0, 0>>}, padded : {TRUE}, invalid : {{3}}]

MCXor(a, b) == a ^^ b

Fill(n, b)  == [i \in 1..n |-> b]
Amount(n)   == le_bytes(n, 8)
In(p, v, s, w) == [prev |-> p, vout |-> v, script |-> s, witness |-> w]
Out(v, s)   == [value |-> v, spk |-> s]
Tx(is, os)  == [version |-> <<1, 0, 0, 0>>, flag |-> 1, ins |-> is, outs |-> os, locktime |-> Fill(4, 0)]

P2PKH(h)  == <<\h76, \ha9, 20>> \o h \o <<\h88, \hac>>
P2SH(h)   == <<\ha9, 20>> \o h \o <<\h87>>
Prog(v, p) == <<v, Len(p)>> \o p
P2PK(k)   == <<Len(k)>> \o k \o <<\hac>>
Key(n, t) == <<t>> \o Fill(n - 1, 5)
Multi(m, n, ks) == <<\h50 + m>> \o FlattenSeq([i \in DOMAIN ks |-> <<Len(ks[i])>> \o ks[i]])
                   \o <<\h50 + n, \hae>>

Miner     == In(NoTxid, AllOnes, <<3, 1, 2, 3>>, <<>>)
MinerSw   == In(NoTxid, AllOnes, <<3, 1, 2, 3>>, <<Fill(32, 0)>>)
Spend(w)  == In(Fill(32, 7), le_bytes(1, 4), <<>>, w)

(* Scripts of every type, and their near misses: a length, a prefix or an    *)
(* opcode off, and programs that agree once padded with zeros.               *)
Scripts == <<
    P2PKH(Fill(20, 1)), P2PKH(Fill(20, 1)) \o <<0>>, P2SH(Fill(20, 1)), <<>>,
    Prog(0, Fill(20, 1)), Prog(0, Fill(20, 1) \o Fill(12, 0)), Prog(0, Fill(16, 1)),
    Prog(\h51, Fill(20, 1)), Prog(\h51, Fill(20, 1) \o Fill(12, 0)), Prog(\h60, Fill(40, 1)),
    P2PK(Key(33, 2)), P2PK(Key(33, 5)), P2PK(Key(65, 4)),
    Multi(1, 2, <<Key(33, 2), Key(65, 4)>>), Multi(2, 1, <<Key(33, 2)>>), Multi(1, 1, <<Key(33, 2), Key(33, 3)>>),
    <<\h6a>> \o Fill(260, 1)>>

OverMaxMoney == <<\h01, \h40, \h07, \h5a, \hf0, \h75, \h07, \h00>>

MCSampleBlocks == {
    <<Tx(<<Miner>>, <<Out(Amount(5000), P2PKH(Fill(20, 1)))>>)>>,
    <<Tx(<<MinerSw>>, <<Out(Amount(70000), Prog(0, Fill(20, 1))), Out(Amount(0), <<\h6a, 1, 0>>)>>),
      Tx(<<Spend(<<<<1, 2>>, <<>>>>), In(NoTxid, AllOnes, <<>>, <<>>)>>, <<Out(MaxMoney, <<>>)>>)>>,
    <<Tx(<<Miner>>, <<>>), [Tx(<<Spend(<<<<1>>>>)>>, <<>>) EXCEPT !.flag = 0]>>,
    <<Tx(<<Miner>>, <<Out(OverMaxMoney, <<>>)>>)>>,
    <<Tx(<<Miner>>, [i \in DOMAIN Scripts |-> Out(Amount(i), Scripts[i])])>>}

(* Every cut of the short blocks; of the long one, the last byte. *)
MCCuts(n) == IF n < 400 THEN 0..n ELSE {n - 1, n}

Init == \/ run = "headers" /\ HPInit
           /\ block = <<>> /\ payload = <<>> /\ pos = 0 /\ pc = "off" /\ left = 0 /\ txCount = 0
           /\ tx = NoTx /\ rows = <<>>
        \/ run = "block" /\ ParserInit
           /\ node = <<>> /\ raw = <<>> /\ records = <<>> /\ pending = <<>> /\ active = NoHash
           /\ stage = "off" /\ nfiles = 0 /\ scanned = 0 /\ headers = <<>>
           /\ chain = <<>> /\ orphans = {} /\ seen = {} /\ view = NoView

Next == \/ run = "headers" /\ HPNext /\ UNCHANGED <<run, parserVars>>
        \/ run = "block" /\ ParserNext /\ UNCHANGED <<run, hpVars>>

Spec == Init /\ [][Next]_<<run, hpVars, parserVars>>
=============================================================================
