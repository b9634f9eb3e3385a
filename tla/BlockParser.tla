----------------------------- MODULE BlockParser ----------------------------
(***************************************************************************)
(* parse_block_full and parse_tx (tx.rs) over the bounds-checked cursor    *)
(* (cursor.rs), one step per element of the block: the rows of a block are *)
(* collected input by input, output by output and witness item by witness  *)
(* item, and any read past the end of the payload ends the parse with an   *)
(* error.  What is parsed is then encoded for the UTXO store (UtxoCodec).  *)
(*                                                                         *)
(* Bytes and widths are the real ones.  dsha256 is external and collision  *)
(* free: its value is a record of the bytes that were hashed.              *)
(***************************************************************************)
EXTENDS Integers, Sequences, FiniteSets, SequencesExt, Script, UtxoCodec

CONSTANTS
    SampleBlocks,  \* the blocks that are serialised and parsed again
    Cuts(_),       \* the lengths to which a serialised block is cut
    MaxItems       \* MAX_ITEMS of the cursor

VARIABLES
    block,    \* the block the payload was made from
    payload,  \* the bytes
    pos,      \* the cursor
    pc,       \* what is read next; "done" or "error" at the end
    left,     \* elements of the current list still to read
    txCount,  \* the number of transactions the block declares
    tx,       \* the transaction being read
    rows      \* the rows collected: transactions, inputs, outputs

parserVars == <<block, payload, pos, pc, left, txCount, tx, rows>>

MaxMoney == <<\h00, \h40, \h07, \h5a, \hf0, \h75, \h07, \h00>>  \* 21M BTC, little-endian
NoTxid   == [i \in 1..32 |-> 0]
AllOnes  == <<255, 255, 255, 255>>

dsha256(bytes) == [dsha256 |-> bytes]

NoTx == [start |-> 0, version |-> <<>>, witness |-> FALSE, ins |-> <<>>, outs |-> <<>>,
         in |-> 0, prefixEnd |-> 0]

-----------------------------------------------------------------------------
(* types.rs: the rows, before they are tagged with transaction and position. *)

InputRow(prev, vout, len, seq, lone) ==
    [prev_txid |-> prev, prev_vout |-> vout, script_sig_len |-> len, sequence |-> seq,
     witness_items |-> 0, witness_bytes |-> 0,
     is_coinbase |-> lone /\ prev = NoTxid /\ vout = AllOnes]

OutputRow(value, len, class) ==
    [value_sat |-> value, script_pubkey_len |-> len,
     script_type |-> class[1], address_hash |-> class[2]]

TxRow(i, txid, t, lock, size, weight) ==
    [tx_index |-> i, txid |-> txid, version |-> t.version, locktime |-> lock,
     size |-> size, weight |-> weight, input_count |-> Len(t.ins),
     output_count |-> Len(t.outs), has_witness |-> t.witness]

-----------------------------------------------------------------------------
(* cursor.rs: offsets behind what was read.  An offset past the end is the   *)
(* error Eof, and every read from it fails too, as `?` makes it.             *)

Eof == Len(payload) + 1
skip(p, n) == IF n <= Len(payload) - p THEN p + n ELSE Eof
bytes(p, n) == IF skip(p, n) = Eof THEN <<>> ELSE SubSeq(payload, p + 1, p + n)

\* read_count: a compact size of at most MAX_ITEMS; p = Eof on any error.
read_count(p) ==
    LET v == read_varint(payload, p)
    IN IF p >= Len(payload) \/ v.n > MaxItems THEN [n |-> 0, p |-> Eof] ELSE v

\* The reading steps: on to `next`, or the error if the cursor ran out.
Advance(p, next) ==
    /\ pos' = IF p > Len(payload) THEN pos ELSE p
    /\ pc' = IF p > Len(payload) THEN "error" ELSE next

-----------------------------------------------------------------------------
(* parse_block_full *)

BeginBlock ==
    /\ pc = "block"
    /\ LET n == read_count(skip(0, 80))
       IN /\ txCount' = n.n
          /\ Advance(n.p, "tx")
    /\ UNCHANGED <<block, payload, left, tx, rows>>

\* Mutant: a marker test that takes the marker for the input count when it is zero.
BeginTxNoMarker ==
    /\ pc = "tx" /\ Len(rows.txs) < txCount
    /\ LET n == read_count(skip(pos, 4))
       IN /\ tx' = [NoTx EXCEPT !.start = pos, !.version = bytes(pos, 4), !.in = n.n]
          /\ left' = n.n
          /\ Advance(n.p, "input")
    /\ UNCHANGED <<block, payload, txCount, rows>>

\* The next transaction: its version, the witness marker and flag, and the
\* number of inputs.  A first byte of zero is the marker, any other the start
\* of the compact size, which is then read without the bound of read_count
\* unless it takes eight bytes.
BeginTx ==
    /\ pc = "tx" /\ Len(rows.txs) < txCount
    /\ LET p1   == skip(pos, 4)
           p2   == skip(p1, 1)
           wit  == p2 < Eof /\ payload[p2] = 0
           p3   == skip(p2, 1)
           flag == p3 < Eof /\ payload[p3] # 0
           v    == IF p2 = Eof THEN [n |-> 0, p |-> Eof] ELSE read_varint(payload, p1)
           over == p2 < Eof /\ payload[p2] = \hff /\ v.n > MaxItems
           n    == IF wit THEN (IF flag THEN read_count(p3) ELSE [n |-> 0, p |-> Eof])
                   ELSE IF over THEN [n |-> 0, p |-> Eof]
                   ELSE v
       IN /\ tx' = [NoTx EXCEPT !.start = pos, !.version = bytes(pos, 4), !.witness = wit, !.in = n.n]
          /\ left' = n.n
          /\ Advance(n.p, "input")
    /\ UNCHANGED <<block, payload, txCount, rows>>

\* One input: previous outpoint, script length, sequence.
ReadInput ==
    /\ pc = "input" /\ left > 0
    /\ LET script == read_count(skip(skip(pos, 32), 4))
           end    == skip(skip(script.p, script.n), 4)
           row    == InputRow(bytes(pos, 32), bytes(pos + 32, 4), script.n,
                              bytes(end - 4, 4), tx.in = 1)
       IN /\ Advance(end, "input")
          /\ tx' = [tx EXCEPT !.ins = Append(@, row)]
    /\ left' = left - 1
    /\ UNCHANGED <<block, payload, txCount, rows>>

BeginOutputs ==
    /\ pc = "input" /\ left = 0
    /\ LET n == read_count(pos) IN left' = n.n /\ Advance(n.p, "output")
    /\ UNCHANGED <<block, payload, txCount, tx, rows>>

\* value_sat > MAX_MONEY on the eight bytes.
BadValue(v) == Below(Reverse(MaxMoney), Reverse(v))

\* One output: value, script, its type and address.
ReadOutput ==
    /\ pc = "output" /\ left > 0
    /\ LET p1    == skip(pos, 8)
           spk   == read_count(IF p1 < Eof /\ BadValue(bytes(pos, 8)) THEN Eof ELSE p1)
           end   == skip(spk.p, spk.n)
           class == classify_script(bytes(spk.p, spk.n))
       IN /\ Advance(end, "output")
          /\ tx' = IF end = Eof THEN tx
                   ELSE [tx EXCEPT !.outs = Append(@,
                           OutputRow(from_le(bytes(pos, 8)), spk.n, class))]
    /\ left' = left - 1
    /\ UNCHANGED <<block, payload, txCount, rows>>

\* The end of the outputs is the end of the stripped prefix.
EndOutputs ==
    /\ pc = "output" /\ left = 0
    /\ tx' = [tx EXCEPT !.prefixEnd = pos, !.in = 0]
    /\ pc' = IF tx.witness THEN "witness" ELSE "locktime"
    /\ UNCHANGED <<block, payload, pos, left, txCount, rows>>

\* The witness of the next input: the number of its items...
BeginWitness ==
    /\ pc = "witness" /\ left = 0 /\ tx.in < Len(tx.ins)
    /\ LET n == read_count(pos)
       IN /\ left' = n.n
          /\ tx' = [tx EXCEPT !.in = @ + 1, !.ins[tx.in + 1].witness_items = n.n]
          /\ Advance(n.p, "witness")
    /\ UNCHANGED <<block, payload, txCount, rows>>

\* ... and one item.
ReadWitnessItem ==
    /\ pc = "witness" /\ left > 0
    /\ LET n == read_count(pos)
       IN /\ tx' = [tx EXCEPT !.ins[tx.in].witness_bytes = @ + n.n]
          /\ Advance(skip(n.p, n.n), "witness")
    /\ left' = left - 1
    /\ UNCHANGED <<block, payload, txCount, rows>>

EndWitness ==
    /\ pc = "witness" /\ left = 0 /\ tx.in = Len(tx.ins)
    /\ pc' = "locktime"
    /\ UNCHANGED <<block, payload, pos, left, txCount, tx, rows>>

\* The stripped serialisation: without marker, flag and witnesses.
Stripped(end) ==
    IF tx.witness
    THEN bytes(tx.start, 4) \o bytes(tx.start + 6, tx.prefixEnd - tx.start - 6) \o bytes(end - 4, 4)
    ELSE bytes(tx.start, end - tx.start)

\* Locktime, txid, size and weight; the rows of the transaction are appended.
EndTx ==
    /\ pc = "locktime"
    /\ LET end == skip(pos, 4)
           txid == dsha256(Stripped(end))
           total == end - tx.start
           stripped == IF tx.witness THEN tx.prefixEnd - tx.start - 2 + 4 ELSE total
           i == Len(rows.txs)
           Tag(r, n) == [tx_index |-> i, index |-> n - 1, txid |-> txid] @@ r
       IN /\ Advance(end, "tx")
          /\ rows' = IF end = Eof THEN rows ELSE
               [txs |-> Append(rows.txs,
                   TxRow(i, txid, tx, bytes(pos, 4), total, 3 * stripped + total)),
                inputs |-> rows.inputs \o [n \in DOMAIN tx.ins |-> Tag(tx.ins[n], n)],
                outputs |-> rows.outputs \o [n \in DOMAIN tx.outs |-> Tag(tx.outs[n], n)]]
    /\ tx' = NoTx
    /\ UNCHANGED <<block, payload, left, txCount>>

\* The sums of the block row.
BlockRow ==
    [tx_count |-> txCount, size |-> Len(payload),
     weight |-> 4 * 80 + FoldSeq(LAMBDA t, w : t.weight + w, 0, rows.txs),
     coinbase_value |-> FoldSeq(LAMBDA o, v : (IF o.tx_index = 0 THEN o.value_sat ELSE 0) + v,
                                0, rows.outputs)]

\* The block row is made from the header, the sums and the payload length.
EndBlock ==
    /\ pc = "tx" /\ Len(rows.txs) = txCount
    /\ pc' = "done"
    /\ UNCHANGED <<block, payload, pos, left, txCount, tx, rows>>

-----------------------------------------------------------------------------
(* The wire format, as a reference.  An abstract block is a sequence of      *)
(* transactions [version, ins, outs, locktime]; an input has a list of       *)
(* witness items; `flag` and the value of an output may be out of range.     *)

Segwit(t) == \E i \in DOMAIN t.ins : t.ins[i].witness # <<>>
Sized(b)  == put_varint(Len(b)) \o b
Listed(s) == put_varint(Len(s)) \o FlattenSeq(s)

Core(t) ==
    Listed([i \in DOMAIN t.ins |-> t.ins[i].prev \o t.ins[i].vout \o Sized(t.ins[i].script) \o AllOnes])
    \o Listed([i \in DOMAIN t.outs |-> t.outs[i].value \o Sized(t.outs[i].spk)])
Witness(t) == FlattenSeq([i \in DOMAIN t.ins |->
                 Listed([j \in DOMAIN t.ins[i].witness |-> Sized(t.ins[i].witness[j])])])
SerializeTx(t) ==
    t.version \o (IF Segwit(t) THEN <<0, t.flag>> ELSE <<>>) \o Core(t)
    \o (IF Segwit(t) THEN Witness(t) ELSE <<>>) \o t.locktime
Serialize(b) == [i \in 1..80 |-> 9] \o Listed([i \in DOMAIN b |-> SerializeTx(b[i])])

Txid(t)   == dsha256(t.version \o Core(t) \o t.locktime)
TxSize(t) == Len(SerializeTx(t))
Base(t)   == 8 + Len(Core(t))
Weight(t) == 4 * Base(t) + (TxSize(t) - Base(t))
WellFormed(b) == \A i \in DOMAIN b :
    /\ Segwit(b[i]) => b[i].flag # 0
    /\ \A o \in DOMAIN b[i].outs : ~BadValue(b[i].outs[o].value)
Coinbase(t) == Len(t.ins) = 1 /\ t.ins[1].prev = NoTxid /\ t.ins[1].vout = AllOnes
TotalBytes(ws) == FoldSeq(LAMBDA w, n : Len(w) + n, 0, ws)

-----------------------------------------------------------------------------
ParserInit ==
    /\ block \in SampleBlocks
    /\ \E cut \in Cuts(Len(Serialize(block))) : payload = SubSeq(Serialize(block), 1, cut)
    /\ pos = 0 /\ pc = "block" /\ left = 0 /\ txCount = 0 /\ tx = NoTx
    /\ rows = [txs |-> <<>>, inputs |-> <<>>, outputs |-> <<>>]

ParserNext ==
    \/ BeginBlock \/ BeginTx \/ ReadInput \/ BeginOutputs \/ ReadOutput \/ EndOutputs
    \/ BeginWitness \/ ReadWitnessItem \/ EndWitness \/ EndTx \/ EndBlock

(* ParseExact: a payload is parsed exactly if it is the whole of a block     *)
(* with good flags and values, and then every row agrees with the block:     *)
(* txids and weights do not depend on the witness bytes, each row names its  *)
(* transaction and position, and only a lone null outpoint is a coinbase.    *)
(* A payload cut anywhere is an error, never a shorter block.                *)
ParseExact ==
    /\ pc = "error" => ~(WellFormed(block) /\ payload = Serialize(block))
    /\ pc = "done" =>
        /\ WellFormed(block) /\ payload = Serialize(block) /\ pos = Len(payload)
        /\ Len(rows.txs) = Len(block)
        /\ BlockRow.weight = 4 * 80 + FoldSeq(LAMBDA t, w : Weight(t) + w, 0, block)
        /\ BlockRow.coinbase_value =
             FoldSeq(LAMBDA o, v : from_le(o.value) + v, 0, block[1].outs)
        /\ \A i \in DOMAIN block :
             LET t == block[i]
                 r == rows.txs[i]
                 ins  == SelectSeq(rows.inputs, LAMBDA x : x.tx_index = i - 1)
                 outs == SelectSeq(rows.outputs, LAMBDA x : x.tx_index = i - 1)
             IN /\ r.txid = Txid(t) /\ r.size = TxSize(t) /\ r.weight = Weight(t)
                /\ r.has_witness = Segwit(t)
                /\ r.input_count = Len(t.ins) /\ r.output_count = Len(t.outs)
                /\ Len(ins) = Len(t.ins) /\ Len(outs) = Len(t.outs)
                /\ \A n \in DOMAIN ins :
                     /\ ins[n].index = n - 1 /\ ins[n].txid = Txid(t)
                     /\ ins[n].prev_txid = t.ins[n].prev /\ ins[n].prev_vout = t.ins[n].vout
                     /\ ins[n].is_coinbase = Coinbase(t)
                     /\ ins[n].witness_items = Len(t.ins[n].witness)
                     /\ ins[n].witness_bytes = TotalBytes(t.ins[n].witness)
                /\ \A n \in DOMAIN outs :
                     /\ outs[n].index = n - 1 /\ outs[n].txid = Txid(t)
                     /\ outs[n].value_sat = from_le(t.outs[n].value)
                     /\ outs[n].script_pubkey_len = Len(t.outs[n].spk)

(* AddressNamesScript: two outputs stored with the same type and the same    *)
(* address, for a type that has addresses, have the same script: no padding, *)
(* length or opcode is confused by the order of the tests in classify_script.*)
AddressNamesScript ==
    pc = "done" => \A t, u \in DOMAIN block : \A n \in DOMAIN block[t].outs, m \in DOMAIN block[u].outs :
        LET a == block[t].outs[n].spk
            b == block[u].outs[m].spk
            Row(i, k) == SelectSeq(rows.outputs, LAMBDA x : x.tx_index = i - 1)[k]
        IN /\ Row(t, n).script_type \in AddressTypes
           /\ Row(t, n).script_type = Row(u, m).script_type
           /\ Row(t, n).address_hash = Row(u, m).address_hash
           => a = b

\* The undo record of a block that created these outputs and spent them all.
TypeCode(t) == CHOOSE i \in 0..9 : <<"Unknown", "P2PK", "P2PKH", "P2SH", "P2WPKH", "P2WSH", "P2TR",
                                     "OpReturn", "BareMultisig", "WitnessUnknown">>[i + 1] = t
UndoOf(outs) ==
    LET Plain(o) == IF o.script_type \in {"P2PK", "BareMultisig"}
                    THEN pad_slice([i \in 1..20 |-> 200 + i]) ELSE o.address_hash
        KeyOf(i) == make_key([j \in 1..32 |-> outs[i].tx_index + j], outs[i].index)
    IN [spent |-> [i \in DOMAIN outs |->
                     [key |-> KeyOf(i),
                      val |-> [value_sat |-> outs[i].value_sat, script_type |-> TypeCode(outs[i].script_type),
                               height |-> 840000 + i, address_hash |-> Plain(outs[i])]]],
        created |-> [i \in DOMAIN outs |-> KeyOf(i)]]

Boundaries == {0, 1, 252, 253, 254, 65535, 65536, 65537, 840000}

(* CodecExact: an undo record written for the outputs of a block is read     *)
(* back as it was, and cut anywhere it is corrupt rather than shorter; the   *)
(* sizes are read back across every change of their width; and undo keys     *)
(* sort by height, also across byte boundaries.                              *)
CodecExact ==
    pc = "done" =>
        LET u == UndoOf(rows.outputs)
            e == encode_undo(u)
        IN /\ decode_undo(e) = u
           /\ \A k \in 0..(Len(e) - 1) : decode_undo(SubSeq(e, 1, k)) = <<>>
           /\ \A n \in Boundaries : /\ read_varint(put_varint(n), 0).n = n
                                    /\ from_le(le_bytes(n, 4)) = n
           /\ \A n, m \in Boundaries : n < m => Below(undo_key(n), undo_key(m))
=============================================================================
