------------------------------ MODULE UtxoCodec -----------------------------
(***************************************************************************)
(* The byte encodings of the UTXO store (utxo.rs): outpoint keys, output   *)
(* values, undo records and compact sizes.  Bytes and widths are the real  *)
(* ones; numbers stay below 2^31, which is what TLC can hold, so the upper *)
(* half of an 8-byte field is zero here.                                   *)
(***************************************************************************)
EXTENDS Integers, Sequences, SequencesExt

\* to_le_bytes for a field of w bytes.
le_bytes(n, w) ==
    LET q[i \in 1..w] == IF i = 1 THEN n ELSE q[i - 1] \div 256
    IN [i \in 1..w |-> q[i] % 256]

\* from_le_bytes; Huge for what does not fit TLC's integers.
Huge == 2147483647
from_le(b) ==
    IF \E i \in DOMAIN b : b[i] # 0 /\ (i > 4 \/ (i = 4 /\ b[i] > 127)) THEN Huge
    ELSE LET v[i \in 0..Len(b)] ==
               IF i = 0 THEN 0 ELSE IF b[i] = 0 THEN v[i - 1] ELSE v[i - 1] + b[i] * 256^(i - 1)
         IN v[Len(b)]

\* Mutant: a height field read one byte early.
decode_value_shifted(b) ==
    IF Len(b) # 45 THEN <<>>
    ELSE [value_sat |-> from_le(SubSeq(b, 1, 8)), script_type |-> b[9],
          height |-> from_le(SubSeq(b, 9, 12)), address_hash |-> SubSeq(b, 14, 45)]

\* UtxoValue::encode and decode; decode answers <<>> for None.
EncodedLen == 45
encode_value(u) ==
    le_bytes(u.value_sat, 8) \o <<u.script_type>> \o le_bytes(u.height, 4) \o u.address_hash
decode_value(b) ==
    IF Len(b) # EncodedLen THEN <<>>
    ELSE [value_sat |-> from_le(SubSeq(b, 1, 8)), script_type |-> b[9],
          height |-> from_le(SubSeq(b, 10, 13)), address_hash |-> SubSeq(b, 14, 45)]

make_key(txid, vout) == txid \o le_bytes(vout, 4)

\* undo_key: the height, most significant byte first.
undo_key(height) == Reverse(le_bytes(height, 4))

put_varint(n) ==
    IF n <= \hfc THEN <<n>>
    ELSE IF n <= \hffff THEN <<\hfd>> \o le_bytes(n, 2)
    ELSE <<\hfe>> \o le_bytes(n, 4)

\* How many bytes follow the first byte of a compact size.
ExtraBytes(first) ==
    CASE first = \hfd -> 2 [] first = \hfe -> 4 [] first = \hff -> 8 [] OTHER -> 0

\* The store's read_varint at offset p: the number and the offset behind it;
\* the offset is Len(b) + 1 when the bytes run out.
read_varint(b, p) ==
    LET x == IF p < Len(b) THEN ExtraBytes(b[p + 1]) ELSE 0
    IN IF p + 1 + x > Len(b) THEN [n |-> 0, p |-> Len(b) + 1]
       ELSE [n |-> IF x = 0 THEN b[p + 1] ELSE from_le(SubSeq(b, p + 2, p + 1 + x)),
             p |-> p + 1 + x]

\* BlockUndo::encode
encode_undo(u) ==
    put_varint(Len(u.spent))
    \o FlattenSeq([i \in DOMAIN u.spent |-> u.spent[i].key \o encode_value(u.spent[i].val)])
    \o put_varint(Len(u.created))
    \o FlattenSeq(u.created)

\* BlockUndo::decode, <<>> for None.  Bytes behind the last key are not looked at.
decode_undo(b) ==
    LET s  == read_varint(b, 0)
        p  == s.p + 81 * s.n
        c  == read_varint(b, p)
        At(q, w) == SubSeq(b, q + 1, q + w)
        spent == [i \in 1..s.n |-> [key |-> At(s.p + 81 * (i - 1), 36),
                                    val |-> decode_value(At(s.p + 81 * (i - 1) + 36, 45))]]
        created == [i \in 1..c.n |-> At(c.p + 36 * (i - 1), 36)]
    IN IF s.p > Len(b) \/ p > Len(b) \/ c.p > Len(b) \/ c.p + 36 * c.n > Len(b) THEN <<>>
       ELSE [spent |-> spent, created |-> created]

\* The order RocksDB keeps keys in.
Below(a, b) == \E i \in DOMAIN a : a[i] < b[i] /\ \A j \in 1..(i - 1) : a[j] = b[j]
=============================================================================
