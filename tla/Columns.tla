------------------------------ MODULE Columns -------------------------------
(***************************************************************************)
(* The columns of the Parquet files (parquet_writers.rs) and of the tables *)
(* they are loaded into (schema.rs).  load_entity inserts with SELECT *,   *)
(* which pairs the columns of a file with those of the table by position,  *)
(* not by name.                                                            *)
(***************************************************************************)
EXTENDS Integers, Sequences

u8(n) == <<n, "u8">>
u32(n) == <<n, "u32">>
i32(n) == <<n, "i32">>
u64(n) == <<n, "u64">>
b32(n) == <<n, "b32">>      \* FixedSizeBinary(32), FixedString(32)
bool(n) == <<n, "bool">>

ENTITIES == <<"blocks", "transactions", "inputs", "outputs", "spends">>

\* The tables of init_schema; no load fills the ones in a second order.
all_ddl == <<"blocks", "transactions", "transactions_by_txid", "inputs", "inputs_by_prev_output",
             "outputs", "outputs_by_address", "spends">>

ParquetColumns == [
  blocks |-> <<u32("height"), b32("hash"), b32("prev_hash"), b32("merkle_root"), u32("time"),
    u32("bits"), u32("nonce"), i32("version"), u32("tx_count"), u32("size"), u32("weight"),
    u64("total_fee"), u64("coinbase_value")>>,
  transactions |-> <<u32("height"), u32("tx_index"), b32("txid"), i32("version"), u32("locktime"),
    u32("size"), u32("weight"), u64("fee"), u32("input_count"), u32("output_count"),
    bool("has_witness")>>,
  inputs |-> <<u32("height"), u32("tx_index"), u32("input_index"), b32("txid"), b32("prev_txid"),
    u32("prev_vout"), u32("script_sig_len"), u32("sequence"), u32("witness_items"),
    u32("witness_bytes"), bool("is_coinbase")>>,
  outputs |-> <<u32("height"), u32("tx_index"), u32("output_index"), b32("txid"), u64("value_sat"),
    u32("script_pubkey_len"), u8("script_type"), b32("address_hash")>>,
  spends |-> <<u32("height"), u32("spending_tx_index"), u32("spending_input_index"),
    b32("spending_txid"), b32("spent_txid"), u32("spent_vout"), u64("spent_value_sat"),
    u8("spent_script_type"), b32("spent_address_hash"), u32("spent_height")>>]

TableColumns == [
  blocks |-> <<u32("height"), b32("hash"), b32("prev_hash"), b32("merkle_root"), u32("time"),
    u32("bits"), u32("nonce"), i32("version"), u32("tx_count"), u32("size"), u32("weight"),
    u64("total_fee"), u64("coinbase_value")>>,
  transactions |-> <<u32("height"), u32("tx_index"), b32("txid"), i32("version"), u32("locktime"),
    u32("size"), u32("weight"), u64("fee"), u32("input_count"), u32("output_count"),
    u8("has_witness")>>,
  transactions_by_txid |-> <<b32("txid"), u32("height"), u32("tx_index")>>,
  inputs |-> <<u32("height"), u32("tx_index"), u32("input_index"), b32("txid"), b32("prev_txid"),
    u32("prev_vout"), u32("script_sig_len"), u32("sequence"), u32("witness_items"),
    u32("witness_bytes"), u8("is_coinbase")>>,
  inputs_by_prev_output |-> <<b32("prev_txid"), u32("prev_vout"), u32("height"), u32("tx_index"),
    u32("input_index"), b32("txid")>>,
  outputs |-> <<u32("height"), u32("tx_index"), u32("output_index"), b32("txid"), u64("value_sat"),
    u32("script_pubkey_len"), u8("script_type"), b32("address_hash")>>,
  outputs_by_address |-> <<b32("address_hash"), u8("script_type"), u32("height"), u32("tx_index"),
    u32("output_index"), b32("txid"), u64("value_sat")>>,
  spends |-> <<u32("height"), u32("spending_tx_index"), u32("spending_input_index"),
    b32("spending_txid"), b32("spent_txid"), u32("spent_vout"), u64("spent_value_sat"),
    u8("spent_script_type"), b32("spent_address_hash"), u32("spent_height")>>]

\* What a table can take without a conversion; a Boolean becomes a UInt8.
Accepts(column, field) ==
  /\ column[1] = field[1]
  /\ column[2] = IF field[2] = "bool" THEN "u8" ELSE field[2]

\* SELECT * puts every field of a file into the column of its name.
ColumnsAlign(e) ==
  /\ Len(TableColumns[e]) = Len(ParquetColumns[e])
  /\ \A n \in DOMAIN ParquetColumns[e] : Accepts(TableColumns[e][n], ParquetColumns[e][n])
=============================================================================
