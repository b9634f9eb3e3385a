---------------------------- MODULE MCWarehouse -----------------------------
(***************************************************************************)
(* Two entities for Warehouse, one with a row per block, one with none, two *)
(* or one.                                                                 *)
(***************************************************************************)
EXTENDS Warehouse

MCEntities == <<"blocks", "spends">>
MCDdl == <<"blocks", "spends">>
MCRowsPer == [e \in {"blocks", "spends"} |->
                IF e = "blocks" THEN [h \in 0..Tip |-> 1] ELSE [h \in 0..Tip |-> (2 * h) % 3]]

=============================================================================
