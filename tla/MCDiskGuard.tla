---------------------------- MODULE MCDiskGuard -----------------------------
(***************************************************************************)
(* Two networks for DiskGuard: the index of one grows by four in each      *)
(* step; that of the other, whose chain is shorter, is large, so that the  *)
(* sizes fall where the points of both are read as those of one.  Two      *)
(* heights without a space between them are too large to be read, the      *)
(* first digit of one and another height are not, and a size with a height *)
(* behind it may be either, as with the real widths.                       *)
(***************************************************************************)
EXTENDS DiskGuard

MCNet == {"mainnet", "signet"}
MCTip == [n \in MCNet |-> IF n = "mainnet" THEN 3 ELSE 1]
MCSize == [n \in MCNet |-> IF n = "mainnet" THEN [h \in 0..3 |-> 4 * h] ELSE [h \in 0..1 |-> 19 * h]]

=============================================================================
