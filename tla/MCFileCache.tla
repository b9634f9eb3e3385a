---------------------------- MODULE MCFileCache -----------------------------
(***************************************************************************)
(* FileCache with its interchangeable workers, files and copies.           *)
(***************************************************************************)
EXTENDS FileCache, TLC

Symmetry == Permutations(Worker) \cup Permutations(File) \cup Permutations(Copy)

=============================================================================
