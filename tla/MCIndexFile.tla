---------------------------- MODULE MCIndexFile -----------------------------
(***************************************************************************)
(* Entries for IndexFile, each key with its own record: they split the     *)
(* first leaf with the constants of the code.                              *)
(***************************************************************************)
EXTENDS IndexFile

FiveRows == {<<k, 10 * k>> : k \in 1 .. 5}
=============================================================================
