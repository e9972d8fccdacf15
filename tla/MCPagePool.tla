----------------------------- MODULE MCPagePool -----------------------------
(***************************************************************************)
(* Four slots and eight pages of two files, whose hashes collide and wrap    *)
(* round the table: it gets full, with nodes that are no end of the list.  *)
(***************************************************************************)
EXTENDS PagePool

MCFileIds  == {0, 1}
MCPageNums == 0 .. 3
MCAllFiles == -1
=============================================================================
