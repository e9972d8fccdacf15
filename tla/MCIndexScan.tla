---------------------------- MODULE MCIndexScan -----------------------------
(***************************************************************************)
(* Entries for IndexFile and IndexScan: each key with its own record, so   *)
(* that a record that lands beside the wrong key shows, and one key with a *)
(* second one.  With branching factor 2 seven keys split inner nodes that  *)
(* are not the root, and with two nodes to a page every allocation of a    *)
(* node begins or fills a page.  A scan may compare with a key, with a     *)
(* value between two keys, before the first and behind the last.           *)
(***************************************************************************)
EXTENDS IndexScan

SevenRows == {<<k, 10 * k>> : k \in {0, 1, 2, 4, 5, 6, 8}} \cup {<<4, 41>>}

MCScanValues == {-1, 0, 3, 5, 9}
=============================================================================
