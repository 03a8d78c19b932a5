---------------------------- MODULE MCBPlusTree ---------------------------
(* A small instance of BPlusTree: each key has a value of its own, so that *)
(* a value next to the wrong key shows.                                    *)
EXTENDS BPlusTree

MCEntries == {<<k, 10 * k>> : k \in 1 .. 5}
===========================================================================
