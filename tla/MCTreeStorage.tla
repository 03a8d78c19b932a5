-------------------------- MODULE MCTreeStorage ---------------------------
(* A small instance of TreeStorage.                                        *)
EXTENDS TreeStorage

MCEntries == {<<k, 10 * k>> : k \in 1 .. 4}
===========================================================================
