---------------------------- MODULE MCKVEngine ----------------------------
(* Small instances of KVEngine.                                            *)
EXTENDS KVEngineProperties, RecoveryLoop

\* The keys are interchangeable.
KeySymmetry == Permutations(Keys)

\* Every key holds something nobody logs, to see which keys replay leaves.
Old == [k \in Keys |-> NoKey]

(* On every log the engine can leave behind, with ids used twice, records  *)
(* behind a Commit and groups cut off by a tear, RecoveredTrees is what    *)
(* the loop of recover_from_wal can build over the orders in which the     *)
(* HashMap can yield the committed groups (recovery.rs:39-78).             *)
ReplayIsFold == pc = "down" => RecoveredTrees(Log_, Old) = LoopOutcomes(Log_, Old)
===========================================================================
