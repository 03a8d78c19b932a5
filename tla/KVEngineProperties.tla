------------------------ MODULE KVEngineProperties ------------------------
(***************************************************************************)
(* What the engine has to guarantee.  The engine as it is guarantees part  *)
(* of it only: "clean" below says that nothing happened that its design    *)
(* does not cope with, and the properties that hold without that condition *)
(* do not mention it.  The findings are the properties without it.         *)
(***************************************************************************)
EXTENDS KVEngine

Clean == taints = {}

Log_ == recover(wal_file)

\* What makes an exact rollback impossible.
Unrestorable == {"torn_split", "restore_failed", "misread", "merge"}

\* What leaves a tree on which search and range_scan part ways.
Disordered == {"torn_split", "restore_failed", "torn_tree", "merge"}
---------------------------------------------------------------------------
(* The snapshot an active transaction keeps is always enough to undo it,   *)
(* whatever it wrote, in whatever order, with log failures, evictions and  *)
(* failed tree operations in between: putting the old values back gives    *)
(* the tree as it was at begin (transaction.rs:151-155 records the old     *)
(* value only at the first touch).  The same holds while rollback works    *)
(* through the keys in an order nobody chose (transaction.rs:103-114).     *)
(* Excepted: the old value could not be read, an insert that failed        *)
(* half-way through a split or a remove that merged two nodes took keys of *)
(* others with it, or rollback itself could not write.                     *)
SnapshotSufficient ==
  taints \cap Unrestorable = {} =>
    /\ in_transaction => UndoView(current_txn) = base
    /\ pc \in {"commit_log", "rollback_restore"} => UndoView(taken) = base
    /\ pc = "rollback_restore" =>
         \A k \in Touched(taken) \ undo : tree[k] = taken.snapshot[k]

(* When rollback has logged its record, the tree is exactly what it was at *)
(* begin: no key is left changed and none is missing.                      *)
RollbackExact ==
  [][pc = "rollback_restore" /\ pc' = "rollback_flush" =>
       taints \cap Unrestorable # {} \/ tree = base]_vars

(* A write inside a transaction is on its list before it is logged and     *)
(* applied (transaction.rs:168-184), and get answers from the list, scan   *)
(* from the tree (kv_engine.rs:138-151 against 203-207): a call that fails *)
(* in between leaves a key on which the two differ, and later writes,      *)
(* commits, rollbacks and recoveries may mend that or not.  Each failing   *)
(* file operation does so to at most one key, and nothing else does, as    *)
(* long as search and range_scan read the same map off the tree.           *)
OneKeyPerFailure ==
  Idle /\ taints \cap Disordered = {} =>
    Cardinality({k \in Keys : get(k) # tree[k]}) <= io_errors

(* At every moment, within any call, a kill followed by a replay of the    *)
(* committed groups in log order over whatever pages reached the disk      *)
(* yields exactly the committed writes: no acknowledged write is missing,  *)
(* nothing uncommitted is there (put logs before it changes the tree, and  *)
(* commits after; commit logs before it flushes).                          *)
LogComplete == Clean => InLogOrder(Log_, disk) = committed

(* As long as no key is written by two committed groups, the order in      *)
(* which the HashMap yields the groups cannot lose or invent anything:     *)
(* every outcome of recovery is the committed contents.                    *)
ConflictFreeRecovery ==
  Clean /\ ConflictFree(Log_) =>
    \A t \in RecoveredTrees(Log_, disk) : t = committed

(* Recovery is idempotent up to order: a kill at any point of recovery,    *)
(* after any part of its pages was written, leaves a disk from which the   *)
(* same replay gives the same tree (recovery.rs:61-90 with the log kept).  *)
RecoveryRestartable ==
  [][pc = "recover_flush" /\ pc' = "down" /\ taints' \cap {"torn_tree", "merge"} = {} =>
       InLogOrder(Log_, disk') = InLogOrder(Log_, tree)]_vars

(* Every commit that was flushed is on disk without the help of the log:   *)
(* when close has flushed and is about to drop the log, the disk alone     *)
(* holds the committed contents.                                           *)
CloseSafe == Clean /\ pc = "close_clear" => disk = committed
---------------------------------------------------------------------------
(* The abstract store the engine implements, step by step, crash and       *)
(* recovery included, until something it does not cope with happens.       *)

\* "No transaction" is not mistaken for the contents one works on.
ASSUME StoreAssumption == NoTxn \notin Contents

StoreView ==
  IF pc = "down" THEN InLogOrder(Log_, disk)
  ELSE IF pc \in AutoPcs THEN base
  ELSE IF in_transaction THEN UndoView(current_txn)
  ELSE IF pc \in {"commit_log", "rollback_restore"} THEN UndoView(taken)
  ELSE tree

KV == INSTANCE KVStore WITH
        NoWork   <- NoTxn,
        store    <- StoreView,
        work     <- IF in_transaction THEN tree ELSE NoTxn,
        inflight <- IF pc \in {"auto_commit", "commit_log"} THEN {tree} ELSE {},
        up       <- pc # "down"

(* Every step of a run that is still clean is a step of KVStore or changes *)
(* nothing it can see: reads, evictions, flushes and recovery change       *)
(* nothing, and a kill at any point is a Stop that leaves the store as it  *)
(* is or completes the one commit that was being logged.                   *)
ImplementsWhileClean == KV!Init /\ [][~Clean' \/ KV!Next]_(KV!vars)
---------------------------------------------------------------------------
(* Promises of the documentation that the engine does not keep.            *)

\* Recovery yields the committed contents although cause happened; calls
\* cut off by the last kill may count or not, so they are left out.
RecoveredDespite(cause) ==
  pc = "recover_flush" /\ ~in_doubt /\ taints \subseteq {cause} => tree = committed

(* openspec/specs.md:231-236: recovery restores what was committed.        *)
RecoveredInCommitOrder == RecoveredDespite("reordered")

(* openspec/specs.md:237: what a transaction without a Commit record wrote *)
(* is not visible after recovery - with ids handed out twice.              *)
UncommittedStaysOut == RecoveredDespite("id_reuse")
===========================================================================
