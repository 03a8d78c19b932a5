------------------------------ MODULE KVEngine ----------------------------
(***************************************************************************)
(* The engine of src/kv_engine.rs: the calls of its interface, each cut    *)
(* into the steps between which the process can be killed or an I/O error  *)
(* can surface, over the transaction manager, the log and recovery.  The   *)
(* engine is single-threaded: one call runs at a time, and pc says where   *)
(* it is.                                                                  *)
(*                                                                         *)
(* disk is the map the .db and .meta files represent.  flush_all brings it *)
(* up to the tree; between flushes an eviction may write any key's page    *)
(* (Steal), and a power loss that undoes such a write is the run without   *)
(* it.  A stop in between may find files whose pages do not fit together   *)
(* (FilesAtStop); the module TreeStorage says when.                        *)
(*                                                                         *)
(* The tree is a map, on which search and range_scan agree, until the      *)
(* first merge of two nodes: the module BPlusTree is about that, and about *)
(* what the merge takes away.  Here a remove that merges puts any keys out *)
(* of search's reach, and that is where the model ends: no call that reads *)
(* or changes the tree is made behind it (TreeIsMap).                      *)
(***************************************************************************)
EXTENDS TransactionManager, FiniteSets

CONSTANTS MaxLsn,       \* bound on the LSNs handed out
          MaxOpens,     \* bound on calls of KVEngine::open
          MaxCrashes,   \* bound on kills of the process
          MaxIoErrors,  \* bound on failing file operations
          CanSteal,     \* the tree outgrows the pool's 1000 frames
          CanMerge      \* the tree has leaves enough for a remove to merge two

ASSUME EngineAssumption == /\ {MaxLsn, MaxOpens, MaxCrashes, MaxIoErrors} \subseteq Nat
                           /\ {CanSteal, CanMerge} \subseteq BOOLEAN

NoOp == Op(0, "Rollback", NoKey, Absent)

VARIABLES pc,       \* the step the running call is at
          disk,     \* what the .db file represents
          rec,      \* the put or delete being carried out
          taken,    \* the transaction commit or rollback took out of current_txn
          undo,     \* the keys rollback has still to put back
          opens, crashes, io_errors,   \* counted for the bounds
          \* History, read by the properties only:
          base,        \* the tree when the current write or transaction began
          committed,   \* the writes whose Commit record is in the log, in commit order
          taints,      \* what happened so far that the design does not cope with
          in_doubt     \* the last kill hit a write or commit that had not returned

engineVars == <<pc, disk, rec, taken, undo>>
boundVars  == <<opens, crashes, io_errors>>
historyVars == <<base, committed, taints, in_doubt>>
vars == <<walVars, txnVars, engineVars, boundVars, historyVars>>

AutoPcs   == {"auto_log", "auto_apply", "auto_commit"}
FlushPcs  == {"commit_flush", "rollback_flush", "close_flush", "recover_flush"}
Pcs == AutoPcs \cup FlushPcs \cup
       {"down", "idle", "txn_log", "txn_apply", "commit_log",
        "rollback_restore", "close_clear"}

Taints == {"steal", "close_in_txn", "reordered", "id_reuse",
           "append_after_tear", "io_error", "restore_failed", "torn_split", "misread",
           "torn_tree", "merge"}

TypeOK == /\ WALTypeOK
          /\ TxnTypeOK
          /\ pc \in Pcs
          /\ disk \in Contents
          /\ rec \in Operation
          /\ pc \in AutoPcs \cup {"txn_log", "txn_apply"} =>
               rec.key \in Keys /\ rec.op_type \in {"Put", "Delete"}
          /\ taken \in Transaction \cup {NoTxn}
          /\ pc \in {"commit_log", "rollback_restore"} => taken # NoTxn
          /\ undo \subseteq Keys
          /\ {opens, crashes, io_errors} \subseteq Nat
          /\ base \in Contents
          /\ committed \in Contents
          /\ taints \subseteq Taints
          /\ in_doubt \in BOOLEAN

Init == /\ WALInit
        /\ tree = [k \in Keys |-> Absent]
        /\ current_txn = NoTxn
        /\ next_txn_id = 1
        /\ pc = "down"
        /\ disk = tree
        /\ rec = NoOp
        /\ taken = NoTxn
        /\ undo = {}
        /\ opens = 0 /\ crashes = 0 /\ io_errors = 0
        /\ base = tree
        /\ committed = tree
        /\ taints = {}
        /\ in_doubt = FALSE

\* Room in the bounded log for n more records.
Room(n) == current_lsn + n <= MaxLsn + 1

\* The engine is open and no call is running.
Idle == pc = "idle"

\* No two nodes were merged.  Bounds the calls: none behind a merge.
TreeIsMap == "merge" \notin taints

Taint(cond, taint) == IF cond THEN {taint} ELSE {}

\* The id handed out next already has records in the log, written by an
\* earlier process.
IdTaint == Taint(next_txn_id \in TxnIds(recover(wal_file)), "id_reuse")

\* append returning Ok.  Behind a Torn chunk the record will not be found.
Log(op) == /\ append(op)
           /\ taints' = taints \cup Taint(\E i \in DOMAIN wal_file : wal_file[i] = Torn,
                                          "append_after_tear")

\* The committed contents once the running call has logged its Commit record.
AfterCommit == IF pc = "auto_commit"
                 THEN [committed EXCEPT ![rec.key] = rec.value]
                 ELSE Overlay(taken, committed)
---------------------------------------------------------------------------
(* KVEngine::put and delete outside a transaction: an id of its own, one   *)
(* record, the change to the tree, a Commit record.  Nothing is flushed.   *)

AutoStart(type, k, v) ==
  /\ Idle /\ ~in_transaction /\ Room(2) /\ TreeIsMap
  /\ rec' = Op(next_txn_id, type, k, v)
  /\ next_txn_id' = next_txn_id + 1
  /\ base' = tree
  /\ taints' = taints \cup IdTaint
  /\ pc' = "auto_log"
  /\ UNCHANGED <<walVars, tree, current_txn, disk, taken, undo, boundVars,
                 committed, in_doubt>>

AutoLog == /\ pc = "auto_log"
           /\ Log(rec)
           /\ pc' = "auto_apply"
           /\ UNCHANGED <<txnVars, disk, rec, taken, undo, boundVars,
                          base, committed, in_doubt>>

AutoApply == /\ pc = "auto_apply"
             /\ tree' = Applied(rec)
             /\ pc' = "auto_commit"
             /\ UNCHANGED <<walVars, current_txn, next_txn_id, disk, rec, taken,
                            undo, boundVars, historyVars>>

AutoCommit == /\ pc = "auto_commit"
              /\ Log(CommitOp(rec.txn_id))
              /\ committed' = AfterCommit
              /\ pc' = "idle"
              /\ UNCHANGED <<txnVars, disk, rec, taken, undo, boundVars, base, in_doubt>>
---------------------------------------------------------------------------
(* begin, and put and delete inside a transaction (record_operation).      *)

Begin == /\ Idle /\ Room(1)
         /\ begin
         /\ base' = tree
         /\ taints' = taints \cup IdTaint
         /\ UNCHANGED <<walVars, tree, engineVars, boundVars, committed, in_doubt>>

\* What get returns: the transaction's own write first, then the tree.
get(k) == IF in_transaction /\ get_uncommitted(current_txn, k) # Untouched
            THEN get_uncommitted(current_txn, k) ELSE tree[k]

\* The transaction takes in a write; search found old.  delete answers false
\* for a missing key without recording anything.
TxnRecord(type, k, v, old) ==
  /\ Idle /\ in_transaction /\ Room(2) /\ TreeIsMap
  /\ type = "Delete" => get(k) # Absent
  /\ rec' = Op(current_txn.txn_id, type, k, v)
  /\ current_txn' = Recorded(current_txn, rec', old)
  /\ pc' = "txn_log"
  /\ UNCHANGED <<walVars, tree, next_txn_id, disk, taken, undo, opens, crashes,
                 base, committed, in_doubt>>

TxnStart(type, k, v) == /\ TxnRecord(type, k, v, tree[k])
                        /\ UNCHANGED <<io_errors, taints>>

TxnLog == /\ pc = "txn_log"
          /\ Log(rec)
          /\ pc' = "txn_apply"
          /\ UNCHANGED <<txnVars, disk, rec, taken, undo, boundVars,
                         base, committed, in_doubt>>

TxnApply == /\ pc = "txn_apply"
            /\ tree' = Applied(rec)
            /\ pc' = "idle"
            /\ UNCHANGED <<walVars, current_txn, next_txn_id, disk, rec, taken,
                           undo, boundVars, historyVars>>
---------------------------------------------------------------------------
(* commit takes the transaction out of current_txn before it logs.         *)

\* Variant: commit flushes and returns without its Commit record.
CommitUnlogged == /\ Idle /\ in_transaction
                  /\ taken' = current_txn
                  /\ current_txn' = NoTxn
                  /\ pc' = "commit_flush"
                  /\ UNCHANGED <<walVars, tree, next_txn_id, disk, rec, undo,
                                 boundVars, historyVars>>

CommitStart == /\ Idle /\ in_transaction
               /\ taken' = current_txn
               /\ current_txn' = NoTxn
               /\ pc' = "commit_log"
               /\ UNCHANGED <<walVars, tree, next_txn_id, disk, rec, undo,
                              boundVars, historyVars>>

CommitLog == /\ pc = "commit_log"
             /\ Log(CommitOp(taken.txn_id))
             /\ committed' = AfterCommit
             /\ pc' = "commit_flush"
             /\ UNCHANGED <<txnVars, disk, rec, taken, undo, boundVars, base, in_doubt>>

(* rollback takes it too, puts the old values back in the order the        *)
(* HashMap yields the keys, logs and flushes.                              *)

RollbackStart == /\ Idle /\ in_transaction /\ TreeIsMap
                 /\ taken' = current_txn
                 /\ current_txn' = NoTxn
                 /\ undo' = Touched(current_txn)
                 /\ pc' = "rollback_restore"
                 /\ UNCHANGED <<walVars, tree, next_txn_id, disk, rec,
                                boundVars, historyVars>>

Restore(k) == /\ pc = "rollback_restore" /\ k \in undo
              /\ tree' = [tree EXCEPT ![k] = taken.snapshot[k]]
              /\ undo' = undo \ {k}
              /\ UNCHANGED <<walVars, current_txn, next_txn_id, pc, disk, rec,
                             taken, boundVars, historyVars>>

RollbackLog == /\ pc = "rollback_restore" /\ undo = {}
               /\ Log(RollbackOp(taken.txn_id))
               /\ pc' = "rollback_flush"
               /\ UNCHANGED <<txnVars, disk, rec, taken, undo, boundVars,
                              base, committed, in_doubt>>
---------------------------------------------------------------------------
(* flush_all, as the last step of commit, rollback and recovery and the    *)
(* first one of close.  The second flush of KVEngine::commit finds nothing *)
(* dirty.                                                                  *)

Flush == /\ pc \in FlushPcs
         /\ disk' = tree
         /\ pc' = IF pc = "close_flush" THEN "close_clear" ELSE "idle"
         /\ taken' = NoTxn
         /\ UNCHANGED <<walVars, txnVars, rec, undo, boundVars, historyVars>>

\* A dirty page reaches the file early: evicted, or part of a running flush.
Steal(k) == /\ pc # "down"
            /\ CanSteal \/ pc \in FlushPcs
            /\ disk[k] # tree[k]
            /\ disk' = [disk EXCEPT ![k] = tree[k]]
            /\ taints' = taints \cup Taint(tree[k] # committed[k], "steal")
            /\ UNCHANGED <<walVars, txnVars, pc, rec, taken, undo, boundVars,
                           base, committed, in_doubt>>

\* Variant: close clears the log without a flush.
CloseUnflushed == /\ Idle
                  /\ pc' = "close_clear"
                  /\ taints' = taints \cup Taint(in_transaction, "close_in_txn")
                  /\ UNCHANGED <<walVars, txnVars, disk, rec, taken, undo, boundVars,
                                 base, committed, in_doubt>>

\* close does not look at current_txn.
CloseStart == /\ Idle
              /\ pc' = "close_flush"
              /\ taints' = taints \cup Taint(in_transaction, "close_in_txn")
              /\ UNCHANGED <<walVars, txnVars, disk, rec, taken, undo, boundVars,
                             base, committed, in_doubt>>

\* The memory of the process is gone.
MemoryLost == /\ tree' = disk'
              /\ current_txn' = NoTxn
              /\ next_txn_id' = 1
              /\ pc' = "down"
              /\ rec' = NoOp
              /\ taken' = NoTxn
              /\ undo' = {}

CloseClear == /\ pc = "close_clear"
              /\ clear
              /\ UNCHANGED disk
              /\ MemoryLost
              /\ UNCHANGED <<boundVars, historyVars>>
---------------------------------------------------------------------------
(* The process is killed.  Inside an append the record may be in the file  *)
(* in part or, unacknowledged, in full.                                    *)

\* The record the next step appends.
Appending == CASE pc \in {"auto_log", "txn_log"} -> {rec}
               [] pc = "auto_commit" -> {CommitOp(rec.txn_id)}
               [] pc = "commit_log"  -> {CommitOp(taken.txn_id)}
               [] pc = "rollback_restore" /\ undo = {} -> {RollbackOp(taken.txn_id)}
               [] OTHER -> {}

\* The files as they are; or files whose pages do not fit together, with keys
\* out of reach (see TreeStorage).  Which pages are dirty is not kept, and two
\* equal maps may lie on different pages; but pages change only behind a logged
\* record, and close drops the log only when all of them are written.
FilesAtStop(causes) ==
  \/ /\ taints' = taints \cup causes
     /\ UNCHANGED disk
  \/ /\ wal_file # <<>>
     /\ \E lost \in SUBSET Keys \ {{}} :
          disk' = [k \in Keys |-> IF k \in lost THEN Absent ELSE disk[k]]
     /\ taints' = taints \cup causes \cup {"torn_tree"}

InDoubt == in_doubt' = (pc \in AutoPcs \cup {"commit_log"})

Crash == /\ pc # "down"
         /\ crashes < MaxCrashes
         /\ crashes' = crashes + 1
         /\ FilesAtStop({})
         /\ MemoryLost
         /\ InDoubt
         /\ UNCHANGED <<walVars, opens, io_errors, base, committed>>

CrashAppending ==
  /\ crashes < MaxCrashes
  /\ crashes' = crashes + 1
  /\ \E op \in Appending :
       /\ CrashInAppend(op)
       /\ IF recover(wal_file') # recover(wal_file) /\ op.op_type = "Commit"
            THEN committed' = AfterCommit
            ELSE UNCHANGED committed
  /\ FilesAtStop({})
  /\ MemoryLost
  /\ InDoubt
  /\ UNCHANGED <<opens, io_errors, base>>

(* KVEngine::open: read the tree on disk, WALManager::new, recover, flush. *)
(* The log is kept, the transaction ids start again at 1.                  *)
OpenWith(recovered, errors) ==
  /\ pc = "down" /\ TreeIsMap
  /\ opens < MaxOpens
  /\ opens' = opens + 1
  /\ WALNew
  /\ tree' \in recovered
  /\ pc' = IF recover(wal_file) = <<>> THEN "idle" ELSE "recover_flush"
  /\ base' = tree'
  /\ taints' = taints \cup errors \cup
                 Taint(tree' # InLogOrder(recover(wal_file), disk), "reordered")
  /\ UNCHANGED <<current_txn, next_txn_id, disk, rec, taken, undo, crashes,
                 committed, in_doubt>>

Open == /\ OpenWith(RecoveredTrees(recover(wal_file), disk), {})
        /\ UNCHANGED io_errors
---------------------------------------------------------------------------
(* Removes that merge nodes: one of a call, whether or not a later file    *)
(* operation of it fails, one in the loop of rollback and one replayed by  *)
(* recovery.  The rest of such a loop then works on a tree in disorder,    *)
(* where each key is gone, as it was, or as the loop would have left it.   *)

IoError == io_errors < MaxIoErrors /\ io_errors' = io_errors + 1

ApplyMerges ==
  /\ CanMerge
  /\ pc \in {"auto_apply", "txn_apply"} /\ rec.op_type = "Delete"
  /\ tree' \in PartlyLost(rec)
  /\ \/ /\ UNCHANGED io_errors
        /\ pc' = IF pc = "auto_apply" THEN "auto_commit" ELSE "idle"
        /\ taints' = taints \cup {"merge"}
     \/ /\ IoError
        /\ pc' = "idle"
        /\ taints' = taints \cup {"merge", "io_error"}
  /\ UNCHANGED <<walVars, current_txn, next_txn_id, disk, rec, taken, undo,
                 opens, crashes, base, committed, in_doubt>>

RestoreMerges ==
  /\ CanMerge
  /\ pc = "rollback_restore"
  /\ \E k \in undo : taken.snapshot[k] = Absent
  /\ tree' \in {t \in Contents : \A k \in Keys :
                  t[k] \in {Absent, tree[k]} \cup {taken.snapshot[j] : j \in undo \cap {k}}}
  /\ undo' = {}
  /\ taints' = taints \cup {"merge"}
  /\ UNCHANGED <<walVars, current_txn, next_txn_id, pc, disk, rec, taken,
                 boundVars, base, committed, in_doubt>>

\* The writes of k that recovery replays.
Replays(recs, k) == UNION {WritesOf(recs, t, k) : t \in committed_txns(recs)}

MergedTrees(recs) ==
  {t \in Contents : \A k \in Keys :
     t[k] \in {Absent, disk[k]} \cup {recs[i].value : i \in Replays(recs, k)}}

OpenMerges == LET recs == recover(wal_file)
              IN  /\ CanMerge
                  /\ \E k \in Keys : \E i \in Replays(recs, k) : recs[i].op_type = "Delete"
                  /\ OpenWith(MergedTrees(recs), {"merge"})
                  /\ UNCHANGED io_errors
---------------------------------------------------------------------------
(* File operations that return Err.  Every call passes the error up with   *)
(* `?` and the engine stays open, as far as the call had come.             *)

\* search answers None when a page cannot be read: the snapshot takes a key
\* that is there for one that is not.
TxnMisread(type, k, v) == /\ IoError
                          /\ TxnRecord(type, k, v, Absent)
                          /\ taints' = taints \cup {"io_error", "misread"}

\* Recovery ignores the error of a remove: the key stays, with the value it
\* had on disk or one that was replayed before.
KeptTrees(recs, k) ==
  {[r EXCEPT ![k] = v] : v \in {disk[k]} \cup {recs[i].value : i \in Replays(recs, k)},
                         r \in {t \in RecoveredTrees(recs, disk) : t[k] = Absent}}

OpenKeeps(k) == LET recs == recover(wal_file)
                IN  /\ IoError
                    /\ \E i \in Replays(recs, k) : recs[i].op_type = "Delete"
                    /\ OpenWith(KeptTrees(recs, k), {"io_error"})

\* write_wal failed: put, delete, commit or rollback returns here.  commit
\* and rollback have already taken the transaction.
LogFails == /\ IoError
            /\ \E op \in Appending : AppendFails(op)
            /\ pc' = "idle"
            /\ taken' = NoTxn
            /\ taints' = taints \cup {"io_error"}
            /\ UNCHANGED <<txnVars, disk, rec, undo, opens, crashes,
                           base, committed, in_doubt>>

\* insert or remove failed: the call returns, except that record_operation
\* ignores the error of a remove (which then also ends the call).
ApplyFails == /\ IoError
              /\ pc \in {"auto_apply", "txn_apply"}
              /\ tree' \in AfterFailedApply(rec)
              /\ pc' = "idle"
              /\ taints' = taints \cup {"io_error"} \cup
                             Taint(tree' \notin {tree, Applied(rec)}, "torn_split")
              /\ UNCHANGED <<walVars, current_txn, next_txn_id, disk, rec, taken,
                             undo, opens, crashes, base, committed, in_doubt>>

\* A failed insert ends rollback with the transaction gone; a failed remove
\* is ignored and the loop goes on.
RestoreFails(k) ==
  /\ IoError
  /\ pc = "rollback_restore" /\ k \in undo
  /\ LET v  == taken.snapshot[k]
         op == Op(taken.txn_id, IF v = Absent THEN "Delete" ELSE "Put", k, v)
     IN  /\ tree' \in AfterFailedApply(op)
         /\ IF v = Absent
              THEN undo' = undo \ {k} /\ UNCHANGED <<pc, taken>>
              ELSE undo' = {} /\ pc' = "idle" /\ taken' = NoTxn
  /\ taints' = taints \cup {"io_error", "restore_failed"}
  /\ UNCHANGED <<walVars, current_txn, next_txn_id, disk, rec, opens, crashes,
                 base, committed, in_doubt>>

\* A page write or the fsync failed.  open gives up; close, commit and
\* rollback return and leave the engine open.
FlushFails == /\ IoError
              /\ pc \in FlushPcs
              /\ IF pc = "recover_flush"
                   THEN FilesAtStop({"io_error"}) /\ MemoryLost
                   ELSE /\ pc' = "idle"
                        /\ taken' = NoTxn
                        /\ taints' = taints \cup {"io_error"}
                        /\ UNCHANGED <<txnVars, disk, rec, undo>>
              /\ UNCHANGED <<walVars, opens, crashes, base, committed, in_doubt>>

\* clear_wal failed: is_open stays true.
CloseFails == /\ IoError
              /\ pc = "close_clear"
              /\ ClearFails
              /\ pc' = "idle"
              /\ taints' = taints \cup {"io_error"}
              /\ UNCHANGED <<txnVars, disk, rec, taken, undo, opens, crashes,
                             base, committed, in_doubt>>
---------------------------------------------------------------------------
Client == \/ \E k \in Keys, v \in Values : AutoStart("Put", k, v) \/ TxnStart("Put", k, v)
          \/ \E k \in Keys : AutoStart("Delete", k, Absent) \/ TxnStart("Delete", k, Absent)
          \/ Begin \/ CommitStart \/ RollbackStart \/ CloseStart \/ Open

Running == \/ AutoLog \/ AutoApply \/ AutoCommit
           \/ TxnLog \/ TxnApply
           \/ CommitLog \/ RollbackLog \/ Flush \/ CloseClear
           \/ \E k \in Keys : Restore(k)

Environment == \/ \E k \in Keys : Steal(k) \/ RestoreFails(k) \/ OpenKeeps(k)
               \/ \E k \in Keys, v \in Values : TxnMisread("Put", k, v)
               \/ \E k \in Keys : TxnMisread("Delete", k, Absent)
               \/ Crash \/ CrashAppending
               \/ LogFails \/ ApplyFails \/ FlushFails \/ CloseFails
               \/ ApplyMerges \/ RestoreMerges \/ OpenMerges

Next == Client \/ Running \/ Environment

Spec == Init /\ [][Next]_vars
===========================================================================
