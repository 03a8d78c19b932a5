------------------------- MODULE TransactionManager -----------------------
(***************************************************************************)
(* The state and the operations of src/transaction.rs.  One transaction    *)
(* can be active.  It works in place: its writes go to the log and then    *)
(* into the tree, and the old value of each key it touches is kept in      *)
(* snapshot for a rollback.                                                *)
(*                                                                         *)
(* The B+ tree is the function from keys to values it represents (the      *)
(* module BPlusTree is about the tree itself).                             *)
(***************************************************************************)
EXTENDS RecoveryManager

CONSTANTS NoTxn,      \* current_txn = None
          Untouched   \* a key with no entry in snapshot, or no write to it

ASSUME TxnAssumption == /\ Untouched \notin Values \cup {Absent}
                        /\ NoTxn \notin [txn_id : Nat,
                             operations : Seq(Operation),
                             snapshot : [Keys -> Values \cup {Absent, Untouched}]]

Transaction == [txn_id : Nat,
                operations : Seq(Operation),
                snapshot : [Keys -> Values \cup {Absent, Untouched}]]

VARIABLES tree,          \* what the tree holds, in the buffer pool
          current_txn,   \* the active transaction or NoTxn
          next_txn_id    \* restarts at 1 with every TransactionManager::new

txnVars == <<tree, current_txn, next_txn_id>>

TxnTypeOK == /\ tree \in Contents
             /\ current_txn \in Transaction \cup {NoTxn}
             /\ next_txn_id \in Nat \ {0}

in_transaction == current_txn # NoTxn

NewTransaction(id) == [txn_id |-> id, operations |-> <<>>,
                       snapshot |-> [k \in Keys |-> Untouched]]

Op(id, type, k, v) == [txn_id |-> id, op_type |-> type, key |-> k, value |-> v]
CommitOp(id)   == Op(id, "Commit", NoKey, Absent)
RollbackOp(id) == Op(id, "Rollback", NoKey, Absent)

begin == /\ ~in_transaction
         /\ current_txn' = NewTransaction(next_txn_id)
         /\ next_txn_id' = next_txn_id + 1

\* Variant: every touch overwrites the old value.
RecordedAgain(txn, op, old) == [txn EXCEPT !.snapshot[op.key] = old,
                                           !.operations = Append(@, op)]

\* The first half of record_operation: old, what search answered, is kept at
\* the first touch, and the operation is on the list before it is in the log.
Recorded(txn, op, old) ==
  [txn EXCEPT !.snapshot[op.key] = IF @ = Untouched THEN old ELSE @,
              !.operations = Append(@, op)]

\* Variant: the list is searched from its start.
FirstUncommitted(txn, k) ==
  LET hits == {i \in DOMAIN txn.operations : txn.operations[i].key = k}
  IN  IF hits = {} THEN Untouched ELSE txn.operations[FirstOf(hits)].value

\* The value the transaction gave k last, or Untouched.
get_uncommitted(txn, k) ==
  LET hits == {i \in DOMAIN txn.operations : txn.operations[i].key = k}
  IN  IF hits = {} THEN Untouched ELSE txn.operations[LastOf(hits)].value

\* contents with the transaction's writes on top.
Overlay(txn, contents) ==
  [k \in Keys |-> IF get_uncommitted(txn, k) = Untouched
                    THEN contents[k] ELSE get_uncommitted(txn, k)]

\* Variant: a key that did not exist before is not removed again.
TouchedBefore(txn) == {k \in Keys : txn.snapshot[k] \notin {Untouched, Absent}}

\* The keys rollback has to put back, and what the tree is then.
Touched(txn) == {k \in Keys : txn.snapshot[k] # Untouched}

UndoView(txn) ==
  [k \in Keys |-> IF k \in Touched(txn) THEN txn.snapshot[k] ELSE tree[k]]

\* btree.insert for a Put, btree.remove for a Delete, when they succeed.
Applied(op) == [tree EXCEPT ![op.key] = op.value]

\* The operation is done, and search reaches some keys no longer: what a split
\* that is cut off or a merge of two nodes may do.
PartlyLost(op) ==
  {[k \in Keys |-> IF k \in lost THEN Absent ELSE Applied(op)[k]] : lost \in SUBSET Keys}

\* What an insert or remove that returns Err may leave: nothing done, all of
\* it, or, for an insert that fails after it wrote the two halves of a split
\* node, a tree whose upper half is out of reach.
AfterFailedApply(op) ==
  {tree, Applied(op)} \cup IF op.op_type = "Put" THEN PartlyLost(op) ELSE {}
===========================================================================
