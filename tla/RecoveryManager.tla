-------------------------- MODULE RecoveryManager -------------------------
(***************************************************************************)
(* What RecoveryManager::recover_from_wal of src/recovery.rs makes of a    *)
(* list of log records: it groups them by transaction id in a HashMap,     *)
(* takes the groups that hold a Commit record in the order the HashMap     *)
(* iterates them, and applies the Puts and Deletes of each group, in       *)
(* record order, to the tree found on disk.                                *)
(*                                                                         *)
(* The result is given key by key: the value of the last write of the last *)
(* group that writes the key.  ReplayIsFold in MCKVEngine compares this    *)
(* with the loop as written.                                               *)
(***************************************************************************)
EXTENDS WALManager

Contents == [Keys -> Values \cup {Absent}]

TxnIds(recs) == {recs[i].txn_id : i \in DOMAIN recs}

\* Variant: groups without a Commit record are replayed too.
AllTxns(recs) == TxnIds(recs)

committed_txns(recs) ==
  {t \in TxnIds(recs) :
     \E i \in DOMAIN recs : recs[i].txn_id = t /\ recs[i].op_type = "Commit"}

\* Variant: the deletes are skipped.
PutsOf(recs, t, k) ==
  {i \in DOMAIN recs : recs[i].txn_id = t /\ recs[i].op_type = "Put" /\ recs[i].key = k}

\* The positions of the writes of group t to key k.
WritesOf(recs, t, k) ==
  {i \in DOMAIN recs : /\ recs[i].txn_id = t
                       /\ recs[i].op_type \in {"Put", "Delete"}
                       /\ recs[i].key = k}

Writers(recs, k) == {t \in committed_txns(recs) : WritesOf(recs, t, k) # {}}

\* Variant: the first write wins.
FirstOf(S) == CHOOSE i \in S : \A j \in S : i <= j

LastOf(S) == CHOOSE i \in S : \A j \in S : j <= i

\* A HashMap may yield the groups in any order: order[t] is t's turn.
ReplayOrders(recs) ==
  LET C == committed_txns(recs)
  IN  {order \in [C -> DOMAIN recs] :
         \A t, u \in C : order[t] = order[u] => t = u}

Replayed(recs, order, contents) ==
  [k \in Keys |->
     IF Writers(recs, k) = {}
       THEN contents[k]
       ELSE LET t == CHOOSE w \in Writers(recs, k) :
                       \A u \in Writers(recs, k) : order[u] <= order[w]
            IN  recs[LastOf(WritesOf(recs, t, k))].value]

\* The trees recovery may build from the log and the tree on disk.
RecoveredTrees(recs, contents) ==
  {Replayed(recs, order, contents) : order \in ReplayOrders(recs)}
---------------------------------------------------------------------------
(* Two ideas the properties need.                                          *)

\* Replay of the committed groups in the order the log holds their writes.
InLogOrder(recs, contents) ==
  [k \in Keys |->
     LET W == UNION {WritesOf(recs, t, k) : t \in Writers(recs, k)}
     IN  IF W = {} THEN contents[k] ELSE recs[LastOf(W)].value]

\* No key is written by two committed groups, so the order cannot matter.
ConflictFree(recs) ==
  \A k \in Keys : \A t, u \in Writers(recs, k) : t = u
===========================================================================
