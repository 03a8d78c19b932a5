-------------------------- MODULE KVEngine_proofs -------------------------
(***************************************************************************)
(* The engine for any keys and values and any number of calls, kills,      *)
(* restarts, evictions and failing file operations.  First its types and   *)
(* the undo of a transaction; then what it guarantees across kills: as     *)
(* long as nothing happened that its design does not cope with, the log    *)
(* and the disk together hold exactly the committed contents, and every    *)
(* step is a step of KVStore.                                              *)
(***************************************************************************)
EXTENDS KVEngineProperties, WALManagerLemmas, FiniteSetTheorems
---------------------------------------------------------------------------
(* Facts about the operators of TransactionManager and RecoveryManager,    *)
(* for every log, transaction and tree.                                    *)

Value == Values \cup {Absent}

(* LastOf a set of positions is its last element.                          *)
LEMMA LastOfSpec ==
  ASSUME NEW n \in Nat, NEW S \in SUBSET (1 .. n), S # {}
  PROVE  LastOf(S) \in S /\ \A j \in S : j <= LastOf(S)
<1>1. S \in SUBSET (0 .. n)
  OBVIOUS
<1>2. \E i \in S : \A j \in S : j <= i
  BY <1>1, GreatestElement
<1> QED BY <1>2 DEF LastOf

(* A position that is the last element of a set is LastOf it.              *)
LEMMA LastOfUnique ==
  ASSUME NEW n \in Nat, NEW S \in SUBSET (1 .. n), NEW i \in S, \A j \in S : j <= i
  PROVE  LastOf(S) = i
<1>1. LastOf(S) \in S /\ \A j \in S : j <= LastOf(S)
  BY LastOfSpec
<1> DEFINE m == LastOf(S)
<1>2. m \in 1 .. n /\ i \in 1 .. n /\ m <= i /\ i <= m
  BY <1>1
<1> HIDE DEF m
<1>3. m = i
  BY <1>2
<1> QED BY <1>3 DEF m
---------------------------------------------------------------------------
(* Every operation and transaction the manager builds has its type.        *)
LEMMA OpType ==
  ASSUME NEW id \in Nat, NEW type \in OpTypes, NEW k \in Keys \cup {NoKey}, NEW v \in Value
  PROVE  Op(id, type, k, v) \in Operation
BY DEF Op, Operation, Value

LEMMA OpFields ==
  ASSUME NEW op \in Operation
  PROVE  /\ op.txn_id \in Nat /\ op.op_type \in OpTypes
         /\ op.key \in Keys \cup {NoKey} /\ op.value \in Value
BY DEF Operation, Value

LEMMA TransactionFields ==
  ASSUME NEW txn \in Transaction
  PROVE  /\ txn # NoTxn
         /\ txn.txn_id \in Nat
         /\ txn.operations \in Seq(Operation)
         /\ txn.snapshot \in [Keys -> Value \cup {Untouched}]
<1>1. Values \cup {Absent, Untouched} = Value \cup {Untouched}
  BY DEF Value
<1> QED BY <1>1, TxnAssumption DEF Transaction

LEMMA NewTransactionType ==
  ASSUME NEW id \in Nat
  PROVE  NewTransaction(id) \in Transaction /\ Touched(NewTransaction(id)) = {}
<1>1. << >> \in Seq(Operation)
  BY EmptySeq
<1> QED BY <1>1 DEF NewTransaction, Transaction, Touched

(* Recording an operation keeps the type, adds its key to the touched ones *)
(* and remembers the old value for it only if it was not touched yet.      *)
LEMMA RecordedSpec ==
  ASSUME NEW txn \in Transaction, NEW op \in Operation, op.key \in Keys, NEW old \in Value
  PROVE  /\ Recorded(txn, op, old) \in Transaction
         /\ Recorded(txn, op, old).operations = Append(txn.operations, op)
         /\ Recorded(txn, op, old).snapshot =
              [txn.snapshot EXCEPT ![op.key] =
                 IF txn.snapshot[op.key] = Untouched THEN old
                                                     ELSE txn.snapshot[op.key]]
<1>1. Append(txn.operations, op) \in Seq(Operation)
  BY TransactionFields, AppendProperties
<1> QED BY <1>1 DEF Recorded, Transaction, Value

LEMMA AppliedType ==
  ASSUME tree \in Contents, NEW op \in Operation
  PROVE  Applied(op) \in Contents
BY OpFields DEF Applied, Contents, Value

LEMMA AfterFailedApplyType ==
  ASSUME tree \in Contents, NEW op \in Operation, NEW t \in AfterFailedApply(op)
  PROVE  t \in Contents
<1>1. Applied(op) \in Contents
  BY AppliedType
<1> HIDE DEF Applied
<1>2. CASE t \in {tree, Applied(op)}
  BY <1>1, <1>2
<1>3. CASE \E lost \in SUBSET Keys :
             t = [k \in Keys |-> IF k \in lost THEN Absent ELSE Applied(op)[k]]
  BY <1>1, <1>3 DEF Contents
<1>4. op.op_type = "Put" \/ op.op_type # "Put"
  OBVIOUS
<1> QED BY <1>2, <1>3, <1>4 DEF AfterFailedApply, PartlyLost

LEMMA PartlyLostType ==
  ASSUME tree \in Contents, NEW op \in Operation, NEW t \in PartlyLost(op)
  PROVE  t \in Contents
<1>1. Applied(op) \in Contents
  BY AppliedType
<1> QED BY <1>1 DEF PartlyLost, Contents

(* What a transaction shows of its own writes is a value.                  *)
LEMMA UncommittedType ==
  ASSUME NEW txn \in Transaction, NEW k \in Keys
  PROVE  get_uncommitted(txn, k) \in Value \cup {Untouched}
<1> DEFINE ops  == txn.operations
           hits == {i \in DOMAIN ops : ops[i].key = k}
<1>1. ops \in Seq(Operation)
  BY TransactionFields
<1>2. Len(ops) \in Nat /\ DOMAIN ops = 1 .. Len(ops)
  BY <1>1, LenProperties
<1>3. hits \in SUBSET (1 .. Len(ops))
  BY <1>2
<1>4. CASE hits = {}
  BY <1>4 DEF get_uncommitted
<1>5. CASE hits # {}
  <2>1. LastOf(hits) \in 1 .. Len(ops)
    <3> HIDE DEF hits, ops
    <3> QED BY <1>2, <1>3, <1>5, LastOfSpec
  <2>2. ops[LastOf(hits)] \in Operation
    <3> HIDE DEF hits, ops
    <3> QED BY <1>1, <2>1, ElementOfSeq
  <2>3. ops[LastOf(hits)].value \in Value
    BY <2>2, OpFields
  <2> QED BY <1>5, <2>3 DEF get_uncommitted
<1> QED BY <1>4, <1>5

LEMMA OverlayType ==
  ASSUME NEW txn \in Transaction, NEW contents \in Contents
  PROVE  Overlay(txn, contents) \in Contents
<1>1. \A k \in Keys : get_uncommitted(txn, k) \in Value \cup {Untouched}
  BY UncommittedType
<1> QED BY <1>1 DEF Overlay, Contents, Value
---------------------------------------------------------------------------
(* Recovery.                                                               *)

LEMMA WritesOfType ==
  ASSUME NEW recs \in Seq(WALRecord), NEW t, NEW k
  PROVE  /\ Len(recs) \in Nat
         /\ DOMAIN recs = 1 .. Len(recs)
         /\ WritesOf(recs, t, k) \in SUBSET (1 .. Len(recs))
BY LenProperties DEF WritesOf

LEMMA RecordValue ==
  ASSUME NEW recs \in Seq(WALRecord), NEW i \in 1 .. Len(recs)
  PROVE  recs[i].value \in Value
<1>1. recs[i] \in WALRecord
  BY ElementOfSeq
<1> QED BY <1>1 DEF WALRecord, Value

(* Of the committed groups that write a key there is one whose turn comes  *)
(* last.                                                                   *)
LEMMA LastTurn ==
  ASSUME NEW recs \in Seq(WALRecord), NEW order \in ReplayOrders(recs), NEW k \in Keys,
         Writers(recs, k) # {}
  PROVE  \E w \in Writers(recs, k) : \A u \in Writers(recs, k) : order[u] <= order[w]
<1> DEFINE W == Writers(recs, k)
           turns == {order[u] : u \in W}
<1>1. Len(recs) \in Nat /\ DOMAIN recs = 1 .. Len(recs)
  BY LenProperties
<1>2. \A u \in W : order[u] \in 1 .. Len(recs)
  BY <1>1 DEF ReplayOrders, Writers
<1>3. turns \in SUBSET (0 .. Len(recs)) /\ turns # {}
  BY <1>1, <1>2
<1>4. PICK m \in turns : \A j \in turns : j <= m
  <2> HIDE DEF turns
  <2> QED BY <1>1, <1>3, GreatestElement
<1> QED BY <1>4

(* Whatever the order, the tree recovery builds maps keys to values.       *)
LEMMA RecoveredType ==
  ASSUME NEW recs \in Seq(WALRecord), NEW contents \in Contents,
         NEW t \in RecoveredTrees(recs, contents)
  PROVE  t \in Contents
<1>1. PICK order \in ReplayOrders(recs) : t = Replayed(recs, order, contents)
  BY DEF RecoveredTrees
<1> DEFINE W(k) == Writers(recs, k)
           winner(k) == CHOOSE w \in W(k) : \A u \in W(k) : order[u] <= order[w]
           value(k) == recs[LastOf(WritesOf(recs, winner(k), k))].value
<1>2. ASSUME NEW k \in Keys, W(k) # {} PROVE value(k) \in Value
  <2>1. winner(k) \in W(k)
    BY <1>2, LastTurn
  <2> HIDE DEF winner
  <2>2. WritesOf(recs, winner(k), k) # {}
    BY <2>1 DEF Writers
  <2>3. LastOf(WritesOf(recs, winner(k), k)) \in 1 .. Len(recs)
    BY <2>2, WritesOfType, LastOfSpec
  <2> QED BY <2>3, RecordValue
<1>3. t = [k \in Keys |-> IF W(k) = {} THEN contents[k] ELSE value(k)]
  BY <1>1 DEF Replayed
<1> HIDE DEF W, value
<1> QED BY <1>2, <1>3 DEF Contents, Value

(* If no key is written by two committed groups, the order in which the    *)
(* HashMap yields the groups makes no difference: every replay gives what  *)
(* a replay in log order gives.                                            *)
THEOREM OrderIrrelevant ==
  ASSUME NEW recs \in Seq(WALRecord), NEW contents, ConflictFree(recs),
         NEW order \in ReplayOrders(recs)
  PROVE  Replayed(recs, order, contents) = InLogOrder(recs, contents)
<1> DEFINE W(k) == Writers(recs, k)
           winner(k) == CHOOSE w \in W(k) : \A u \in W(k) : order[u] <= order[w]
           all(k) == UNION {WritesOf(recs, t, k) : t \in W(k)}
<1>1. ASSUME NEW k \in Keys, W(k) # {}
      PROVE  all(k) = WritesOf(recs, winner(k), k) /\ all(k) # {}
  <2>1. winner(k) \in W(k)
    BY <1>1, LastTurn
  <2> HIDE DEF winner
  <2>2. W(k) = {winner(k)}
    BY <2>1 DEF ConflictFree
  <2>3. WritesOf(recs, winner(k), k) # {}
    BY <2>1 DEF Writers
  <2> QED BY <2>2, <2>3
<1>2. ASSUME NEW k \in Keys, W(k) = {} PROVE all(k) = {}
  BY <1>2
<1>3. Replayed(recs, order, contents) =
        [k \in Keys |-> IF W(k) = {} THEN contents[k]
                                     ELSE recs[LastOf(WritesOf(recs, winner(k), k))].value]
  BY DEF Replayed
<1>4. InLogOrder(recs, contents) =
        [k \in Keys |-> IF all(k) = {} THEN contents[k] ELSE recs[LastOf(all(k))].value]
  BY DEF InLogOrder
<1> HIDE DEF W, winner, all
<1> QED BY <1>1, <1>2, <1>3, <1>4
---------------------------------------------------------------------------
(* Replay in log order, record by record.                                  *)

\* The positions of the writes of key k in committed groups.
CommittedWrites(recs, k) == UNION {WritesOf(recs, t, k) : t \in Writers(recs, k)}

LEMMA InLogOrderAt ==
  ASSUME NEW recs, NEW contents
  PROVE  InLogOrder(recs, contents) =
           [k \in Keys |-> IF CommittedWrites(recs, k) = {}
                             THEN contents[k]
                             ELSE recs[LastOf(CommittedWrites(recs, k))].value]
BY DEF InLogOrder, CommittedWrites

(* A position counts when its record is a write of the key and its group   *)
(* is committed.                                                           *)
LEMMA CommittedWritesSpec ==
  ASSUME NEW recs \in Seq(WALRecord), NEW k
  PROVE  /\ Len(recs) \in Nat
         /\ CommittedWrites(recs, k) \in SUBSET (1 .. Len(recs))
         /\ \A i \in 1 .. Len(recs) :
              i \in CommittedWrites(recs, k) <=> /\ recs[i].txn_id \in committed_txns(recs)
                                                 /\ recs[i].op_type \in {"Put", "Delete"}
                                                 /\ recs[i].key = k
         /\ CommittedWrites(recs, k) = {} <=> Writers(recs, k) = {}
<1>1. Len(recs) \in Nat /\ DOMAIN recs = 1 .. Len(recs)
  BY LenProperties
<1> QED BY <1>1 DEF CommittedWrites, Writers, WritesOf

LEMMA CommittedTxnsSpec ==
  ASSUME NEW recs \in Seq(WALRecord), NEW t
  PROVE  t \in committed_txns(recs) <=>
           \E i \in 1 .. Len(recs) : recs[i].txn_id = t /\ recs[i].op_type = "Commit"
<1>1. DOMAIN recs = 1 .. Len(recs)
  BY LenProperties
<1> QED BY <1>1 DEF committed_txns, TxnIds

LEMMA InLogOrderType ==
  ASSUME NEW recs \in Seq(WALRecord), NEW contents \in Contents
  PROVE  InLogOrder(recs, contents) \in Contents
<1>1. ASSUME NEW k \in Keys, CommittedWrites(recs, k) # {}
      PROVE  recs[LastOf(CommittedWrites(recs, k))].value \in Value
  <2>1. LastOf(CommittedWrites(recs, k)) \in 1 .. Len(recs)
    BY <1>1, CommittedWritesSpec, LastOfSpec
  <2> QED BY <2>1, RecordValue
<1> QED BY <1>1, InLogOrderAt DEF Contents, Value

(* Writing a key's replayed value to disk early changes nothing for a      *)
(* later replay.                                                           *)
LEMMA LogOrderKeeps ==
  ASSUME NEW recs \in Seq(WALRecord), NEW c \in Contents, NEW t \in Contents,
         \A k \in Keys : t[k] \in {c[k], InLogOrder(recs, c)[k]}
  PROVE  InLogOrder(recs, t) = InLogOrder(recs, c)
<1>1. \A k \in Keys : CommittedWrites(recs, k) = {} => t[k] = c[k]
  BY InLogOrderAt
<1> QED BY <1>1, InLogOrderAt

(* A record that commits nothing, of a group that is not committed, does   *)
(* not change what a replay gives.                                         *)
LEMMA LogOrderUncommitted ==
  ASSUME NEW recs \in Seq(WALRecord), NEW contents, NEW r \in WALRecord,
         r.op_type # "Commit", r.txn_id \notin committed_txns(recs)
  PROVE  InLogOrder(Append(recs, r), contents) = InLogOrder(recs, contents)
<1> DEFINE g == Append(recs, r)
           n == Len(recs)
<1>1. /\ g \in Seq(WALRecord) /\ Len(g) = n + 1 /\ n \in Nat
      /\ \A i \in 1 .. n : g[i] = recs[i]
      /\ g[n + 1] = r
  BY AppendProperties, LenProperties
<1> HIDE DEF g
<1>2. \A t : t \in committed_txns(g) <=> t \in committed_txns(recs)
  <2> SUFFICES ASSUME NEW t PROVE t \in committed_txns(g) <=> t \in committed_txns(recs)
    OBVIOUS
  <2>1. ASSUME t \in committed_txns(g) PROVE t \in committed_txns(recs)
    <3>1. PICK i \in 1 .. Len(g) : g[i].txn_id = t /\ g[i].op_type = "Commit"
      BY <1>1, <2>1, CommittedTxnsSpec
    <3>2. i \in 1 .. n /\ g[i] = recs[i]
      BY <1>1, <3>1
    <3> QED BY <3>1, <3>2, CommittedTxnsSpec
  <2>2. ASSUME t \in committed_txns(recs) PROVE t \in committed_txns(g)
    <3>1. PICK i \in 1 .. Len(recs) : recs[i].txn_id = t /\ recs[i].op_type = "Commit"
      BY <2>2, CommittedTxnsSpec
    <3>2. i \in 1 .. Len(g) /\ g[i] = recs[i]
      BY <1>1, <3>1
    <3> QED BY <1>1, <3>1, <3>2, CommittedTxnsSpec
  <2> QED BY <2>1, <2>2
<1>3. ASSUME NEW k \in Keys
      PROVE  /\ CommittedWrites(g, k) = CommittedWrites(recs, k)
             /\ CommittedWrites(g, k) # {} =>
                  g[LastOf(CommittedWrites(g, k))] = recs[LastOf(CommittedWrites(recs, k))]
  <2>1. \A i \in 1 .. n : i \in CommittedWrites(g, k) <=> i \in CommittedWrites(recs, k)
    <3>1. \A i \in 1 .. n : i \in 1 .. Len(g)
      BY <1>1
    <3> QED BY <1>1, <1>2, <3>1, CommittedWritesSpec
  <2>2. n + 1 \notin CommittedWrites(g, k)
    <3>1. n + 1 \in 1 .. Len(g)
      BY <1>1
    <3> QED BY <1>1, <1>2, <3>1, CommittedWritesSpec
  <2>3. CommittedWrites(g, k) \subseteq 1 .. n + 1 /\ CommittedWrites(recs, k) \subseteq 1 .. n
    BY <1>1, CommittedWritesSpec
  <2>4. CommittedWrites(g, k) = CommittedWrites(recs, k)
    <3>1. \A i \in 1 .. n + 1 : i \in 1 .. n \/ i = n + 1
      BY <1>1
    <3> HIDE DEF n
    <3>2. CommittedWrites(g, k) \subseteq CommittedWrites(recs, k)
      BY <2>1, <2>2, <2>3, <3>1
    <3>3. CommittedWrites(recs, k) \subseteq CommittedWrites(g, k)
      BY <2>1, <2>3
    <3> QED BY <3>2, <3>3
  <2>5. CommittedWrites(recs, k) # {} => LastOf(CommittedWrites(recs, k)) \in 1 .. n
    BY <1>1, <2>3, LastOfSpec
  <2> QED BY <1>1, <2>4, <2>5
<1>4. InLogOrder(g, contents) = InLogOrder(recs, contents)
  <2>1. \A k \in Keys : CommittedWrites(g, k) # {} =>
           g[LastOf(CommittedWrites(g, k))].value = recs[LastOf(CommittedWrites(recs, k))].value
    BY <1>3
  <2>2. \A k \in Keys : CommittedWrites(g, k) = {} <=> CommittedWrites(recs, k) = {}
    BY <1>3
  <2> QED BY <2>1, <2>2, InLogOrderAt
<1> QED BY <1>4 DEF g
---------------------------------------------------------------------------
(* The group a transaction, or a write on its own, has in the log so far.  *)

\* The last m records are the first m operations, and no other has the id.
EndsWith(recs, id, ops, m) ==
  LET n == Len(recs) - m
  IN  /\ m <= Len(recs)
      /\ \A i \in 1 .. n : recs[i].txn_id # id
      /\ \A j \in 1 .. m : recs[n + j] = WithLsn(ops[j], recs[n + j].lsn)

\* All operations are writes under one id.
Writes(id, ops) ==
  \A j \in 1 .. Len(ops) : /\ ops[j].txn_id = id
                           /\ ops[j].op_type \in {"Put", "Delete"}
                           /\ ops[j].key \in Keys

\* The value the operations give key k last.
LastWrite(ops, k) ==
  LET hits == {i \in DOMAIN ops : ops[i].key = k}
  IN  IF hits = {} THEN Untouched ELSE ops[LastOf(hits)].value

(* An open group holds no Commit record.                                   *)
LEMMA OpenGroupUncommitted ==
  ASSUME NEW recs \in Seq(WALRecord), NEW id, NEW ops \in Seq(Operation),
         NEW m \in 0 .. Len(ops), EndsWith(recs, id, ops, m), Writes(id, ops)
  PROVE  id \notin committed_txns(recs)
<1> DEFINE n == Len(recs) - m
<1>1. Len(recs) \in Nat /\ Len(ops) \in Nat /\ n \in Nat
  BY LenProperties DEF EndsWith
<1>2. SUFFICES ASSUME NEW i \in 1 .. Len(recs), recs[i].txn_id = id, recs[i].op_type = "Commit"
               PROVE  FALSE
  BY CommittedTxnsSpec
<1>3. CASE i \in 1 .. n
  BY <1>2, <1>3 DEF EndsWith
<1>4. CASE i \notin 1 .. n
  <2>1. i - n \in 1 .. m /\ n + (i - n) = i /\ i - n \in 1 .. Len(ops)
    BY <1>1, <1>4
  <2>2. recs[i] = WithLsn(ops[i - n], recs[i].lsn)
    <3> HIDE DEF n
    <3> QED BY <2>1 DEF EndsWith, n
  <2>3. recs[i].op_type = ops[i - n].op_type
    BY <2>2 DEF WithLsn
  <2> QED BY <1>2, <2>1, <2>3 DEF Writes
<1> QED BY <1>3, <1>4

(* No record has the id yet.                                               *)
LEMMA FreshGroup ==
  ASSUME NEW recs \in Seq(WALRecord), NEW id, NEW ops, id \notin TxnIds(recs)
  PROVE  EndsWith(recs, id, ops, 0)
<1>1. Len(recs) \in Nat /\ DOMAIN recs = 1 .. Len(recs)
  BY LenProperties
<1> QED BY <1>1 DEF EndsWith, TxnIds

(* Logging the next operation of the list extends the group.               *)
LEMMA GroupGrows ==
  ASSUME NEW recs \in Seq(WALRecord), NEW id, NEW ops \in Seq(Operation),
         NEW m \in Nat, m + 1 <= Len(ops), EndsWith(recs, id, ops, m), NEW lsn \in Nat
  PROVE  EndsWith(Append(recs, WithLsn(ops[m + 1], lsn)), id, ops, m + 1)
<1> DEFINE r == WithLsn(ops[m + 1], lsn)
           g == Append(recs, r)
           n == Len(recs) - m
<1>1. Len(recs) \in Nat /\ Len(ops) \in Nat /\ n \in Nat
  BY LenProperties DEF EndsWith
<1>2. ops[m + 1] \in Operation
  <2>1. m + 1 \in 1 .. Len(ops)
    BY <1>1
  <2> QED BY <2>1, ElementOfSeq
<1>3. r \in WALRecord /\ r.lsn = lsn
  BY <1>2, WithLsnType
<1> HIDE DEF r
<1>4. /\ Len(g) = Len(recs) + 1
      /\ \A i \in 1 .. Len(recs) : g[i] = recs[i]
      /\ g[Len(recs) + 1] = r
  BY <1>3, AppendProperties
<1> HIDE DEF g
<1>5. Len(g) - (m + 1) = n /\ m + 1 <= Len(g)
  BY <1>1, <1>4 DEF EndsWith
<1>6. \A i \in 1 .. n : g[i].txn_id # id
  <2>1. \A i \in 1 .. n : i \in 1 .. Len(recs)
    BY <1>1
  <2> QED BY <1>4, <2>1 DEF EndsWith
<1>7. ASSUME NEW j \in 1 .. m + 1 PROVE g[n + j] = WithLsn(ops[j], g[n + j].lsn)
  <2>1. CASE j = m + 1
    <3>1. n + j = Len(recs) + 1
      BY <1>1, <2>1
    <3> QED BY <1>3, <1>4, <2>1, <3>1 DEF r
  <2>2. CASE j # m + 1
    <3>1. j \in 1 .. m /\ n + j \in 1 .. Len(recs)
      BY <1>1, <2>2
    <3>2. recs[n + j] = WithLsn(ops[j], recs[n + j].lsn)
      <4> HIDE DEF n
      <4> QED BY <3>1 DEF EndsWith, n
    <3> QED BY <1>4, <3>1, <3>2
  <2> QED BY <2>1, <2>2
<1>8. EndsWith(g, id, ops, m + 1)
  <2> HIDE DEF n
  <2> QED BY <1>5, <1>6, <1>7 DEF EndsWith
<1> QED BY <1>8 DEF g, r

(* Taking one more operation into the list leaves the group as it is.      *)
LEMMA GroupRecorded ==
  ASSUME NEW recs \in Seq(WALRecord), NEW id, NEW ops \in Seq(Operation), NEW op \in Operation,
         NEW m \in 0 .. Len(ops), EndsWith(recs, id, ops, m)
  PROVE  EndsWith(recs, id, Append(ops, op), m)
<1>1. \A j \in 1 .. m : j \in 1 .. Len(ops)
  BY LenProperties
<1>2. \A j \in 1 .. m : Append(ops, op)[j] = ops[j]
  BY <1>1, AppendProperties
<1> QED BY <1>2 DEF EndsWith

LEMMA WritesRecorded ==
  ASSUME NEW id, NEW ops \in Seq(Operation), NEW op \in Operation, Writes(id, ops),
         op.txn_id = id, op.op_type \in {"Put", "Delete"}, op.key \in Keys
  PROVE  Writes(id, Append(ops, op))
<1>1. Len(ops) \in Nat
  BY LenProperties
<1>2. /\ Len(Append(ops, op)) = Len(ops) + 1
      /\ \A i \in 1 .. Len(ops) : Append(ops, op)[i] = ops[i]
      /\ Append(ops, op)[Len(ops) + 1] = op
  BY AppendProperties
<1>3. \A i \in 1 .. Len(ops) + 1 : i \in 1 .. Len(ops) \/ i = Len(ops) + 1
  BY <1>1
<1> QED BY <1>2, <1>3 DEF Writes

LEMMA LastWriteType ==
  ASSUME NEW ops \in Seq(Operation), NEW k
  PROVE  LET hits == {i \in DOMAIN ops : ops[i].key = k}
         IN  /\ hits \in SUBSET (1 .. Len(ops))
             /\ hits # {} => /\ LastOf(hits) \in hits /\ \A j \in hits : j <= LastOf(hits)
                             /\ ops[LastOf(hits)].value \in Value
                             /\ LastWrite(ops, k) = ops[LastOf(hits)].value
                             /\ LastWrite(ops, k) # Untouched
             /\ hits = {} => LastWrite(ops, k) = Untouched
<1> DEFINE hits == {i \in DOMAIN ops : ops[i].key = k}
<1>1. Len(ops) \in Nat /\ DOMAIN ops = 1 .. Len(ops)
  BY LenProperties
<1>2. hits \in SUBSET (1 .. Len(ops))
  BY <1>1
<1>3. LastWrite(ops, k) = IF hits = {} THEN Untouched ELSE ops[LastOf(hits)].value
  BY DEF LastWrite
<1> HIDE DEF hits
<1>4. ASSUME hits # {}
      PROVE  /\ LastOf(hits) \in hits /\ \A j \in hits : j <= LastOf(hits)
             /\ ops[LastOf(hits)].value \in Value
  <2>1. LastOf(hits) \in hits /\ \A j \in hits : j <= LastOf(hits)
    BY <1>1, <1>2, <1>4, LastOfSpec
  <2>2. ops[LastOf(hits)] \in Operation
    BY <1>2, <2>1, ElementOfSeq
  <2> QED BY <2>1, <2>2, OpFields
<1>5. Untouched \notin Value
  BY TxnAssumption DEF Value
<1> QED BY <1>2, <1>3, <1>4, <1>5 DEF hits

(* The last write after one more operation.                                *)
LEMMA LastWriteAppend ==
  ASSUME NEW ops \in Seq(Operation), NEW op \in Operation, NEW k
  PROVE  LastWrite(Append(ops, op), k) = IF op.key = k THEN op.value ELSE LastWrite(ops, k)
<1> DEFINE g == Append(ops, op)
           n == Len(ops)
           hits == {i \in DOMAIN ops : ops[i].key = k}
           more == {i \in DOMAIN g : g[i].key = k}
<1>1. /\ g \in Seq(Operation) /\ Len(g) = n + 1 /\ n \in Nat
      /\ \A i \in 1 .. n : g[i] = ops[i]
      /\ g[n + 1] = op
      /\ DOMAIN ops = 1 .. n /\ DOMAIN g = 1 .. n + 1
  <2>1. /\ g \in Seq(Operation) /\ Len(g) = n + 1 /\ n \in Nat
        /\ \A i \in 1 .. n : g[i] = ops[i]
        /\ g[n + 1] = op
    BY AppendProperties, LenProperties
  <2> QED BY <2>1, LenProperties
<1>2. LastWrite(g, k) = IF more = {} THEN Untouched ELSE g[LastOf(more)].value
  BY DEF LastWrite
<1>3. LastWrite(ops, k) = IF hits = {} THEN Untouched ELSE ops[LastOf(hits)].value
  BY DEF LastWrite
<1>4. hits \in SUBSET (1 .. n) /\ more \in SUBSET (1 .. n + 1)
  BY <1>1
<1>5. CASE op.key = k
  <2>1. n + 1 \in more /\ \A j \in more : j <= n + 1
    BY <1>1, <1>5
  <2>2. LastOf(more) = n + 1
    <3> HIDE DEF more, g
    <3>1. n + 1 \in Nat
      BY <1>1
    <3> QED BY <1>4, <2>1, <3>1, LastOfUnique
  <2> HIDE DEF more, g
  <2>3. LastWrite(g, k) = op.value
    BY <1>1, <1>2, <2>1, <2>2
  <2> QED BY <1>5, <2>3 DEF g
<1>6. CASE op.key # k
  <2>1. more = hits
    BY <1>1, <1>6
  <2>2. hits # {} => LastOf(hits) \in 1 .. n
    <3> HIDE DEF hits
    <3> QED BY <1>1, <1>4, LastOfSpec
  <2> HIDE DEF more, g, hits
  <2>3. LastWrite(g, k) = LastWrite(ops, k)
    BY <1>1, <1>2, <1>3, <2>1, <2>2
  <2> QED BY <1>6, <2>3 DEF g
<1> QED BY <1>5, <1>6

(* Recording a write makes it what the transaction shows of its key, and   *)
(* changes nothing it shows of the others.                                 *)
LEMMA UncommittedRecorded ==
  ASSUME NEW txn \in Transaction, NEW op \in Operation, op.key \in Keys, NEW old \in Value, NEW k
  PROVE  get_uncommitted(Recorded(txn, op, old), k)
           = IF op.key = k THEN op.value ELSE get_uncommitted(txn, k)
<1>1. /\ Recorded(txn, op, old).operations = Append(txn.operations, op)
      /\ txn.operations \in Seq(Operation)
  BY RecordedSpec, TransactionFields
<1>2. get_uncommitted(txn, k) = LastWrite(txn.operations, k)
  BY DEF get_uncommitted, LastWrite
<1>3. get_uncommitted(Recorded(txn, op, old), k) = LastWrite(Append(txn.operations, op), k)
  BY <1>1 DEF get_uncommitted, LastWrite
<1>4. LastWrite(Append(txn.operations, op), k)
        = IF op.key = k THEN op.value ELSE LastWrite(txn.operations, k)
  BY <1>1, LastWriteAppend
<1> QED BY <1>2, <1>3, <1>4

LEMMA OverlayRecorded ==
  ASSUME NEW txn \in Transaction, NEW op \in Operation, op.key \in Keys, NEW old \in Value,
         NEW contents \in Contents
  PROVE  Overlay(Recorded(txn, op, old), contents)
           = [Overlay(txn, contents) EXCEPT ![op.key] = op.value]
<1>1. \A k : get_uncommitted(Recorded(txn, op, old), k)
               = IF op.key = k THEN op.value ELSE get_uncommitted(txn, k)
  BY UncommittedRecorded
<1>2. op.value # Untouched
  <2>1. op.value \in Value
    BY OpFields
  <2> QED BY <2>1, TxnAssumption DEF Value
<1> QED BY <1>1, <1>2 DEF Overlay

LEMMA NewUncommitted ==
  ASSUME NEW id, NEW k
  PROVE  get_uncommitted(NewTransaction(id), k) = Untouched
<1>1. DOMAIN <<>> = {}
  OBVIOUS
<1> QED BY <1>1 DEF get_uncommitted, NewTransaction

LEMMA OverlayNew ==
  ASSUME NEW id, NEW contents \in Contents
  PROVE  Overlay(NewTransaction(id), contents) = contents
BY NewUncommitted DEF Overlay, Contents

(* A Commit record makes the whole group count, and nothing else: replay   *)
(* then gives the group's last write of each key it wrote.                 *)
LEMMA LogOrderCommit ==
  ASSUME NEW recs \in Seq(WALRecord), NEW contents, NEW id, NEW ops \in Seq(Operation),
         EndsWith(recs, id, ops, Len(ops)), Writes(id, ops),
         NEW r \in WALRecord, r.op_type = "Commit", r.txn_id = id
  PROVE  InLogOrder(Append(recs, r), contents) =
           [k \in Keys |-> IF LastWrite(ops, k) = Untouched THEN InLogOrder(recs, contents)[k]
                                                            ELSE LastWrite(ops, k)]
<1> DEFINE g == Append(recs, r)
           m == Len(ops)
           n == Len(recs) - m
           hits(k) == {i \in DOMAIN ops : ops[i].key = k}
<1>1. /\ g \in Seq(WALRecord) /\ Len(g) = Len(recs) + 1
      /\ Len(recs) \in Nat /\ m \in Nat /\ n \in Nat /\ n + m = Len(recs)
      /\ \A i \in 1 .. Len(recs) : g[i] = recs[i]
      /\ g[Len(recs) + 1] = r
  <2>1. /\ g \in Seq(WALRecord) /\ Len(g) = Len(recs) + 1
        /\ \A i \in 1 .. Len(recs) : g[i] = recs[i]
        /\ g[Len(recs) + 1] = r
    BY AppendProperties
  <2>2. Len(recs) \in Nat /\ m \in Nat
    BY LenProperties
  <2>3. n \in Nat /\ n + m = Len(recs)
    BY <2>2 DEF EndsWith
  <2> QED BY <2>1, <2>2, <2>3
<1> HIDE DEF g
<1>2. \A t : t \in committed_txns(g) <=> t \in committed_txns(recs) \/ t = id
  <2>1. \A i : i \in 1 .. Len(g) <=> i \in 1 .. Len(recs) \/ i = Len(recs) + 1
    BY <1>1
  <2> QED BY <1>1, <2>1, CommittedTxnsSpec
<1>3. \A i \in 1 .. n : i \in 1 .. Len(recs) /\ recs[i].txn_id # id
  BY <1>1 DEF EndsWith
<1>4. ASSUME NEW j \in 1 .. m
      PROVE  /\ n + j \in 1 .. Len(recs)
             /\ g[n + j].txn_id = id /\ g[n + j].op_type \in {"Put", "Delete"}
             /\ g[n + j].key = ops[j].key /\ g[n + j].value = ops[j].value
  <2>1. n + j \in 1 .. Len(recs)
    BY <1>1
  <2>2. recs[n + j] = WithLsn(ops[j], recs[n + j].lsn)
    <3> HIDE DEF n
    <3> QED BY DEF EndsWith, n
  <2>3. g[n + j] = WithLsn(ops[j], recs[n + j].lsn)
    BY <1>1, <2>1, <2>2
  <2>4. /\ ops[j].txn_id = id /\ ops[j].op_type \in {"Put", "Delete"}
    BY DEF Writes
  <2> QED BY <2>1, <2>3, <2>4 DEF WithLsn
<1>5. ASSUME NEW i \in 1 .. Len(recs)
      PROVE  i \in 1 .. n \/ \E j \in 1 .. m : i = n + j
  <2>1. CASE i <= n
    BY <1>1, <2>1
  <2>2. CASE ~ (i <= n)
    <3>1. i - n \in 1 .. m /\ i = n + (i - n)
      BY <1>1, <2>2
    <3> QED BY <3>1
  <2> QED BY <2>1, <2>2
<1>6. ASSUME NEW k \in Keys
      PROVE  (IF CommittedWrites(g, k) = {} THEN contents[k]
                                            ELSE g[LastOf(CommittedWrites(g, k))].value)
              = IF LastWrite(ops, k) = Untouched THEN InLogOrder(recs, contents)[k]
                                                 ELSE LastWrite(ops, k)
  <2> DEFINE C == CommittedWrites(g, k)
             D == CommittedWrites(recs, k)
             H == hits(k)
  <2>1. /\ C \in SUBSET (1 .. Len(g)) /\ D \in SUBSET (1 .. Len(recs))
        /\ H \in SUBSET (1 .. m)
    BY <1>1, CommittedWritesSpec, LastWriteType
  <2>2. Len(recs) + 1 \notin C
    <3>1. Len(recs) + 1 \in 1 .. Len(g)
      BY <1>1
    <3>2. ~ (g[Len(recs) + 1].op_type \in {"Put", "Delete"})
      BY <1>1
    <3> QED BY <1>1, <3>1, <3>2, CommittedWritesSpec
  <2>3. C \in SUBSET (1 .. Len(recs))
    BY <1>1, <2>1, <2>2
  <2>4. \A i \in 1 .. n : i \in C <=> i \in D
    <3>1. \A i \in 1 .. n : i \in 1 .. Len(g)
      BY <1>1
    <3> QED BY <1>1, <1>2, <1>3, <3>1, CommittedWritesSpec
  <2>5. \A j \in 1 .. m : n + j \in C <=> j \in H
    <3> SUFFICES ASSUME NEW j \in 1 .. m PROVE n + j \in C <=> j \in H
      OBVIOUS
    <3>1. n + j \in 1 .. Len(g) /\ g[n + j].txn_id \in committed_txns(g)
      BY <1>1, <1>2, <1>4
    <3>2. j \in H <=> ops[j].key = k
      BY LenProperties
    <3>3. n + j \in C <=> g[n + j].key = k
      <4> DEFINE i == n + j
      <4>1. /\ i \in 1 .. Len(g) /\ g[i].txn_id \in committed_txns(g)
            /\ g[i].op_type \in {"Put", "Delete"}
        BY <1>4, <3>1
      <4> HIDE DEF i
      <4>2. i \in C <=> g[i].key = k
        BY <1>1, <4>1, CommittedWritesSpec
      <4> QED BY <4>2 DEF i
    <3> QED BY <1>4, <3>2, <3>3
  <2>6. CASE H = {}
    <3>1. \A j \in 1 .. m : n + j \notin D
      <4>1. \A j \in 1 .. m : g[n + j].key # k /\ recs[n + j].key # k /\ n + j \in 1 .. Len(recs)
        <5> SUFFICES ASSUME NEW j \in 1 .. m
                     PROVE  g[n + j].key # k /\ recs[n + j].key # k /\ n + j \in 1 .. Len(recs)
          OBVIOUS
        <5>1. ops[j].key # k
          BY <2>6, LenProperties
        <5>2. n + j \in 1 .. Len(recs) /\ g[n + j].key = ops[j].key
          BY <1>4
        <5>3. g[n + j] = recs[n + j]
          <6> HIDE DEF n
          <6> QED BY <1>1, <5>2
        <5> QED BY <5>1, <5>2, <5>3
      <4> HIDE DEF n, m
      <4> QED BY <4>1, CommittedWritesSpec
    <3>2. C = D
      <4>1. \A i \in 1 .. Len(recs) : i \in C <=> i \in D
        <5> HIDE DEF C, D, H, n, m
        <5> QED BY <1>5, <2>4, <2>5, <2>6, <3>1
      <4> QED BY <2>1, <2>3, <4>1
    <3>3. LastWrite(ops, k) = Untouched
      BY <2>6, LastWriteType
    <3>4. D # {} => g[LastOf(D)] = recs[LastOf(D)]
      <4>1. D # {} => LastOf(D) \in 1 .. Len(recs)
        <5> HIDE DEF D
        <5> QED BY <1>1, <2>1, LastOfSpec
      <4> QED BY <1>1, <4>1
    <3> QED BY <3>2, <3>3, <3>4, InLogOrderAt
  <2>7. CASE H # {}
    <3>1. /\ LastOf(H) \in H /\ (\A j \in H : j <= LastOf(H)) /\ LastOf(H) \in 1 .. m
          /\ LastWrite(ops, k) = ops[LastOf(H)].value /\ LastWrite(ops, k) # Untouched
      BY <2>1, <2>7, LastWriteType
    <3> DEFINE last == LastOf(H)
    <3>2. n + last \in C
      BY <2>5, <3>1
    <3>3. \A i \in C : i <= n + last
      <4> HIDE DEF C, H, last, n, m
      <4>1. \A i \in 1 .. n : i <= n + last
        BY <1>1, <3>1 DEF last
      <4>2. ASSUME NEW j \in 1 .. m, n + j \in C PROVE n + j <= n + last
        <5>1. j <= last /\ last \in 1 .. m
          BY <2>5, <3>1, <4>2 DEF last
        <5> QED BY <1>1, <5>1
      <4> QED BY <1>5, <2>3, <4>1, <4>2
    <3>4. LastOf(C) = n + last
      <4> HIDE DEF C, H, last, n
      <4> QED BY <1>1, <2>3, <3>2, <3>3, LastOfUnique
    <3> QED BY <1>4, <3>1, <3>2, <3>4
  <2> QED BY <2>6, <2>7
<1>7. InLogOrder(g, contents) =
        [k \in Keys |-> IF LastWrite(ops, k) = Untouched THEN InLogOrder(recs, contents)[k]
                                                         ELSE LastWrite(ops, k)]
  <2>1. InLogOrder(g, contents) =
          [k \in Keys |-> IF CommittedWrites(g, k) = {} THEN contents[k]
                            ELSE g[LastOf(CommittedWrites(g, k))].value]
    BY InLogOrderAt
  <2> QED BY <1>6, <2>1, Zenon
<1> QED BY <1>7 DEF g
---------------------------------------------------------------------------
(* The types of the engine.                                                *)

(* Which calls can be under way while a transaction is open, and what they *)
(* have recorded by then: a write inside one has its key in the snapshot   *)
(* before it is logged, and rollback only has recorded keys to put back.   *)
CallState ==
  /\ pc \in AutoPcs \cup {"down", "commit_log", "commit_flush", "rollback_restore",
                          "rollback_flush", "recover_flush"} => current_txn = NoTxn
  /\ pc \in {"txn_log", "txn_apply"} => in_transaction /\ rec.key \in Touched(current_txn)
  /\ pc = "rollback_restore" => undo \subseteq Touched(taken)

Inv == TypeOK /\ CallState /\ SnapshotSufficient

USE DEF Value

(* The parts of the type invariant the steps below use one at a time.      *)
LEMMA Types ==
  ASSUME TypeOK
  PROVE  /\ wal_file \in Seq(Chunk) /\ current_lsn \in Nat \ {0}
         /\ tree \in Contents /\ disk \in Contents
         /\ base \in Contents /\ committed \in Contents
         /\ current_txn \in Transaction \cup {NoTxn}
         /\ taken \in Transaction \cup {NoTxn}
         /\ next_txn_id \in Nat \ {0}
         /\ pc \in Pcs
         /\ rec \in Operation
         /\ undo \subseteq Keys
         /\ opens \in Nat /\ crashes \in Nat /\ io_errors \in Nat
         /\ taints \subseteq Taints
         /\ in_doubt \in BOOLEAN
         /\ pc \in AutoPcs \cup {"txn_log", "txn_apply"} =>
              rec.key \in Keys /\ rec.op_type \in {"Put", "Delete"}
         /\ pc \in {"commit_log", "rollback_restore"} => taken \in Transaction
BY DEF TypeOK, WALTypeOK, TxnTypeOK, Chunk

LEMMA MarkerType ==
  ASSUME NEW id \in Nat
  PROVE  CommitOp(id) \in Operation /\ RollbackOp(id) \in Operation
BY OpType DEF CommitOp, RollbackOp, OpTypes, Value

LEMMA NoOpType == NoOp \in Operation
BY OpType DEF NoOp, OpTypes, Value

(* The three outcomes of an append keep the type of the log.               *)
LEMMA LogType ==
  ASSUME wal_file \in Seq(Chunk), current_lsn \in Nat \ {0}, NEW op \in Operation,
         append(op) \/ AppendFails(op) \/ CrashInAppend(op)
  PROVE  WALTypeOK'
<1>1. WithLsn(op, current_lsn) \in Chunk /\ Torn \in Chunk
  BY WithLsnType DEF Chunk
<1>2. /\ Append(wal_file, WithLsn(op, current_lsn)) \in Seq(Chunk)
      /\ Append(wal_file, Torn) \in Seq(Chunk)
  BY <1>1, ReadableLenAppend
<1>3. wal_file' \in Seq(Chunk)
  BY <1>2 DEF append, AppendFails, CrashInAppend, Unfinished
<1>4. current_lsn' \in Nat \ {0}
  BY DEF append, AppendFails, CrashInAppend
<1> QED BY <1>3, <1>4 DEF WALTypeOK, Chunk

LEMMA AppendingType == TypeOK => Appending \subseteq Operation
<1> SUFFICES ASSUME TypeOK PROVE Appending \subseteq Operation
  OBVIOUS
<1>1. rec \in Operation /\ CommitOp(rec.txn_id) \in Operation
  BY Types, OpFields, MarkerType
<1>2. pc \in {"commit_log", "rollback_restore"} =>
        CommitOp(taken.txn_id) \in Operation /\ RollbackOp(taken.txn_id) \in Operation
  BY Types, TransactionFields, MarkerType
<1> QED BY <1>1, <1>2 DEF Appending

LEMMA AfterCommitType ==
  ASSUME TypeOK, pc \in {"auto_commit", "commit_log"}
  PROVE  AfterCommit \in Contents
<1>1. CASE pc = "auto_commit"
  BY <1>1, Types, OpFields DEF AfterCommit, Contents, AutoPcs
<1>2. CASE pc = "commit_log"
  BY <1>2, Types, OverlayType DEF AfterCommit
<1> QED BY <1>1, <1>2

LEMMA IoErrorsType ==
  ASSUME TypeOK, IoError \/ UNCHANGED io_errors
  PROVE  io_errors' \in Nat
<1>1. io_errors \in Nat
  BY Types
<1> QED BY <1>1 DEF IoError

(* Whatever the files hold at a stop represents some map.                  *)
LEMMA FilesType ==
  ASSUME TypeOK, NEW causes \in SUBSET Taints, FilesAtStop(causes)
  PROVE  disk' \in Contents /\ taints' \subseteq Taints
<1>1. disk \in Contents /\ taints \subseteq Taints
  BY Types
<1>2. "torn_tree" \in Taints
  BY DEF Taints
<1>3. ASSUME NEW lost \in SUBSET Keys
      PROVE  [k \in Keys |-> IF k \in lost THEN Absent ELSE disk[k]] \in Contents
  BY <1>1 DEF Contents
<1> QED BY <1>1, <1>2, <1>3 DEF FilesAtStop

(* An open, with or without a merge or an error that recovery ignores,     *)
(* starts from one of a set of trees.                                      *)
LEMMA OpensType ==
  ASSUME TypeOK, Open \/ OpenMerges \/ \E k \in Keys : OpenKeeps(k)
  PROVE  /\ \E T, errors : OpenWith(T, errors) /\ T \subseteq Contents /\ errors \subseteq Taints
         /\ io_errors' \in Nat
<1> DEFINE recs == recover(wal_file)
<1>1. recs \in Seq(WALRecord)
  BY Types, RecoverSpec
<1>2. RecoveredTrees(recs, disk) \subseteq Contents
  BY <1>1, Types, RecoveredType
<1>3. ASSUME NEW k \in Keys PROVE KeptTrees(recs, k) \subseteq Contents
  <2> HIDE DEF recs
  <2>1. \A i \in Replays(recs, k) : recs[i].value \in Value
    BY <1>1, RecordValue, WritesOfType DEF Replays
  <2>2. disk[k] \in Value
    BY Types DEF Contents
  <2> QED BY <1>2, <2>1, <2>2 DEF KeptTrees, Contents
<1>4. \E T, errors : OpenWith(T, errors) /\ T \subseteq Contents /\ errors \subseteq Taints
  <2>1. CASE Open
    BY <1>2, <2>1 DEF Open
  <2>2. CASE \E k \in Keys : OpenKeeps(k)
    BY <1>3, <2>2 DEF OpenKeeps, Taints
  <2>3. CASE OpenMerges
    <3>1. MergedTrees(recs) \subseteq Contents
      BY DEF MergedTrees
    <3> QED BY <2>3, <3>1 DEF OpenMerges, Taints
  <2> QED BY <2>1, <2>2, <2>3
<1>5. io_errors' \in Nat
  BY IoErrorsType DEF Open, OpenKeeps, OpenMerges
<1> QED BY <1>4, <1>5

---------------------------------------------------------------------------
LEMMA TypeNext ==
  ASSUME TypeOK, CallState, Next
  PROVE  TypeOK'
<1> USE Types DEF TypeOK, WALTypeOK, TxnTypeOK, Chunk, Pcs, AutoPcs, FlushPcs, Taints, Taint,
                  walVars, txnVars, engineVars, boundVars, historyVars
<1>1. ASSUME NEW k \in Keys, NEW type \in {"Put", "Delete"}, NEW v \in Value,
             AutoStart(type, k, v)
      PROVE  TypeOK'
  <2>1. rec' \in Operation /\ rec'.key = k /\ rec'.op_type = type
    BY <1>1, OpType DEF AutoStart, Op, OpTypes
  <2> QED BY <1>1, <2>1 DEF AutoStart, IdTaint
<1>2. ASSUME NEW k \in Keys, NEW type \in {"Put", "Delete"}, NEW v \in Value,
             TxnStart(type, k, v) \/ TxnMisread(type, k, v)
      PROVE  TypeOK'
  <2>1. PICK old \in Value : TxnRecord(type, k, v, old)
    BY <1>2 DEF TxnStart, TxnMisread, Contents
  <2>2. current_txn \in Transaction
    BY <2>1 DEF TxnRecord, in_transaction
  <2>3. rec' \in Operation /\ rec'.key = k /\ rec'.op_type = type
    BY <2>1, <2>2, OpType, TransactionFields DEF TxnRecord, Op, OpTypes
  <2>4. current_txn' \in Transaction
    BY <2>1, <2>2, <2>3, RecordedSpec DEF TxnRecord
  <2>5. io_errors' \in Nat /\ taints' \subseteq Taints
    BY <1>2, IoErrorsType DEF TxnStart, TxnMisread
  <2> QED BY <2>1, <2>3, <2>4, <2>5 DEF TxnRecord
<1>3. CASE AutoLog
  BY <1>3, LogType DEF AutoLog, Log
<1>4. CASE AutoApply
  BY <1>4, AppliedType DEF AutoApply
<1>5. CASE AutoCommit
  <2>1. WALTypeOK'
    BY <1>5, LogType, MarkerType, OpFields DEF AutoCommit, Log
  <2>2. committed' \in Contents
    BY <1>5, AfterCommitType DEF AutoCommit
  <2> QED BY <1>5, <2>1, <2>2 DEF AutoCommit, Log
<1>6. CASE Begin
  BY <1>6, NewTransactionType DEF Begin, begin, IdTaint
<1>7. CASE TxnLog
  BY <1>7, LogType DEF TxnLog, Log
<1>8. CASE TxnApply
  BY <1>8, AppliedType DEF TxnApply
<1>9. CASE CommitStart
  BY <1>9 DEF CommitStart, in_transaction
<1>10. CASE CommitLog
  <2>1. WALTypeOK'
    BY <1>10, LogType, MarkerType, TransactionFields DEF CommitLog, Log
  <2>2. committed' \in Contents
    BY <1>10, AfterCommitType DEF CommitLog
  <2> QED BY <1>10, <2>1, <2>2 DEF CommitLog, Log
<1>11. CASE RollbackStart
  BY <1>11 DEF RollbackStart, in_transaction, Touched
<1>12. ASSUME NEW k \in Keys, Restore(k) PROVE TypeOK'
  <2>1. tree' \in Contents
    BY <1>12, TransactionFields DEF Restore, CallState, Touched, Contents
  <2> QED BY <1>12, <2>1 DEF Restore
<1>13. CASE RollbackLog
  <2>1. WALTypeOK'
    BY <1>13, LogType, MarkerType, TransactionFields DEF RollbackLog, Log
  <2> QED BY <1>13, <2>1 DEF RollbackLog, Log
<1>14. CASE Flush
  BY <1>14 DEF Flush
<1>15. ASSUME NEW k \in Keys, Steal(k) PROVE TypeOK'
  <2>1. disk' \in Contents
    BY <1>15 DEF Steal, Contents
  <2> QED BY <1>15, <2>1 DEF Steal
<1>16. CASE CloseStart
  BY <1>16 DEF CloseStart
<1>17. CASE CloseClear
  BY <1>17, NoOpType, EmptyLog DEF CloseClear, clear, MemoryLost
<1>18. CASE Crash
  <2>1. disk' \in Contents /\ taints' \subseteq Taints
    BY <1>18, FilesType DEF Crash
  <2> QED BY <1>18, <2>1, NoOpType DEF Crash, MemoryLost, InDoubt
<1>19. CASE CrashAppending
  <2>1. PICK op \in Appending :
          /\ CrashInAppend(op)
          /\ IF recover(wal_file') # recover(wal_file) /\ op.op_type = "Commit"
               THEN committed' = AfterCommit
               ELSE UNCHANGED committed
    BY <1>19 DEF CrashAppending
  <2>2. WALTypeOK'
    BY <2>1, LogType, AppendingType
  <2>3. op.op_type = "Commit" => pc \in {"auto_commit", "commit_log"}
    BY DEF Appending, RollbackOp, Op
  <2>4. committed' \in Contents
    BY <2>1, <2>3, AfterCommitType
  <2>5. disk' \in Contents /\ taints' \subseteq Taints
    BY <1>19, FilesType DEF CrashAppending
  <2> QED BY <1>19, <2>2, <2>4, <2>5, NoOpType DEF CrashAppending, MemoryLost, InDoubt
<1>20. ASSUME Open \/ OpenMerges \/ \E k \in Keys : OpenKeeps(k) PROVE TypeOK'
  <2>1. PICK T, errors : OpenWith(T, errors) /\ T \subseteq Contents /\ errors \subseteq Taints
    BY <1>20, OpensType
  <2>2. current_lsn' \in Nat \ {0}
    BY <2>1, NextLsnSpec DEF OpenWith, WALNew
  <2>3. io_errors' \in Nat
    BY <1>20, OpensType
  <2> QED BY <2>1, <2>2, <2>3 DEF OpenWith, WALNew
<1>21. CASE LogFails
  <2>1. WALTypeOK'
    BY <1>21, LogType, AppendingType DEF LogFails
  <2> QED BY <1>21, <2>1 DEF LogFails, IoError
<1>22. CASE ApplyFails
  <2>1. tree' \in Contents
    BY <1>22, AfterFailedApplyType DEF ApplyFails
  <2> QED BY <1>22, <2>1 DEF ApplyFails, IoError
<1>23. ASSUME NEW k \in Keys, RestoreFails(k) PROVE TypeOK'
  <2> DEFINE v  == taken.snapshot[k]
             op == Op(taken.txn_id, IF v = Absent THEN "Delete" ELSE "Put", k, v)
  <2>1. op \in Operation
    BY <1>23, TransactionFields, OpType DEF RestoreFails, CallState, Touched, OpTypes
  <2>2. tree' \in AfterFailedApply(op)
    BY <1>23 DEF RestoreFails
  <2>3. tree' \in Contents
    <3> HIDE DEF op
    <3> QED BY <2>1, <2>2, AfterFailedApplyType
  <2> QED BY <1>23, <2>3 DEF RestoreFails, IoError
<1>24. CASE FlushFails
  <2>1. disk' \in Contents /\ taints' \subseteq Taints
    BY <1>24, FilesType DEF FlushFails
  <2> QED BY <1>24, <2>1, NoOpType DEF FlushFails, MemoryLost, IoError
<1>25. CASE CloseFails
  <2>1. WALTypeOK'
    BY <1>25, EmptyLog DEF CloseFails, ClearFails
  <2> QED BY <1>25, <2>1 DEF CloseFails, IoError
<1>29. CASE ApplyMerges
  <2>1. tree' \in Contents
    BY <1>29, PartlyLostType DEF ApplyMerges
  <2>2. io_errors' \in Nat
    BY <1>29, IoErrorsType DEF ApplyMerges
  <2>3. pc' \in {"auto_commit", "idle"} /\ taints' \subseteq Taints
    BY <1>29 DEF ApplyMerges
  <2> QED BY <1>29, <2>1, <2>2, <2>3 DEF ApplyMerges
<1>30. CASE RestoreMerges
  <2>1. tree' \in Contents
    BY <1>30 DEF RestoreMerges
  <2> QED BY <1>30, <2>1 DEF RestoreMerges
<1> HIDE Types DEF TypeOK, WALTypeOK, TxnTypeOK, Chunk, Pcs, AutoPcs, FlushPcs, Taints, Taint,
                   walVars, txnVars, engineVars, boundVars, historyVars
<1>26. CASE Client
  BY <1>26, <1>1, <1>2, <1>6, <1>9, <1>11, <1>16, <1>20 DEF Client
<1>27. CASE Running
  BY <1>27, <1>3, <1>4, <1>5, <1>7, <1>8, <1>10, <1>12, <1>13, <1>14, <1>17 DEF Running
<1>28. CASE Environment
  BY <1>28, <1>2, <1>15, <1>18, <1>19, <1>20, <1>21, <1>22, <1>23, <1>24, <1>25, <1>29, <1>30
  DEF Environment
<1> QED BY <1>26, <1>27, <1>28 DEF Next
---------------------------------------------------------------------------
(* Steps that leave pc and the transaction alone, or that end at a point   *)
(* where nothing is claimed, are grouped.                                  *)
LEMMA CallStateNext ==
  ASSUME TypeOK, CallState, Next
  PROVE  CallState'
<1> USE DEF CallState, in_transaction, Idle, AutoPcs, FlushPcs
<1>1. ASSUME NEW k \in Keys, NEW type, NEW v, AutoStart(type, k, v)
      PROVE  CallState'
  BY <1>1 DEF AutoStart
<1>2. ASSUME NEW k \in Keys, NEW type \in {"Put", "Delete"}, NEW v \in Value,
             TxnStart(type, k, v) \/ TxnMisread(type, k, v)
      PROVE  CallState'
  <2>1. PICK old \in Value : TxnRecord(type, k, v, old)
    BY <1>2, Types DEF TxnStart, TxnMisread, Contents
  <2>2. current_txn \in Transaction
    BY <2>1, Types DEF TxnRecord
  <2>3. rec' \in Operation /\ rec'.key = k
    BY <2>1, <2>2, OpType, TransactionFields DEF TxnRecord, Op, OpTypes
  <2>4. /\ current_txn' \in Transaction
        /\ current_txn'.snapshot =
             [current_txn.snapshot EXCEPT ![k] =
                IF current_txn.snapshot[k] = Untouched THEN old
                                                       ELSE current_txn.snapshot[k]]
    BY <2>1, <2>2, <2>3, RecordedSpec DEF TxnRecord
  <2>5. current_txn'.snapshot[k] # Untouched
    BY <2>2, <2>4, TransactionFields, TxnAssumption
  <2>6. rec'.key \in Touched(current_txn') /\ current_txn' # NoTxn
    BY <2>3, <2>4, <2>5, TransactionFields DEF Touched
  <2> QED BY <2>1, <2>6 DEF TxnRecord
<1>3. CASE AutoLog \/ AutoApply \/ AutoCommit
  BY <1>3 DEF AutoLog, AutoApply, AutoCommit, Log, txnVars
<1>4. CASE TxnLog \/ TxnApply
  BY <1>4 DEF TxnLog, TxnApply, Log, txnVars
<1>5. CASE Begin \/ CloseStart
  BY <1>5 DEF Begin, CloseStart, engineVars, txnVars
<1>6. CASE CommitStart \/ CommitLog
  BY <1>6 DEF CommitStart, CommitLog, Log, txnVars
<1>7. CASE RollbackStart
  BY <1>7 DEF RollbackStart
<1>8. ASSUME NEW k \in Keys, Restore(k) PROVE CallState'
  BY <1>8 DEF Restore
<1>9. CASE RollbackLog
  BY <1>9 DEF RollbackLog, Log, txnVars
<1>10. CASE Flush
  BY <1>10 DEF Flush
<1>11. ASSUME NEW k \in Keys, Steal(k) PROVE CallState'
  BY <1>11 DEF Steal, txnVars
<1>12. CASE CloseClear \/ Crash \/ CrashAppending
  BY <1>12 DEF CloseClear, Crash, CrashAppending, MemoryLost
<1>13. ASSUME Open \/ OpenMerges \/ \E k \in Keys : OpenKeeps(k) PROVE CallState'
  BY <1>13 DEF Open, OpenMerges, OpenKeeps, OpenWith
<1>14. CASE LogFails \/ ApplyFails \/ CloseFails \/ ApplyMerges \/ RestoreMerges
  BY <1>14 DEF LogFails, ApplyFails, CloseFails, ApplyMerges, RestoreMerges
<1>15. ASSUME NEW k \in Keys, RestoreFails(k) PROVE CallState'
  BY <1>15 DEF RestoreFails
<1>16. CASE FlushFails
  BY <1>16 DEF FlushFails, MemoryLost
<1> HIDE DEF CallState, in_transaction, Idle, AutoPcs, FlushPcs
<1>17. CASE Client
  BY <1>17, <1>1, <1>2, <1>5, <1>6, <1>7, <1>13 DEF Client
<1>18. CASE Running
  BY <1>18, <1>3, <1>4, <1>6, <1>8, <1>9, <1>10, <1>12 DEF Running
<1>19. CASE Environment
  BY <1>19, <1>2, <1>11, <1>12, <1>13, <1>14, <1>15, <1>16 DEF Environment
<1> QED BY <1>17, <1>18, <1>19 DEF Next
---------------------------------------------------------------------------
(* SnapshotSufficient, key by key.                                         *)
UndoLost == taints \cap Unrestorable # {}

Restores(txn, t, b) ==
  \A k \in Keys : (IF k \in Touched(txn) THEN txn.snapshot[k] ELSE t[k]) = b[k]

Sufficient ==
  /\ in_transaction => Restores(current_txn, tree, base)
  /\ pc \in {"commit_log", "rollback_restore"} => Restores(taken, tree, base)
  /\ pc = "rollback_restore" => \A k \in Touched(taken) \ undo : tree[k] = taken.snapshot[k]

LEMMA RestoresSpec ==
  ASSUME NEW txn, NEW t, NEW b \in Contents
  PROVE  ([k \in Keys |-> IF k \in Touched(txn) THEN txn.snapshot[k] ELSE t[k]] = b)
           <=> Restores(txn, t, b)
<1>1. b = [k \in Keys |-> b[k]]
  BY DEF Contents
<1>2. ASSUME Restores(txn, t, b)
      PROVE  [k \in Keys |-> IF k \in Touched(txn) THEN txn.snapshot[k] ELSE t[k]] = b
  BY <1>1, <1>2 DEF Restores
<1>3. ASSUME [k \in Keys |-> IF k \in Touched(txn) THEN txn.snapshot[k] ELSE t[k]] = b
      PROVE  Restores(txn, t, b)
  BY <1>3 DEF Restores
<1> QED BY <1>2, <1>3

LEMMA SufficientIsSnapshotSufficient ==
  ASSUME base \in Contents
  PROVE  SnapshotSufficient <=> (~ UndoLost => Sufficient)
BY RestoresSpec DEF SnapshotSufficient, UndoLost, Sufficient, UndoView

(* What happened stays on record.                                          *)
LEMMA TaintsStay == Next => taints \subseteq taints'
<1> USE DEF Log, walVars, txnVars, engineVars, boundVars, historyVars
<1>1. ASSUME Client PROVE taints \subseteq taints'
  BY <1>1 DEF Client, AutoStart, TxnStart, Begin, CommitStart, RollbackStart, CloseStart,
              Open, OpenWith
<1>2. ASSUME Running PROVE taints \subseteq taints'
  BY <1>2 DEF Running, AutoLog, AutoApply, AutoCommit, TxnLog, TxnApply, CommitLog,
              RollbackLog, Flush, CloseClear, Restore
<1>3. ASSUME Environment PROVE taints \subseteq taints'
  BY <1>3 DEF Environment, Steal, RestoreFails, OpenKeeps, OpenWith, TxnMisread, Crash,
              CrashAppending, LogFails, ApplyFails, FlushFails, FilesAtStop, CloseFails,
              ApplyMerges, RestoreMerges, OpenMerges
<1> QED BY <1>1, <1>2, <1>3 DEF Next

(* No step undoes the loss of a key.                                       *)
LEMMA UndoLostStays ==
  ASSUME Next, UndoLost
  PROVE  UndoLost'
BY TaintsStay DEF UndoLost

LEMMA SufficientNext ==
  ASSUME TypeOK, CallState, Sufficient, Next, ~ UndoLost'
  PROVE  Sufficient'
<1> USE DEF CallState, Sufficient, in_transaction, Idle, AutoPcs, FlushPcs
<1>1. ASSUME NEW k \in Keys, NEW type, NEW v, AutoStart(type, k, v)
      PROVE  Sufficient'
  BY <1>1 DEF AutoStart
<1>2. ASSUME NEW k \in Keys, NEW type \in {"Put", "Delete"}, NEW v \in Value,
             TxnStart(type, k, v)
      PROVE  Sufficient'
  <2>1. current_txn \in Transaction /\ Restores(current_txn, tree, base)
    BY <1>2, Types DEF TxnStart, TxnRecord
  <2>2. rec' \in Operation /\ rec'.key = k
    BY <1>2, <2>1, OpType, TransactionFields DEF TxnStart, TxnRecord, Op, OpTypes
  <2>3. /\ current_txn' \in Transaction
        /\ current_txn'.snapshot =
             [current_txn.snapshot EXCEPT ![k] =
                IF current_txn.snapshot[k] = Untouched THEN tree[k]
                                                       ELSE current_txn.snapshot[k]]
    <3> HIDE DEF Sufficient, CallState
    <3>1. tree[k] \in Value
      BY Types DEF Contents
    <3>2. current_txn' = Recorded(current_txn, rec', tree[k])
      BY <1>2 DEF TxnStart, TxnRecord
    <3> QED BY <2>1, <2>2, <3>1, <3>2, RecordedSpec
  <2>4. current_txn.snapshot \in [Keys -> Value \cup {Untouched}]
    BY <2>1, TransactionFields
  <2>5. \A j \in Keys : current_txn'.snapshot[j] =
           IF j = k /\ current_txn.snapshot[k] = Untouched THEN tree[k]
                                                          ELSE current_txn.snapshot[j]
    BY <2>3, <2>4
  <2>6. Restores(current_txn', tree, base)
    BY <2>1, <2>5 DEF Restores, Touched
  <2> QED BY <1>2, <2>6 DEF TxnStart, TxnRecord
<1>3. CASE AutoLog \/ AutoApply \/ AutoCommit
  BY <1>3 DEF AutoLog, AutoApply, AutoCommit, Log, txnVars
<1>4. CASE TxnLog
  BY <1>4 DEF TxnLog, Log, txnVars
<1>5. CASE TxnApply
  <2>1. /\ current_txn' = current_txn /\ base' = base /\ pc' = "idle"
        /\ rec.key \in Touched(current_txn)
        /\ tree' = [tree EXCEPT ![rec.key] = rec.value]
    BY <1>5 DEF TxnApply, Applied, historyVars
  <2>2. \A k \in Keys \ {rec.key} : tree'[k] = tree[k]
    BY <2>1, Types DEF Contents
  <2> QED BY <1>5, <2>1, <2>2 DEF Restores, TxnApply
<1>6. CASE Begin
  <2>1. Touched(current_txn') = {} /\ tree' = tree /\ base' = tree /\ pc' = "idle"
    BY <1>6, Types, NewTransactionType DEF Begin, begin, engineVars
  <2> QED BY <2>1 DEF Restores
<1>7. CASE CloseStart
  BY <1>7 DEF CloseStart, txnVars
<1>8. CASE CommitStart \/ CommitLog
  BY <1>8 DEF CommitStart, CommitLog, Log, txnVars, historyVars
<1>9. CASE RollbackStart
  BY <1>9 DEF RollbackStart, historyVars
<1>10. ASSUME NEW k \in Keys, Restore(k) PROVE Sufficient'
  <2>1. /\ taken' = taken /\ current_txn' = NoTxn /\ base' = base
        /\ pc = "rollback_restore" /\ pc' = "rollback_restore"
        /\ k \in Touched(taken) /\ undo' = undo \ {k}
        /\ tree' = [tree EXCEPT ![k] = taken.snapshot[k]]
    BY <1>10 DEF Restore, historyVars
  <2>2. tree'[k] = taken.snapshot[k] /\ \A j \in Keys \ {k} : tree'[j] = tree[j]
    BY <2>1, Types DEF Contents
  <2>3. Restores(taken, tree', base)
    BY <2>1, <2>2 DEF Restores
  <2>4. Touched(taken) \subseteq Keys
    BY DEF Touched
  <2> QED BY <2>1, <2>2, <2>3, <2>4
<1>11. CASE RollbackLog
  BY <1>11 DEF RollbackLog, Log, txnVars
<1>12. CASE Flush
  BY <1>12 DEF Flush, txnVars, historyVars
<1>13. ASSUME NEW k \in Keys, Steal(k) PROVE Sufficient'
  BY <1>13 DEF Steal, txnVars
<1>14. CASE CloseClear \/ Crash \/ CrashAppending
  BY <1>14 DEF CloseClear, Crash, CrashAppending, MemoryLost
<1>15. ASSUME Open \/ \E k \in Keys : OpenKeeps(k) PROVE Sufficient'
  BY <1>15 DEF Open, OpenKeeps, OpenWith
<1>16. CASE LogFails \/ CloseFails
  BY <1>16 DEF LogFails, CloseFails, txnVars
<1>17. CASE ApplyFails
  <2>1. tree' \in {tree, Applied(rec)}
    BY <1>17 DEF ApplyFails, UndoLost, Unrestorable, Taint
  <2>2. current_txn' = current_txn /\ base' = base /\ pc' = "idle"
    BY <1>17 DEF ApplyFails
  <2>3. \A k \in Keys \ {rec.key} : tree'[k] = tree[k]
    BY <2>1, Types DEF Contents, Applied
  <2>4. in_transaction => rec.key \in Touched(current_txn)
    BY <1>17 DEF ApplyFails
  <2> QED BY <2>2, <2>3, <2>4 DEF Restores
<1>18. ASSUME NEW k \in Keys, RestoreFails(k) PROVE Sufficient'
  BY <1>18 DEF RestoreFails, UndoLost, Unrestorable
<1>19. CASE FlushFails
  BY <1>19 DEF FlushFails, MemoryLost, txnVars
<1>23. ASSUME NEW k \in Keys, NEW type, NEW v, TxnMisread(type, k, v)
       PROVE  Sufficient'
  BY <1>23 DEF TxnMisread, UndoLost, Unrestorable
<1>24. CASE ApplyMerges \/ RestoreMerges \/ OpenMerges
  BY <1>24 DEF ApplyMerges, RestoreMerges, OpenMerges, OpenWith, UndoLost, Unrestorable
<1> HIDE DEF CallState, Sufficient, in_transaction, Idle, AutoPcs, FlushPcs
<1>20. CASE Client
  BY <1>20, <1>1, <1>2, <1>6, <1>7, <1>8, <1>9, <1>15 DEF Client
<1>21. CASE Running
  BY <1>21, <1>3, <1>4, <1>5, <1>8, <1>10, <1>11, <1>12, <1>14 DEF Running
<1>22. CASE Environment
  BY <1>22, <1>13, <1>14, <1>15, <1>16, <1>17, <1>18, <1>19, <1>23, <1>24 DEF Environment
<1> QED BY <1>20, <1>21, <1>22 DEF Next

(* When rollback has no key left to put back, the tree is what it was.     *)
LEMMA RestoredTree ==
  ASSUME Inv, pc = "rollback_restore", undo = {}, taints \cap Unrestorable = {}
  PROVE  tree = base
<1>1. tree \in Contents /\ base \in Contents
  BY DEF Inv, TypeOK, TxnTypeOK
<1>2. Sufficient
  BY <1>1, SufficientIsSnapshotSufficient DEF Inv, UndoLost
<1>3. \A k \in Keys : tree[k] = base[k]
  BY <1>2 DEF Sufficient, Restores
<1> QED BY <1>1, <1>3 DEF Contents
---------------------------------------------------------------------------
LEMMA InvInit == Init => Inv
<1> SUFFICES ASSUME Init PROVE Inv
  OBVIOUS
<1>1. WALTypeOK
  BY EmptyLog DEF Init, WALInit, WALTypeOK, Chunk
<1>2. TypeOK
  <2>1. tree \in Contents /\ disk \in Contents /\ base \in Contents /\ committed \in Contents
    BY DEF Init, Contents
  <2>2. TxnTypeOK
    BY <2>1 DEF Init, TxnTypeOK
  <2>3. pc \in Pcs /\ rec \in Operation /\ taken \in Transaction \cup {NoTxn} /\ undo \subseteq Keys
    BY NoOpType DEF Init, Pcs
  <2>4. {opens, crashes, io_errors} \subseteq Nat /\ taints \subseteq Taints
    BY DEF Init
  <2>5. in_doubt \in BOOLEAN
    BY DEF Init
  <2> QED BY <1>1, <2>1, <2>2, <2>3, <2>4, <2>5 DEF TypeOK, Init, AutoPcs
<1>3. CallState /\ Sufficient
  BY DEF Init, CallState, Sufficient, in_transaction
<1> QED BY <1>2, <1>3, Types, SufficientIsSnapshotSufficient DEF Inv

LEMMA InvNext == Inv /\ [Next]_vars => Inv'
<1> SUFFICES ASSUME Inv, [Next]_vars PROVE Inv'
  OBVIOUS
<1>1. CASE Next
  <2>1. TypeOK' /\ CallState'
    BY <1>1, TypeNext, CallStateNext DEF Inv
  <2>2. base \in Contents /\ base' \in Contents
    BY <2>1 DEF Inv, TypeOK
  <2>3. ~ UndoLost' => Sufficient'
    BY <1>1, <2>2, UndoLostStays, SufficientNext, SufficientIsSnapshotSufficient DEF Inv
  <2>4. SnapshotSufficient'
    BY <2>2, <2>3, RestoresSpec DEF SnapshotSufficient, UndoLost, Sufficient, UndoView
  <2> QED BY <2>1, <2>4 DEF Inv
<1>2. CASE UNCHANGED vars
  BY <1>2 DEF Inv, TypeOK, WALTypeOK, TxnTypeOK, CallState, SnapshotSufficient, UndoView,
              in_transaction, vars, walVars, txnVars, engineVars, boundVars, historyVars
<1> QED BY <1>1, <1>2

THEOREM InvHolds == Spec => []Inv
<1>1. Init => Inv
  BY InvInit
<1>2. Inv /\ [Next]_vars => Inv'
  BY InvNext
<1> QED BY <1>1, <1>2, PTL DEF Spec

(* Every value the engine keeps is of its type, recovery and failed calls  *)
(* included.                                                               *)
THEOREM TypeCorrect == Spec => []TypeOK
<1>1. Inv => TypeOK
  BY DEF Inv
<1> QED BY <1>1, InvHolds, PTL

(* The snapshot of an open transaction, and of one being committed or      *)
(* rolled back, is enough to bring back the tree as it was at begin.       *)
THEOREM SnapshotAlwaysSufficient == Spec => []SnapshotSufficient
<1>1. Inv => SnapshotSufficient
  BY DEF Inv
<1> QED BY <1>1, InvHolds, PTL

(* A rollback that comes to log its record has restored the tree exactly.  *)
THEOREM RollbackIsExact == Spec => RollbackExact
<1> DEFINE Exact == pc = "rollback_restore" /\ pc' = "rollback_flush" =>
                      taints \cap Unrestorable # {} \/ tree = base
<1>1. Inv /\ [Next]_vars => [Exact]_vars
  <2> SUFFICES ASSUME Inv, Next, pc = "rollback_restore", pc' = "rollback_flush",
                      taints \cap Unrestorable = {}
               PROVE  tree = base
    OBVIOUS
  <2>1. undo = {}
    <3> USE DEF Idle, FlushPcs, AutoPcs, engineVars
    <3>1. CASE Client
      BY <3>1 DEF Client, AutoStart, TxnStart, TxnRecord, Begin, CommitStart,
                  RollbackStart, CloseStart, Open, OpenWith
    <3>2. CASE Running
      BY <3>2 DEF Running, AutoLog, AutoApply, AutoCommit, TxnLog, TxnApply, CommitLog,
                  RollbackLog, Flush, CloseClear, Restore
    <3>3. CASE Environment
      BY <3>3 DEF Environment, Steal, RestoreFails, OpenKeeps, OpenWith, TxnMisread,
                  TxnRecord, Crash, CrashAppending, MemoryLost, LogFails, ApplyFails, FlushFails,
                  CloseFails, ApplyMerges, RestoreMerges, OpenMerges
    <3> QED BY <3>1, <3>2, <3>3 DEF Next
  <2> QED BY <2>1, RestoredTree
<1>2. Spec => [][Exact]_vars
  <2> HIDE DEF Exact
  <2> QED BY <1>1, InvHolds, PTL DEF Spec
<1> QED BY <1>2 DEF RollbackExact

---------------------------------------------------------------------------

(* The strengthening says three things of a clean run.  LogHolds is the    *)
(* property itself, and it is not inductive: what a Commit record adds to  *)
(* a replay depends on what the group has in the log (GroupOpen), and what *)
(* a flush writes depends on what the tree holds (TreeState).              *)

LogHolds == InLogOrder(Log_, disk) = committed

\* How many operations of the open transaction are in the log.
LoggedCount == Len(current_txn.operations) - (IF pc = "txn_log" THEN 1 ELSE 0)

\* The group under way is the end of the log, and no other record has its id.
GroupOpen ==
  /\ pc \in AutoPcs => EndsWith(Log_, rec.txn_id, <<rec>>, IF pc = "auto_log" THEN 0 ELSE 1)
  /\ in_transaction => /\ Writes(current_txn.txn_id, current_txn.operations)
                       /\ EndsWith(Log_, current_txn.txn_id, current_txn.operations, LoggedCount)
  /\ pc = "txn_log" => LET ops == current_txn.operations
                       IN  ops # <<>> /\ rec = ops[Len(ops)]
  /\ pc \in {"commit_log", "rollback_restore"} =>
       /\ Writes(taken.txn_id, taken.operations)
       /\ EndsWith(Log_, taken.txn_id, taken.operations, Len(taken.operations))

\* The tree with the write that is being carried out.
View == IF pc \in {"txn_log", "txn_apply"} THEN Applied(rec) ELSE tree

\* What the tree holds, by where the running call is.
TreeState ==
  /\ pc \in FlushPcs \cup {"close_clear", "auto_log", "auto_apply"} => tree = committed
  /\ pc = "idle" /\ ~ in_transaction => tree = committed
  /\ pc \in {"auto_commit", "commit_log"} => tree = AfterCommit
  /\ in_transaction => View = Overlay(current_txn, committed)
  /\ in_transaction \/ pc \in AutoPcs \cup {"commit_log", "rollback_restore"} => base = committed
  /\ pc \in {"close_flush", "close_clear"} => ~ in_transaction
  /\ pc = "close_clear" => disk = committed
  /\ pc = "down" => tree = disk

Durable == LogHolds /\ GroupOpen /\ TreeState

DurabilityInv == Clean => Durable

LEMMA CleanBefore == Next /\ Clean' => Clean
BY TaintsStay DEF Clean
---------------------------------------------------------------------------
(* The log as a reader sees it, before and after an append.                *)
LEMMA LogReads ==
  ASSUME TypeOK
  PROVE  /\ wal_file \in Seq(Chunk) /\ Log_ \in Seq(WALRecord)
         /\ current_lsn \in Nat
BY Types, RecoverSpec DEF Log_

LEMMA LogAppended ==
  ASSUME TypeOK, NEW op \in Operation, Log(op), Clean'
  PROVE  Log_' = Append(Log_, WithLsn(op, current_lsn))
<1>1. ~ \E i \in DOMAIN wal_file : wal_file[i] = Torn
  BY DEF Log, Taint, Clean
<1>2. wal_file \in Seq(Chunk) /\ current_lsn \in Nat /\ DOMAIN wal_file = 1 .. Len(wal_file)
      /\ Len(wal_file) \in Nat
  BY LogReads, LenProperties
<1>3. ReadableLen(wal_file) = Len(wal_file)
  <2>1. /\ ReadableLen(wal_file) \in 0 .. Len(wal_file)
        /\ ReadableLen(wal_file) < Len(wal_file) => wal_file[ReadableLen(wal_file) + 1] = Torn
    BY <1>2, ReadableLenSpec
  <2> QED BY <1>1, <1>2, <2>1
<1>4. WithLsn(op, current_lsn) \in Chunk /\ WithLsn(op, current_lsn) # Torn
  BY <1>2, WithLsnType DEF Chunk
<1>5. wal_file' = Append(wal_file, WithLsn(op, current_lsn))
  BY DEF Log, append
<1> QED BY <1>2, <1>3, <1>4, <1>5, RecoverAppend DEF Log_

LEMMA LogCut ==
  ASSUME TypeOK, NEW op \in Operation, CrashInAppend(op)
  PROVE  Log_' \in {Log_, Append(Log_, WithLsn(op, current_lsn))}
<1>1. wal_file \in Seq(Chunk) /\ current_lsn \in Nat
  BY LogReads
<1>2. WithLsn(op, current_lsn) \in Chunk /\ Torn \in Chunk
  BY <1>1, WithLsnType DEF Chunk
<1>3. wal_file' \in {wal_file, Append(wal_file, Torn), Append(wal_file, WithLsn(op, current_lsn))}
  BY DEF CrashInAppend, Unfinished
<1> QED BY <1>1, <1>2, <1>3, RecoverAppend DEF Log_

(* What a write inside a transaction records.                              *)
LEMMA TxnStartSpec ==
  ASSUME TypeOK, NEW k \in Keys, NEW type \in {"Put", "Delete"}, NEW v \in Value,
         TxnStart(type, k, v)
  PROVE  /\ pc = "idle" /\ pc' = "txn_log" /\ current_txn \in Transaction
         /\ rec' \in Operation /\ rec'.key = k /\ rec'.op_type = type
         /\ rec'.txn_id = current_txn.txn_id
         /\ tree[k] \in Value /\ current_txn' = Recorded(current_txn, rec', tree[k])
         /\ current_txn' \in Transaction /\ current_txn'.txn_id = current_txn.txn_id
         /\ current_txn'.operations = Append(current_txn.operations, rec')
         /\ wal_file' = wal_file /\ tree' = tree /\ base' = base /\ committed' = committed
<1>1. current_txn \in Transaction /\ tree[k] \in Value
  BY Types DEF TxnStart, TxnRecord, in_transaction, Contents, Value
<1>2. /\ rec' \in Operation /\ rec'.key = k /\ rec'.op_type = type
      /\ rec'.txn_id = current_txn.txn_id
  BY <1>1, OpType, TransactionFields DEF TxnStart, TxnRecord, Op, OpTypes
<1>3. current_txn' = Recorded(current_txn, rec', tree[k])
  BY DEF TxnStart, TxnRecord
<1>4. Recorded(current_txn, rec', tree[k]).txn_id = current_txn.txn_id
  BY <1>1 DEF Recorded, Transaction
<1>5. /\ current_txn' \in Transaction
      /\ current_txn'.operations = Append(current_txn.operations, rec')
  BY <1>1, <1>2, <1>3, RecordedSpec
<1> QED BY <1>1, <1>2, <1>3, <1>4, <1>5 DEF TxnStart, TxnRecord, Idle, walVars

(* A step that leaves the file alone.                                      *)
LEMMA LogSame == wal_file' = wal_file => Log_' = Log_
BY DEF Log_

LEMMA OneWrite ==
  ASSUME TypeOK, pc \in AutoPcs
  PROVE  /\ <<rec>> \in Seq(Operation) /\ Len(<<rec>>) = 1 /\ <<rec>>[1] = rec
         /\ Writes(rec.txn_id, <<rec>>)
         /\ \A k : LastWrite(<<rec>>, k) = IF k = rec.key THEN rec.value ELSE Untouched
<1>1. rec \in Operation /\ rec.key \in Keys /\ rec.op_type \in {"Put", "Delete"}
  BY Types
<1>2. <<rec>> \in Seq(Operation) /\ Len(<<rec>>) = 1 /\ <<rec>>[1] = rec /\ DOMAIN <<rec>> = 1 .. 1
  BY <1>1
<1>3. Writes(rec.txn_id, <<rec>>)
  BY <1>1, <1>2 DEF Writes
<1>4. \A k : LastWrite(<<rec>>, k) = IF k = rec.key THEN rec.value ELSE Untouched
  <2>1. <<>> \in Seq(Operation) /\ <<rec>> = Append(<<>>, rec) /\ DOMAIN <<>> = {}
    BY <1>1
  <2>2. \A k : LastWrite(<<>>, k) = Untouched
    BY <2>1 DEF LastWrite
  <2>3. \A k : LastWrite(Append(<<>>, rec), k) = IF rec.key = k THEN rec.value
                                                ELSE LastWrite(<<>>, k)
    BY <1>1, <2>1, LastWriteAppend
  <2> QED BY <2>1, <2>2, <2>3
<1> QED BY <1>2, <1>3, <1>4

(* What the step under way appends.                                        *)
LEMMA AppendingSpec ==
  ASSUME NEW op \in Appending
  PROVE  \/ pc \in {"auto_log", "txn_log"} /\ op = rec
         \/ pc = "auto_commit" /\ op = CommitOp(rec.txn_id)
         \/ pc = "commit_log" /\ op = CommitOp(taken.txn_id)
         \/ pc = "rollback_restore" /\ undo = {} /\ op = RollbackOp(taken.txn_id)
<1>1. CASE pc \in {"auto_log", "txn_log"}
  BY <1>1 DEF Appending
<1>2. CASE pc = "auto_commit"
  BY <1>2 DEF Appending
<1>3. CASE pc = "commit_log"
  BY <1>3 DEF Appending
<1>4. CASE pc = "rollback_restore" /\ undo = {}
  BY <1>4 DEF Appending
<1>5. ~ (pc \in {"auto_log", "txn_log"}) /\ pc # "auto_commit" /\ pc # "commit_log"
        /\ ~ (pc = "rollback_restore" /\ undo = {}) => FALSE
  BY DEF Appending
<1> QED BY <1>1, <1>2, <1>3, <1>4, <1>5

(* What a replay gives once the record the call is about to append is in   *)
(* the log, acknowledged or not.                                           *)
LEMMA ReplayAppended ==
  ASSUME TypeOK, LogHolds, GroupOpen, NEW op \in Appending, pc = "txn_log" => in_transaction
  PROVE  InLogOrder(Append(Log_, WithLsn(op, current_lsn)), disk)
           = IF op.op_type = "Commit" THEN AfterCommit ELSE committed
<1> DEFINE r == WithLsn(op, current_lsn)
<1>1. Log_ \in Seq(WALRecord) /\ current_lsn \in Nat
  BY LogReads
<1>2. op \in Operation
  BY AppendingType
<1>3. r \in WALRecord /\ r.op_type = op.op_type /\ r.txn_id = op.txn_id
  BY <1>1, <1>2, WithLsnType DEF WithLsn
<1>4. committed \in Contents
  BY Types
<1>5. CASE pc \in {"auto_log", "txn_log"}
  <2>1. op = rec /\ rec.op_type \in {"Put", "Delete"}
    BY <1>5, AppendingSpec, Types DEF AutoPcs
  <2>2. rec.txn_id \notin committed_txns(Log_)
    <3>1. CASE pc = "auto_log"
      <4>1. EndsWith(Log_, rec.txn_id, <<rec>>, 0)
        BY <3>1 DEF GroupOpen, AutoPcs
      <4>2. <<rec>> \in Seq(Operation) /\ Writes(rec.txn_id, <<rec>>) /\ 0 \in 0 .. Len(<<rec>>)
        BY <3>1, OneWrite DEF AutoPcs
      <4> QED BY <1>1, <4>1, <4>2, OpenGroupUncommitted
    <3>2. CASE pc = "txn_log"
      <4> DEFINE ops == current_txn.operations
      <4>1. /\ Writes(current_txn.txn_id, ops)
            /\ EndsWith(Log_, current_txn.txn_id, ops, Len(ops) - 1)
            /\ ops # <<>> /\ rec = ops[Len(ops)]
        BY <3>2 DEF GroupOpen, LoggedCount
      <4>2. ops \in Seq(Operation)
        BY <3>2, Types, TransactionFields DEF in_transaction
      <4>3. Len(ops) \in 1 .. Len(ops) /\ Len(ops) - 1 \in 0 .. Len(ops)
        BY <4>1, <4>2, EmptySeq, LenProperties
      <4>4. rec.txn_id = current_txn.txn_id
        <5> HIDE DEF ops
        <5> QED BY <4>1, <4>3 DEF Writes
      <4> QED BY <1>1, <4>1, <4>2, <4>3, <4>4, OpenGroupUncommitted
    <3> QED BY <1>5, <3>1, <3>2
  <2>3. InLogOrder(Append(Log_, r), disk) = InLogOrder(Log_, disk)
    <3>1. r.op_type # "Commit" /\ r.txn_id \notin committed_txns(Log_)
      BY <1>3, <2>1, <2>2
    <3> HIDE DEF r
    <3> QED BY <1>1, <1>3, <3>1, LogOrderUncommitted
  <2> QED BY <2>1, <2>3 DEF LogHolds
<1>6. CASE pc = "rollback_restore" /\ undo = {}
  <2>1. op = RollbackOp(taken.txn_id)
    BY <1>6, AppendingSpec
  <2>2. op.op_type = "Rollback" /\ op.txn_id = taken.txn_id
    BY <2>1 DEF RollbackOp, Op
  <2>3. taken.operations \in Seq(Operation)
    BY <1>6, Types, TransactionFields
  <2>4. taken.txn_id \notin committed_txns(Log_)
    <3>1. Len(taken.operations) \in 0 .. Len(taken.operations)
      BY <2>3, LenProperties
    <3> QED BY <1>1, <1>6, <2>3, <3>1, OpenGroupUncommitted DEF GroupOpen
  <2>5. InLogOrder(Append(Log_, r), disk) = InLogOrder(Log_, disk)
    <3>1. r.op_type # "Commit" /\ r.txn_id \notin committed_txns(Log_)
      BY <1>3, <2>2, <2>4
    <3> HIDE DEF r
    <3> QED BY <1>1, <1>3, <3>1, LogOrderUncommitted
  <2> QED BY <2>2, <2>5 DEF LogHolds
<1>7. CASE pc = "auto_commit"
  <2>1. op = CommitOp(rec.txn_id)
    BY <1>7, AppendingSpec
  <2>2. op.op_type = "Commit" /\ op.txn_id = rec.txn_id
    BY <2>1 DEF CommitOp, Op
  <2>3. EndsWith(Log_, rec.txn_id, <<rec>>, 1)
    BY <1>7 DEF GroupOpen, AutoPcs
  <2>4. InLogOrder(Append(Log_, r), disk) =
          [k \in Keys |-> IF LastWrite(<<rec>>, k) = Untouched THEN committed[k]
                                                               ELSE LastWrite(<<rec>>, k)]
    <3>1. /\ <<rec>> \in Seq(Operation) /\ EndsWith(Log_, rec.txn_id, <<rec>>, Len(<<rec>>))
          /\ Writes(rec.txn_id, <<rec>>)
      BY <1>7, <2>3, OneWrite DEF AutoPcs
    <3>2. r.op_type = "Commit" /\ r.txn_id = rec.txn_id
      BY <1>3, <2>2
    <3>3. InLogOrder(Append(Log_, r), disk) =
            [k \in Keys |-> IF LastWrite(<<rec>>, k) = Untouched
                              THEN InLogOrder(Log_, disk)[k] ELSE LastWrite(<<rec>>, k)]
      <4> DEFINE ops == <<rec>>
      <4> HIDE DEF r, ops
      <4> QED BY <1>1, <1>3, <3>1, <3>2, LogOrderCommit DEF ops
    <3> QED BY <3>3 DEF LogHolds
  <2>5. AfterCommit = [committed EXCEPT ![rec.key] = rec.value]
    BY <1>7 DEF AfterCommit
  <2>6. \A k : LastWrite(<<rec>>, k) = IF k = rec.key THEN rec.value ELSE Untouched
    BY <1>7, OneWrite DEF AutoPcs
  <2>7. rec.value # Untouched /\ rec.key \in Keys
    <3>1. rec \in Operation /\ rec.key \in Keys
      BY <1>7, Types DEF AutoPcs
    <3>2. rec.value \in Value
      BY <3>1, OpFields
    <3> QED BY <3>1, <3>2, TxnAssumption DEF Value
  <2> QED BY <1>4, <2>2, <2>4, <2>5, <2>6, <2>7 DEF Contents
<1>8. CASE pc = "commit_log"
  <2>1. op = CommitOp(taken.txn_id)
    BY <1>8, AppendingSpec
  <2>2. op.op_type = "Commit" /\ op.txn_id = taken.txn_id
    BY <2>1 DEF CommitOp, Op
  <2>3. InLogOrder(Append(Log_, r), disk) =
          [k \in Keys |-> IF LastWrite(taken.operations, k) = Untouched
                            THEN committed[k] ELSE LastWrite(taken.operations, k)]
    <3>1. /\ taken.operations \in Seq(Operation) /\ Writes(taken.txn_id, taken.operations)
          /\ EndsWith(Log_, taken.txn_id, taken.operations, Len(taken.operations))
      BY <1>8, Types, TransactionFields DEF GroupOpen
    <3>2. r.op_type = "Commit" /\ r.txn_id = taken.txn_id
      BY <1>3, <2>2
    <3> HIDE DEF r
    <3> QED BY <1>1, <1>3, <3>1, <3>2, LogOrderCommit DEF LogHolds
  <2>4. \A k : get_uncommitted(taken, k) = LastWrite(taken.operations, k)
    BY DEF get_uncommitted, LastWrite
  <2>5. AfterCommit = Overlay(taken, committed)
    BY <1>8 DEF AfterCommit
  <2> QED BY <2>2, <2>3, <2>4, <2>5 DEF Overlay
<1> QED BY <1>5, <1>6, <1>7, <1>8, AppendingSpec
---------------------------------------------------------------------------
(* The steps of a clean run.                                               *)
LEMMA CleanSteps ==
  ASSUME Next, Clean'
  PROVE  Client \/ Running \/ (\E k \in Keys : Steal(k)) \/ Crash \/ CrashAppending
<1>1. ASSUME NEW k \in Keys, RestoreFails(k) \/ OpenKeeps(k) PROVE FALSE
  BY <1>1 DEF RestoreFails, OpenKeeps, OpenWith, Clean
<1>2. ASSUME NEW k \in Keys, NEW type, NEW v, TxnMisread(type, k, v) PROVE FALSE
  BY <1>2 DEF TxnMisread, Clean
<1>3. ~ (LogFails \/ ApplyFails \/ CloseFails)
  BY DEF LogFails, ApplyFails, CloseFails, Clean
<1>4. ~ FlushFails
  BY DEF FlushFails, FilesAtStop, Clean
<1>5. ~ (ApplyMerges \/ RestoreMerges \/ OpenMerges)
  BY DEF ApplyMerges, RestoreMerges, OpenMerges, OpenWith, Clean
<1> QED BY <1>1, <1>2, <1>3, <1>4, <1>5 DEF Next, Environment

(* A kill that leaves the pages whole leaves the disk as it is.            *)
LEMMA CleanStop ==
  ASSUME FilesAtStop({}), Clean'
  PROVE  disk' = disk
BY DEF FilesAtStop, Clean

(* An open that does not replay out of order finds what a replay in log    *)
(* order gives.                                                            *)
LEMMA CleanOpen ==
  ASSUME Open, Clean'
  PROVE  /\ tree' = InLogOrder(Log_, disk)
         /\ wal_file' = wal_file /\ disk' = disk /\ committed' = committed
         /\ pc = "down" /\ pc' \in {"idle", "recover_flush"} /\ current_txn' = current_txn
BY DEF Open, OpenWith, Taint, Clean, Log_, WALNew

LEMMA EmptyReplay ==
  ASSUME NEW contents \in Contents
  PROVE  InLogOrder(recover(<<>>), contents) = contents
<1>1. recover(<<>>) \in Seq(WALRecord) /\ Len(recover(<<>>)) = 0
  BY EmptyLog, RecoverSpec
<1>2. \A k \in Keys : CommittedWrites(recover(<<>>), k) = {}
  BY <1>1, CommittedWritesSpec
<1> QED BY <1>2, InLogOrderAt DEF Contents

(* A page written early or by a flush holds what a replay would give.      *)
LEMMA WrittenEarly ==
  ASSUME TypeOK, LogHolds, NEW d \in Contents, \A k \in Keys : d[k] \in {disk[k], committed[k]}
  PROVE  InLogOrder(Log_, d) = committed
<1>1. Log_ \in Seq(WALRecord) /\ disk \in Contents
  BY LogReads, Types
<1> QED BY <1>1, LogOrderKeeps DEF LogHolds

LEMMA LogHoldsNext ==
  ASSUME Inv, Durable, Next, Clean'
  PROVE  LogHolds'
<1> USE DEF Inv, Durable
<1>1. ASSUME wal_file' = wal_file, disk' = disk, committed' = committed
      PROVE  LogHolds'
  BY <1>1, LogSame DEF LogHolds
<1>2. ASSUME NEW op \in Operation, op \in Appending, Log(op), disk' = disk,
             committed' = IF op.op_type = "Commit" THEN AfterCommit ELSE committed
      PROVE  LogHolds'
  <2>1. Log_' = Append(Log_, WithLsn(op, current_lsn))
    BY <1>2, LogAppended
  <2> QED BY <1>2, <2>1, ReplayAppended DEF LogHolds, CallState
<1>3. CASE AutoLog \/ TxnLog
  <2>1. rec \in Operation /\ rec \in Appending /\ Log(rec) /\ rec.op_type # "Commit"
    BY <1>3, Types DEF AutoLog, TxnLog, Appending, AutoPcs
  <2> QED BY <1>2, <1>3, <2>1 DEF AutoLog, TxnLog
<1>4. CASE AutoCommit
  <2>1. CommitOp(rec.txn_id) \in Appending /\ CommitOp(rec.txn_id).op_type = "Commit"
    BY <1>4 DEF AutoCommit, Appending, CommitOp, Op
  <2> QED BY <1>2, <1>4, <2>1, AppendingType DEF AutoCommit
<1>5. CASE CommitLog
  <2>1. CommitOp(taken.txn_id) \in Appending /\ CommitOp(taken.txn_id).op_type = "Commit"
    BY <1>5 DEF CommitLog, Appending, CommitOp, Op
  <2> QED BY <1>2, <1>5, <2>1, AppendingType DEF CommitLog
<1>6. CASE RollbackLog
  <2>1. RollbackOp(taken.txn_id) \in Appending /\ RollbackOp(taken.txn_id).op_type # "Commit"
    BY <1>6 DEF RollbackLog, Appending, RollbackOp, Op
  <2> QED BY <1>2, <1>6, <2>1, AppendingType DEF RollbackLog
<1>7. CASE Flush
  <2>1. disk' = tree /\ tree = committed /\ wal_file' = wal_file /\ committed' = committed
    BY <1>7 DEF Flush, walVars, historyVars, TreeState
  <2> QED BY <2>1, LogSame, WrittenEarly, Types DEF LogHolds
<1>8. ASSUME NEW k \in Keys, Steal(k) PROVE LogHolds'
  <2>1. /\ disk' = [disk EXCEPT ![k] = tree[k]] /\ tree[k] = committed[k]
        /\ wal_file' = wal_file /\ committed' = committed
    BY <1>8 DEF Steal, walVars, Taint, Clean
  <2>2. disk' \in Contents /\ \A j \in Keys : disk'[j] \in {disk[j], committed[j]}
    BY <2>1, Types DEF Contents
  <2> QED BY <2>1, <2>2, LogSame, WrittenEarly DEF LogHolds
<1>9. CASE CloseClear
  <2>1. wal_file' = <<>> /\ disk' = disk /\ disk = committed /\ committed' = committed
    BY <1>9 DEF CloseClear, clear, historyVars, TreeState
  <2> QED BY <2>1, EmptyReplay, Types DEF LogHolds, Log_
<1>10. CASE Crash
  BY <1>1, <1>10, CleanStop DEF Crash, walVars
<1>11. CASE CrashAppending
  <2>1. PICK op \in Appending :
          /\ CrashInAppend(op)
          /\ IF recover(wal_file') # recover(wal_file) /\ op.op_type = "Commit"
               THEN committed' = AfterCommit
               ELSE UNCHANGED committed
    BY <1>11 DEF CrashAppending
  <2>2. disk' = disk
    BY <1>11, CleanStop DEF CrashAppending
  <2>3. Log_' \in {Log_, Append(Log_, WithLsn(op, current_lsn))}
    BY <2>1, AppendingType, LogCut
  <2>4. CASE Log_' = Log_
    <3>1. committed' = committed
      BY <2>1, <2>4 DEF Log_
    <3> QED BY <2>2, <2>4, <3>1 DEF LogHolds
  <2>5. CASE Log_' # Log_
    <3>1. committed' = IF op.op_type = "Commit" THEN AfterCommit ELSE committed
      BY <2>1, <2>5 DEF Log_
    <3> QED BY <2>2, <2>3, <2>5, <3>1, ReplayAppended DEF LogHolds, CallState
  <2> QED BY <2>4, <2>5
<1>12. CASE Client
  <2>1. wal_file' = wal_file /\ disk' = disk /\ committed' = committed
    BY <1>12, CleanOpen DEF Client, AutoStart, TxnStart, TxnRecord, Begin, CommitStart,
                            RollbackStart, CloseStart, walVars, engineVars, historyVars
  <2> QED BY <1>1, <2>1
<1>13. CASE AutoApply \/ TxnApply \/ \E k \in Keys : Restore(k)
  BY <1>1, <1>13 DEF AutoApply, TxnApply, Restore, walVars, historyVars
<1> HIDE DEF Inv, Durable
<1> QED BY <1>3, <1>4, <1>5, <1>6, <1>7, <1>8, <1>9, <1>10, <1>11, <1>12, <1>13, CleanSteps
        DEF Running
---------------------------------------------------------------------------
LEMMA GroupOpenNext ==
  ASSUME Inv, Durable, Next, Clean'
  PROVE  GroupOpen'
<1> USE DEF Inv, Durable, CallState, in_transaction, Idle, AutoPcs, FlushPcs
<1>0. Log_ \in Seq(WALRecord) /\ current_lsn \in Nat
  BY LogReads
<1>1. ASSUME NEW k \in Keys, NEW type, NEW v, AutoStart(type, k, v)
      PROVE  GroupOpen'
  <2>1. /\ pc' = "auto_log" /\ current_txn' = NoTxn /\ wal_file' = wal_file
        /\ rec'.txn_id = next_txn_id /\ next_txn_id \notin TxnIds(Log_)
    BY <1>1 DEF AutoStart, Op, IdTaint, Taint, Clean, walVars, Log_
  <2>2. EndsWith(Log_', rec'.txn_id, <<rec'>>, 0)
    BY <1>0, <2>1, LogSame, FreshGroup
  <2> QED BY <2>1, <2>2 DEF GroupOpen
<1>2. CASE AutoLog
  <2>1. Log_' = Append(Log_, WithLsn(rec, current_lsn)) /\ rec' = rec /\ pc' = "auto_apply"
        /\ current_txn' = NoTxn
    BY <1>2, LogAppended, Types DEF AutoLog, txnVars
  <2>2. EndsWith(Log_, rec.txn_id, <<rec>>, 0)
    BY <1>2 DEF AutoLog, GroupOpen
  <2>3. EndsWith(Append(Log_, WithLsn(rec, current_lsn)), rec.txn_id, <<rec>>, 1)
    <3> DEFINE ops == <<rec>>
               m   == 0
    <3>1. /\ ops \in Seq(Operation) /\ Len(ops) = 1 /\ ops[m + 1] = rec
          /\ m \in Nat /\ m + 1 = 1 /\ EndsWith(Log_, rec.txn_id, ops, m)
      BY <1>2, <2>2, OneWrite DEF AutoLog
    <3> HIDE DEF ops, m
    <3>2. EndsWith(Append(Log_, WithLsn(ops[m + 1], current_lsn)), rec.txn_id, ops, m + 1)
      BY <1>0, <3>1, GroupGrows
    <3> QED BY <3>1, <3>2 DEF ops
  <2> QED BY <2>1, <2>3 DEF GroupOpen
<1>3. CASE AutoApply
  BY <1>3, LogSame DEF AutoApply, GroupOpen, walVars
<1>4. CASE AutoCommit
  <2>1. pc' = "idle" /\ current_txn' = NoTxn
    BY <1>4 DEF AutoCommit, txnVars
  <2> QED BY <2>1 DEF GroupOpen
<1>5. CASE Begin
  <2>1. /\ current_txn' = NewTransaction(next_txn_id) /\ pc' = "idle" /\ wal_file' = wal_file
        /\ next_txn_id \notin TxnIds(Log_)
    BY <1>5 DEF Begin, begin, IdTaint, Taint, Clean, walVars, engineVars, Log_
  <2>2. current_txn'.txn_id = next_txn_id /\ current_txn'.operations = <<>>
    BY <2>1 DEF NewTransaction
  <2>3. Len(<<>>) = 0
    BY EmptyLog
  <2>4. EndsWith(Log_', next_txn_id, <<>>, 0)
    BY <1>0, <2>1, LogSame, FreshGroup
  <2>5. LoggedCount' = 0
    BY <2>1, <2>2, <2>3 DEF LoggedCount
  <2>6. Writes(next_txn_id, <<>>)
    BY <2>3 DEF Writes
  <2> QED BY <2>1, <2>2, <2>4, <2>5, <2>6 DEF GroupOpen
<1>6. ASSUME NEW k \in Keys, NEW type \in {"Put", "Delete"}, NEW v \in Value,
             TxnStart(type, k, v)
      PROVE  GroupOpen'
  <2> DEFINE ops == current_txn.operations
             id  == current_txn.txn_id
  <2>1. /\ current_txn \in Transaction /\ ops \in Seq(Operation) /\ pc = "idle"
        /\ Len(ops) \in 0 .. Len(ops)
    BY <1>6, TxnStartSpec, TransactionFields, LenProperties
  <2>2. /\ rec' \in Operation /\ rec'.key = k /\ rec'.op_type = type /\ rec'.txn_id = id
        /\ pc' = "txn_log" /\ wal_file' = wal_file
    BY <1>6, TxnStartSpec
  <2>3. /\ current_txn' \in Transaction
        /\ current_txn'.operations = Append(ops, rec') /\ current_txn'.txn_id = id
    BY <1>6, TxnStartSpec
  <2>4. Writes(id, ops) /\ EndsWith(Log_, id, ops, Len(ops))
    BY <2>1, TransactionFields DEF GroupOpen, LoggedCount
  <2>5. Writes(id, Append(ops, rec')) /\ EndsWith(Log_', id, Append(ops, rec'), Len(ops))
    <3>1. Log_' = Log_
      BY <2>2, LogSame
    <3> HIDE DEF ops, id
    <3> QED BY <1>0, <2>1, <2>2, <2>4, <3>1, WritesRecorded, GroupRecorded
  <2>6. /\ Len(Append(ops, rec')) = Len(ops) + 1 /\ Append(ops, rec')[Len(ops) + 1] = rec'
        /\ Append(ops, rec') # <<>>
    <3> HIDE DEF ops
    <3>1. Append(ops, rec') \in Seq(Operation)
      BY <2>1, <2>2, AppendProperties
    <3> QED BY <2>1, <2>2, <3>1, AppendProperties, EmptySeq
  <2>7. LoggedCount' = Len(ops)
    BY <2>1, <2>2, <2>3, <2>6 DEF LoggedCount
  <2> QED BY <2>2, <2>3, <2>5, <2>6, <2>7 DEF GroupOpen
<1>7. CASE TxnLog
  <2> DEFINE ops == current_txn.operations
             id  == current_txn.txn_id
             m   == Len(ops) - 1
  <2>1. /\ current_txn \in Transaction /\ ops \in Seq(Operation) /\ ops # <<>>
        /\ rec = ops[Len(ops)] /\ Writes(id, ops) /\ EndsWith(Log_, id, ops, m)
    BY <1>7, Types, TransactionFields DEF TxnLog, GroupOpen, LoggedCount
  <2>2. Len(ops) \in Nat \ {0}
    BY <2>1, EmptySeq
  <2>3. m \in Nat /\ m + 1 = Len(ops)
    BY <2>2
  <2>4. /\ Log_' = Append(Log_, WithLsn(ops[m + 1], current_lsn))
        /\ current_txn' = current_txn /\ pc' = "txn_apply"
    BY <1>7, <2>1, <2>3, LogAppended, Types DEF TxnLog, txnVars
  <2>5. EndsWith(Log_', id, ops, Len(ops))
    <3> HIDE DEF ops, m, id
    <3>1. EndsWith(Append(Log_, WithLsn(ops[m + 1], current_lsn)), id, ops, m + 1)
      BY <1>0, <2>1, <2>2, <2>3, GroupGrows
    <3> QED BY <2>3, <2>4, <3>1
  <2>6. LoggedCount' = Len(ops)
    BY <2>2, <2>4 DEF LoggedCount
  <2> QED BY <2>1, <2>4, <2>5, <2>6 DEF GroupOpen
<1>8. CASE TxnApply
  <2>1. /\ current_txn' = current_txn /\ Log_' = Log_ /\ pc = "txn_apply" /\ pc' = "idle"
    BY <1>8, LogSame DEF TxnApply, walVars
  <2>2. LoggedCount' = LoggedCount
    BY <2>1 DEF LoggedCount
  <2> QED BY <2>1, <2>2 DEF GroupOpen
<1>9. CASE CommitStart \/ RollbackStart
  <2>1. /\ taken' = current_txn /\ current_txn' = NoTxn /\ Log_' = Log_ /\ pc = "idle"
        /\ pc' \in {"commit_log", "rollback_restore"} /\ current_txn \in Transaction
    BY <1>9, LogSame, Types DEF CommitStart, RollbackStart, walVars
  <2>2. LoggedCount = Len(current_txn.operations)
    BY <2>1, TransactionFields, LenProperties DEF LoggedCount
  <2>3. /\ Writes(current_txn.txn_id, current_txn.operations)
        /\ EndsWith(Log_, current_txn.txn_id, current_txn.operations, Len(current_txn.operations))
    BY <2>1, <2>2, TransactionFields DEF GroupOpen
  <2> QED BY <2>1, <2>3 DEF GroupOpen
<1>10. CASE CommitLog \/ RollbackLog
  <2>1. pc' \in {"commit_flush", "rollback_flush"} /\ current_txn' = NoTxn
    BY <1>10 DEF CommitLog, RollbackLog, txnVars
  <2> QED BY <2>1 DEF GroupOpen
<1>11. ASSUME NEW k \in Keys, Restore(k) PROVE GroupOpen'
  BY <1>11, LogSame DEF Restore, GroupOpen, walVars
<1>12. CASE Flush
  <2>1. pc' \in {"idle", "close_clear"} /\ current_txn' = NoTxn
    BY <1>12 DEF Flush, txnVars, TreeState
  <2> QED BY <2>1 DEF GroupOpen
<1>13. ASSUME NEW k \in Keys, Steal(k) PROVE GroupOpen'
  BY <1>13, LogSame DEF Steal, GroupOpen, LoggedCount, walVars, txnVars
<1>14. CASE CloseStart
  <2>1. pc' = "close_flush" /\ current_txn' = NoTxn
    BY <1>14 DEF CloseStart, txnVars, Taint, Clean
  <2> QED BY <2>1 DEF GroupOpen
<1>15. CASE CloseClear \/ Crash \/ CrashAppending
  <2>1. pc' = "down" /\ current_txn' = NoTxn
    BY <1>15 DEF CloseClear, Crash, CrashAppending, MemoryLost
  <2> QED BY <2>1 DEF GroupOpen
<1>16. CASE Open
  <2>1. pc' \in {"idle", "recover_flush"} /\ current_txn' = NoTxn
    BY <1>16, CleanOpen
  <2> QED BY <2>1 DEF GroupOpen
<1> HIDE DEF Inv, Durable, CallState, in_transaction, Idle, AutoPcs, FlushPcs
<1>17. CASE Client
  BY <1>17, <1>1, <1>5, <1>6, <1>9, <1>14, <1>16 DEF Client, Value
<1>18. CASE Running
  BY <1>18, <1>2, <1>3, <1>4, <1>7, <1>8, <1>10, <1>11, <1>12, <1>15 DEF Running
<1> QED BY <1>13, <1>15, <1>17, <1>18, CleanSteps
---------------------------------------------------------------------------
LEMMA TreeStateNext ==
  ASSUME Inv, Durable, Next, Clean'
  PROVE  TreeState'
<1> USE DEF Inv, Durable, CallState, in_transaction, Idle, AutoPcs, FlushPcs
<1>0. tree \in Contents /\ committed \in Contents /\ disk \in Contents
  BY Types
<1>1. ASSUME NEW k \in Keys, NEW type, NEW v, AutoStart(type, k, v)
      PROVE  TreeState'
  <2>1. /\ pc = "idle" /\ current_txn = NoTxn /\ current_txn' = NoTxn /\ pc' = "auto_log"
        /\ tree' = tree /\ base' = tree /\ committed' = committed
    BY <1>1 DEF AutoStart
  <2> QED BY <2>1 DEF TreeState
<1>2. CASE AutoLog
  <2>1. /\ pc = "auto_log" /\ pc' = "auto_apply" /\ tree' = tree /\ base' = base
        /\ committed' = committed /\ current_txn' = NoTxn
    BY <1>2 DEF AutoLog, txnVars
  <2> QED BY <2>1 DEF TreeState
<1>3. CASE AutoApply
  <2>1. /\ pc = "auto_apply" /\ pc' = "auto_commit" /\ tree' = [tree EXCEPT ![rec.key] = rec.value]
        /\ base' = base /\ committed' = committed /\ current_txn' = NoTxn /\ rec' = rec
    BY <1>3 DEF AutoApply, Applied, historyVars
  <2>2. AfterCommit' = [committed EXCEPT ![rec.key] = rec.value]
    BY <2>1 DEF AfterCommit
  <2> QED BY <2>1, <2>2 DEF TreeState
<1>4. CASE AutoCommit
  <2>1. /\ pc = "auto_commit" /\ pc' = "idle" /\ tree' = tree /\ committed' = AfterCommit
        /\ current_txn' = NoTxn
    BY <1>4 DEF AutoCommit, txnVars
  <2> QED BY <2>1 DEF TreeState
<1>5. CASE Begin
  <2>1. /\ pc = "idle" /\ pc' = "idle" /\ tree' = tree /\ base' = tree /\ committed' = committed
        /\ current_txn = NoTxn /\ current_txn' = NewTransaction(next_txn_id)
    BY <1>5 DEF Begin, begin, engineVars
  <2>2. tree = committed
    BY <2>1 DEF TreeState
  <2>3. View' = Overlay(current_txn', committed')
    BY <1>0, <2>1, <2>2, OverlayNew DEF View
  <2>4. current_txn' # NoTxn
    BY <2>1, NewTransactionType, Types, TransactionFields
  <2> QED BY <2>1, <2>2, <2>3, <2>4 DEF TreeState
<1>6. ASSUME NEW k \in Keys, NEW type \in {"Put", "Delete"}, NEW v \in Value,
             TxnStart(type, k, v)
      PROVE  TreeState'
  <2>1. current_txn \in Transaction /\ pc = "idle"
    BY <1>6, TxnStartSpec
  <2>2. /\ rec' \in Operation /\ rec'.key = k /\ pc' = "txn_log"
        /\ tree' = tree /\ base' = base /\ committed' = committed
    BY <1>6, TxnStartSpec
  <2>3. current_txn' = Recorded(current_txn, rec', tree[k]) /\ tree[k] \in Value
    BY <1>6, TxnStartSpec
  <2>4. View' = [tree EXCEPT ![k] = rec'.value]
    BY <2>2 DEF View, Applied
  <2>5. tree = Overlay(current_txn, committed) /\ base = committed
    BY <2>1, TransactionFields DEF TreeState, View
  <2>6. Overlay(current_txn', committed') = [tree EXCEPT ![k] = rec'.value]
    BY <1>0, <2>1, <2>2, <2>3, <2>5, OverlayRecorded
  <2> QED BY <2>2, <2>4, <2>5, <2>6 DEF TreeState
<1>7. CASE TxnLog
  <2>1. /\ pc = "txn_log" /\ pc' = "txn_apply" /\ tree' = tree /\ base' = base
        /\ committed' = committed /\ current_txn' = current_txn /\ rec' = rec
    BY <1>7 DEF TxnLog, txnVars
  <2>2. View' = View
    BY <2>1 DEF View, Applied
  <2> QED BY <2>1, <2>2 DEF TreeState
<1>8. CASE TxnApply
  <2>1. /\ pc = "txn_apply" /\ pc' = "idle" /\ tree' = Applied(rec) /\ base' = base
        /\ committed' = committed /\ current_txn' = current_txn
    BY <1>8 DEF TxnApply, historyVars
  <2>2. View' = View
    BY <2>1 DEF View
  <2> QED BY <2>1, <2>2 DEF TreeState
<1>9. CASE CommitStart \/ RollbackStart
  <2>1. /\ pc = "idle" /\ pc' \in {"commit_log", "rollback_restore"} /\ tree' = tree /\ base' = base
        /\ committed' = committed /\ current_txn # NoTxn /\ current_txn' = NoTxn
        /\ taken' = current_txn
    BY <1>9 DEF CommitStart, RollbackStart, historyVars
  <2>2. tree = Overlay(current_txn, committed) /\ base = committed
    BY <2>1 DEF TreeState, View
  <2>3. pc' = "commit_log" => AfterCommit' = Overlay(current_txn, committed)
    BY <2>1 DEF AfterCommit
  <2> QED BY <2>1, <2>2, <2>3 DEF TreeState
<1>10. CASE CommitLog
  <2>1. /\ pc = "commit_log" /\ pc' = "commit_flush" /\ tree' = tree
        /\ committed' = AfterCommit /\ current_txn' = NoTxn
    BY <1>10 DEF CommitLog, txnVars
  <2> QED BY <2>1 DEF TreeState
<1>11. ASSUME NEW k \in Keys, Restore(k) PROVE TreeState'
  <2>1. /\ pc = "rollback_restore" /\ pc' = "rollback_restore" /\ base' = base
        /\ committed' = committed /\ current_txn' = NoTxn
    BY <1>11 DEF Restore, historyVars
  <2> QED BY <2>1 DEF TreeState
<1>12. CASE RollbackLog
  <2>1. /\ pc = "rollback_restore" /\ undo = {} /\ pc' = "rollback_flush" /\ tree' = tree
        /\ committed' = committed /\ current_txn' = NoTxn
    BY <1>12 DEF RollbackLog, txnVars
  <2>2. tree = base
    BY <2>1, RestoredTree, CleanBefore DEF Clean
  <2> QED BY <2>1, <2>2 DEF TreeState
<1>13. CASE Flush
  <2>1. /\ pc \in FlushPcs /\ pc' = IF pc = "close_flush" THEN "close_clear" ELSE "idle"
        /\ disk' = tree /\ tree' = tree /\ committed' = committed /\ current_txn' = current_txn
    BY <1>13 DEF Flush, txnVars, historyVars
  <2>2. tree = committed /\ current_txn = NoTxn
    BY <2>1 DEF TreeState
  <2> QED BY <2>1, <2>2 DEF TreeState
<1>14. ASSUME NEW k \in Keys, Steal(k) PROVE TreeState'
  <2>1. /\ pc # "down" /\ disk[k] # tree[k]
        /\ tree' = tree /\ base' = base /\ pc' = pc /\ rec' = rec
        /\ committed' = committed /\ current_txn' = current_txn /\ taken' = taken
    BY <1>14 DEF Steal, txnVars
  <2>2. pc # "close_clear"
    BY <2>1 DEF TreeState
  <2>3. View' = View /\ AfterCommit' = AfterCommit
    BY <2>1 DEF View, Applied, AfterCommit
  <2> QED BY <2>1, <2>2, <2>3 DEF TreeState
<1>15. CASE CloseStart
  <2>1. /\ pc = "idle" /\ pc' = "close_flush" /\ tree' = tree /\ committed' = committed
        /\ current_txn' = current_txn /\ current_txn = NoTxn
    BY <1>15 DEF CloseStart, txnVars, Taint, Clean
  <2> QED BY <2>1 DEF TreeState
<1>16. CASE CloseClear \/ Crash \/ CrashAppending
  <2>1. pc' = "down" /\ current_txn' = NoTxn /\ tree' = disk'
    BY <1>16 DEF CloseClear, Crash, CrashAppending, MemoryLost
  <2> QED BY <2>1 DEF TreeState
<1>17. CASE Open
  <2>1. /\ pc' \in {"idle", "recover_flush"} /\ current_txn' = NoTxn
        /\ tree' = committed /\ committed' = committed
    BY <1>17, CleanOpen DEF LogHolds
  <2> QED BY <2>1 DEF TreeState
<1> HIDE DEF Inv, Durable, CallState, in_transaction, Idle, AutoPcs, FlushPcs
<1>18. CASE Client
  BY <1>18, <1>1, <1>5, <1>6, <1>9, <1>15, <1>17 DEF Client, Value
<1>19. CASE Running
  BY <1>19, <1>2, <1>3, <1>4, <1>7, <1>8, <1>10, <1>11, <1>12, <1>13, <1>16 DEF Running
<1> QED BY <1>14, <1>16, <1>18, <1>19, CleanSteps
---------------------------------------------------------------------------
(* What OneKeyPerFailure needs, tainted or not: of the open transaction's  *)
(* own writes all but one for each file operation that failed are in the   *)
(* tree, not counting the one being carried out.                           *)
Unapplied == {k \in Keys : get_uncommitted(current_txn, k) \notin {Untouched, View[k]}}

FewUnapplied(S, n) == IsFiniteSet(S) /\ Cardinality(S) <= n

OwnWritesShow ==
  taints \cap Disordered = {} /\ in_transaction => FewUnapplied(Unapplied, io_errors)

(* No more keys, or one more for one more failure.                         *)
LEMMA FewerUnapplied ==
  ASSUME NEW n \in Nat, NEW S, FewUnapplied(S, n), NEW T, T \subseteq S
  PROVE  FewUnapplied(T, n)
<1>1. /\ IsFiniteSet(T) /\ Cardinality(T) <= Cardinality(S)
      /\ Cardinality(T) \in Nat /\ Cardinality(S) \in Nat
  BY FS_Subset, FS_CardinalityType DEF FewUnapplied
<1> QED BY <1>1 DEF FewUnapplied

LEMMA OneMoreUnapplied ==
  ASSUME NEW n \in Nat, NEW S, FewUnapplied(S, n), NEW x, NEW T, T \subseteq S \cup {x}
  PROVE  FewUnapplied(T, n + 1)
<1>1. /\ IsFiniteSet(S \cup {x})
      /\ Cardinality(S \cup {x}) = IF x \in S THEN Cardinality(S) ELSE Cardinality(S) + 1
      /\ Cardinality(S) \in Nat
  BY FS_AddElement, FS_CardinalityType DEF FewUnapplied
<1>2. FewUnapplied(S \cup {x}, n + 1)
  BY <1>1 DEF FewUnapplied
<1> QED BY <1>2, FewerUnapplied

LEMMA OwnWritesShowNext ==
  ASSUME Inv, OwnWritesShow, Next
  PROVE  OwnWritesShow'
<1> SUFFICES ASSUME taints' \cap Disordered = {}, current_txn' # NoTxn
             PROVE  FewUnapplied(Unapplied', io_errors')
  BY DEF OwnWritesShow, in_transaction, FewUnapplied
<1> USE DEF Inv, CallState, in_transaction, Idle, AutoPcs, FlushPcs
<1>0. /\ taints \cap Disordered = {}
      /\ io_errors \in Nat
      /\ current_txn # NoTxn => FewUnapplied(Unapplied, io_errors)
  BY TaintsStay, Types DEF OwnWritesShow
<1>1. ASSUME current_txn' = current_txn, View' = View, IoError \/ io_errors' = io_errors
      PROVE  FewUnapplied(Unapplied', io_errors')
  <2>1. Unapplied' = Unapplied
    BY <1>1 DEF Unapplied
  <2>2. FewUnapplied(Unapplied, io_errors)
    BY <1>0, <1>1
  <2>3. FewUnapplied(Unapplied, io_errors + 1)
    BY <1>0, <2>2, OneMoreUnapplied
  <2> QED BY <1>1, <2>1, <2>2, <2>3 DEF IoError
<1>2. ASSUME NEW k \in Keys, NEW type, NEW v, AutoStart(type, k, v) PROVE FALSE
  BY <1>2 DEF AutoStart
<1>3. CASE AutoLog \/ AutoApply \/ AutoCommit
  BY <1>3 DEF AutoLog, AutoApply, AutoCommit, txnVars
<1>4. CASE Begin
  <2>1. current_txn' = NewTransaction(next_txn_id) /\ io_errors' = io_errors
    BY <1>4 DEF Begin, begin, boundVars
  <2>2. Unapplied' = {}
    BY <2>1, NewUncommitted DEF Unapplied
  <2> QED BY <1>0, <2>1, <2>2, FS_EmptySet DEF FewUnapplied
<1>5. ASSUME NEW k \in Keys, NEW type \in {"Put", "Delete"}, NEW v \in Value,
             TxnStart(type, k, v) \/ TxnMisread(type, k, v)
      PROVE  FewUnapplied(Unapplied', io_errors')
  <2>1. PICK old \in Value : TxnRecord(type, k, v, old)
    BY <1>5, Types DEF TxnStart, TxnMisread, Contents
  <2>2. current_txn \in Transaction /\ pc = "idle" /\ tree \in Contents
    BY <2>1, Types DEF TxnRecord
  <2>3. rec' \in Operation /\ rec'.key = k
    BY <2>1, <2>2, OpType, TransactionFields DEF TxnRecord, Op, OpTypes
  <2>4. /\ current_txn' = Recorded(current_txn, rec', old) /\ pc' = "txn_log" /\ tree' = tree
        /\ IoError \/ io_errors' = io_errors
    BY <1>5, <2>1 DEF TxnRecord, TxnStart, TxnMisread
  <2>5. View' = [tree EXCEPT ![k] = rec'.value]
    BY <2>3, <2>4 DEF View, Applied
  <2>6. ASSUME NEW j \in Keys, j \in Unapplied' PROVE j \in Unapplied
    <3>1. get_uncommitted(current_txn', j) =
            IF k = j THEN rec'.value ELSE get_uncommitted(current_txn, j)
      BY <2>2, <2>3, <2>4, UncommittedRecorded
    <3>2. View'[j] = IF k = j THEN rec'.value ELSE View[j]
      BY <2>2, <2>5 DEF Contents, View
    <3> QED BY <2>6, <3>1, <3>2 DEF Unapplied
  <2>7. Unapplied' \subseteq Unapplied
    BY <2>6 DEF Unapplied
  <2>8. FewUnapplied(Unapplied, io_errors)
    BY <1>0, <2>2, TransactionFields
  <2> QED BY <1>0, <2>4, <2>7, <2>8, FewerUnapplied, OneMoreUnapplied DEF IoError
<1>6. CASE TxnLog
  <2>1. View' = View /\ current_txn' = current_txn /\ io_errors' = io_errors
    BY <1>6 DEF TxnLog, txnVars, boundVars, View, Applied
  <2> QED BY <1>1, <2>1
<1>7. CASE TxnApply
  <2>1. View' = View /\ current_txn' = current_txn /\ io_errors' = io_errors
    BY <1>7 DEF TxnApply, View, boundVars
  <2> QED BY <1>1, <2>1
<1>8. CASE CommitStart \/ RollbackStart
  BY <1>8 DEF CommitStart, RollbackStart
<1>9. CASE CommitLog \/ RollbackLog
  BY <1>9 DEF CommitLog, RollbackLog, txnVars
<1>10. ASSUME NEW k \in Keys, Restore(k) PROVE FALSE
  BY <1>10 DEF Restore
<1>11. CASE Flush
  <2>1. /\ pc \in FlushPcs /\ pc' \in {"idle", "close_clear"} /\ tree' = tree
        /\ current_txn' = current_txn /\ io_errors' = io_errors
    BY <1>11 DEF Flush, txnVars, boundVars
  <2>2. View' = View
    BY <2>1 DEF View
  <2> QED BY <1>1, <2>1, <2>2
<1>12. ASSUME NEW k \in Keys, Steal(k) PROVE FewUnapplied(Unapplied', io_errors')
  <2>1. View' = View /\ current_txn' = current_txn /\ io_errors' = io_errors
    BY <1>12 DEF Steal, txnVars, boundVars, View, Applied
  <2> QED BY <1>1, <2>1
<1>13. CASE CloseStart
  <2>1. View' = View /\ current_txn' = current_txn /\ io_errors' = io_errors
    BY <1>13 DEF CloseStart, txnVars, boundVars, View
  <2> QED BY <1>1, <2>1
<1>14. CASE CloseClear \/ Crash \/ CrashAppending
  BY <1>14 DEF CloseClear, Crash, CrashAppending, MemoryLost
<1>15. ASSUME Open \/ \E k \in Keys : OpenKeeps(k) PROVE FALSE
  BY <1>15 DEF Open, OpenKeeps, OpenWith
<1>16. CASE FlushFails \/ CloseFails
  <2>1. /\ pc \in FlushPcs \cup {"close_clear"} /\ pc' = "idle" /\ tree' = tree
        /\ current_txn' = current_txn /\ IoError
    BY <1>16 DEF FlushFails, CloseFails, MemoryLost, txnVars
  <2>2. View' = View
    BY <2>1 DEF View
  <2> QED BY <1>1, <2>1, <2>2
<1>17. CASE LogFails \/ ApplyFails
  <2>1. /\ current_txn' = current_txn /\ pc' = "idle" /\ io_errors' = io_errors + 1
        /\ pc \in {"txn_log", "txn_apply"}
    BY <1>17 DEF LogFails, ApplyFails, Appending, txnVars, IoError
  <2>2. tree' \in {tree, Applied(rec)}
    BY <1>17 DEF LogFails, ApplyFails, txnVars, Taint, Disordered
  <2>3. tree \in Contents /\ current_txn # NoTxn
    BY <2>1, Types
  <2>4. \A j \in Keys \ {rec.key} : View'[j] = View[j]
    BY <2>1, <2>2, <2>3 DEF View, Applied, Contents
  <2>5. Unapplied' \subseteq Unapplied \cup {rec.key}
    BY <2>1, <2>4 DEF Unapplied
  <2> QED BY <1>0, <2>1, <2>3, <2>5, OneMoreUnapplied
<1>18. ASSUME \/ \E k \in Keys : RestoreFails(k)
              \/ ApplyMerges \/ RestoreMerges \/ OpenMerges
       PROVE  FALSE
  BY <1>18 DEF RestoreFails, ApplyMerges, RestoreMerges, OpenMerges, OpenWith, Disordered
<1> HIDE DEF Inv, CallState, in_transaction, Idle, AutoPcs, FlushPcs
<1>19. CASE Client
  BY <1>19, <1>2, <1>4, <1>5, <1>8, <1>13, <1>15 DEF Client, Value
<1>20. CASE Running
  BY <1>20, <1>3, <1>6, <1>7, <1>9, <1>10, <1>11, <1>14 DEF Running
<1>21. CASE Environment
  BY <1>21, <1>5, <1>12, <1>14, <1>15, <1>16, <1>17, <1>18 DEF Environment, Value
<1> QED BY <1>19, <1>20, <1>21 DEF Next

(* What RecoveryRestartable needs: until the flush is done, the tree       *)
(* differs from the disk only in keys the log would set again.             *)
UnloggedOnDisk ==
  pc = "recover_flush" /\ "merge" \notin taints =>
    \A k \in Keys : Writers(Log_, k) = {} => tree[k] = disk[k]

LEMMA UnloggedOnDiskNext ==
  ASSUME Inv, UnloggedOnDisk, Next
  PROVE  UnloggedOnDisk'
<1> SUFFICES ASSUME pc' = "recover_flush", "merge" \notin taints',
                    NEW j \in Keys, Writers(Log_', j) = {}
             PROVE  tree'[j] = disk'[j]
  BY DEF UnloggedOnDisk
<1>0. "merge" \notin taints
  BY TaintsStay
<1>1. ASSUME NEW k \in Keys, Steal(k) PROVE tree'[j] = disk'[j]
  <2>1. /\ pc = "recover_flush" /\ tree' = tree /\ disk' = [disk EXCEPT ![k] = tree[k]]
        /\ Log_' = Log_
    BY <1>1, LogSame DEF Steal, txnVars, walVars
  <2>2. tree[j] = disk[j]
    BY <1>0, <2>1 DEF UnloggedOnDisk
  <2> QED BY <2>1, <2>2, Types DEF Inv, Contents
<1>2. ASSUME NEW T, NEW errors, OpenWith(T, errors), \A t \in T : t[j] = disk[j]
      PROVE  tree'[j] = disk'[j]
  BY <1>2 DEF OpenWith
<1>3. ASSUME Writers(Log_, j) = {}, NEW t \in RecoveredTrees(Log_, disk) PROVE t[j] = disk[j]
  <2>1. PICK order \in ReplayOrders(Log_) : t = Replayed(Log_, order, disk)
    BY DEF RecoveredTrees
  <2> QED BY <1>3, <2>1 DEF Replayed
<1>4. CASE Open
  <2>1. Log_' = Log_ /\ OpenWith(RecoveredTrees(Log_, disk), {})
    BY <1>4, LogSame DEF Open, OpenWith, WALNew, Log_
  <2> QED BY <1>2, <1>3, <2>1
<1>5. ASSUME NEW k \in Keys, OpenKeeps(k) PROVE tree'[j] = disk'[j]
  <2>1. /\ Log_' = Log_ /\ OpenWith(KeptTrees(Log_, k), {"io_error"})
        /\ Replays(Log_, k) # {}
    BY <1>5, LogSame DEF OpenKeeps, OpenWith, WALNew, Log_
  <2>2. k # j
    BY <2>1 DEF Replays, Writers
  <2>3. ASSUME NEW t \in KeptTrees(Log_, k) PROVE t[j] = disk[j]
    <3>1. PICK r \in RecoveredTrees(Log_, disk) : \E v : t = [r EXCEPT ![k] = v]
      BY DEF KeptTrees
    <3>2. DOMAIN r = Keys /\ r[j] = disk[j]
      BY <1>3, <2>1, LogReads, RecoveredType, Types DEF Contents, Inv
    <3> QED BY <2>2, <3>1, <3>2
  <2> QED BY <1>2, <2>1, <2>3
<1>6. CASE Client /\ ~ Open
  BY <1>6 DEF Client, AutoStart, TxnStart, TxnRecord, Begin, CommitStart, RollbackStart,
              CloseStart, Idle, engineVars
<1>7. CASE Running
  BY <1>7 DEF Running, AutoLog, AutoApply, AutoCommit, TxnLog, TxnApply, CommitLog, RollbackLog,
              Flush, CloseClear, MemoryLost, Restore, FlushPcs
<1>8. CASE Crash \/ CrashAppending
  BY <1>8 DEF Crash, CrashAppending, MemoryLost
<1>9. ASSUME \/ LogFails \/ ApplyFails \/ FlushFails \/ CloseFails
             \/ \E k \in Keys : RestoreFails(k)
             \/ \E k \in Keys, v \in Values : TxnMisread("Put", k, v)
             \/ \E k \in Keys : TxnMisread("Delete", k, Absent)
             \/ ApplyMerges \/ RestoreMerges \/ OpenMerges
      PROVE  FALSE
  BY <1>9 DEF LogFails, ApplyFails, FlushFails, CloseFails, RestoreFails, TxnMisread, TxnRecord,
              MemoryLost, ApplyMerges, RestoreMerges, OpenMerges, OpenWith
<1>10. CASE Environment
  BY <1>10, <1>1, <1>5, <1>8, <1>9 DEF Environment
<1> QED BY <1>4, <1>6, <1>7, <1>10 DEF Next
---------------------------------------------------------------------------
RecoveryInv == Inv /\ DurabilityInv /\ OwnWritesShow /\ UnloggedOnDisk

LEMMA RecoveryInvInit == Init => RecoveryInv
<1> SUFFICES ASSUME Init PROVE RecoveryInv
  OBVIOUS
<1>1. Inv
  BY InvInit
<1>2. wal_file = <<>> /\ disk = tree /\ committed = tree /\ disk \in Contents
  BY DEF Init, WALInit, Contents
<1>3. LogHolds
  BY <1>2, EmptyReplay DEF LogHolds, Log_
<1>4. GroupOpen /\ TreeState
  BY <1>2 DEF Init, GroupOpen, TreeState, in_transaction, AutoPcs, FlushPcs
<1>5. OwnWritesShow /\ UnloggedOnDisk
  BY DEF Init, OwnWritesShow, UnloggedOnDisk, in_transaction
<1> QED BY <1>1, <1>3, <1>4, <1>5 DEF RecoveryInv, DurabilityInv, Durable

LEMMA RecoveryInvNext == RecoveryInv /\ [Next]_vars => RecoveryInv'
<1> SUFFICES ASSUME RecoveryInv, [Next]_vars PROVE RecoveryInv'
  OBVIOUS
<1>1. Inv'
  BY InvNext DEF RecoveryInv
<1>2. CASE Next
  <2>1. ASSUME Clean' PROVE Durable'
    <3>1. Durable
      BY <1>2, <2>1, CleanBefore DEF RecoveryInv, DurabilityInv
    <3> QED BY <1>2, <2>1, <3>1, LogHoldsNext, GroupOpenNext, TreeStateNext
            DEF RecoveryInv, Durable
  <2>2. OwnWritesShow' /\ UnloggedOnDisk'
    BY <1>2, OwnWritesShowNext, UnloggedOnDiskNext DEF RecoveryInv
  <2> QED BY <1>1, <2>1, <2>2 DEF RecoveryInv, DurabilityInv
<1>3. CASE UNCHANGED vars
  <2> USE <1>3 DEF vars, walVars, txnVars, engineVars, boundVars, historyVars
  <2>1. Clean' = Clean /\ Log_' = Log_ /\ in_transaction' = in_transaction /\ View' = View
        /\ AfterCommit' = AfterCommit /\ LoggedCount' = LoggedCount
    BY DEF Clean, Log_, in_transaction, View, Applied, AfterCommit, LoggedCount
  <2>2. DurabilityInv'
    BY <2>1 DEF RecoveryInv, DurabilityInv, Durable, LogHolds, GroupOpen, TreeState
  <2>3. OwnWritesShow' /\ UnloggedOnDisk'
    BY <2>1 DEF RecoveryInv, OwnWritesShow, Unapplied, UnloggedOnDisk
  <2> QED BY <1>1, <2>2, <2>3 DEF RecoveryInv
<1> QED BY <1>2, <1>3

(* The strengthened invariant, whose parts are the theorems below.         *)
THEOREM RecoveryInvHolds == Spec => []RecoveryInv
<1>1. Init => RecoveryInv
  BY RecoveryInvInit
<1>2. RecoveryInv /\ [Next]_vars => RecoveryInv'
  BY RecoveryInvNext
<1> QED BY <1>1, <1>2, PTL DEF Spec

(* No acknowledged write is missing after a kill and a replay, and nothing *)
(* uncommitted is there, whenever the kill comes.                          *)
THEOREM CommittedSurvives == Spec => []LogComplete
<1>1. RecoveryInv => LogComplete
  BY DEF RecoveryInv, DurabilityInv, Durable, LogHolds, LogComplete
<1> QED BY <1>1, RecoveryInvHolds, PTL

(* Without two committed groups that write one key, every order in which   *)
(* recovery may replay the groups gives the committed contents.            *)
THEOREM RecoveryInAnyOrder == Spec => []ConflictFreeRecovery
<1>1. RecoveryInv => ConflictFreeRecovery
  <2> SUFFICES ASSUME RecoveryInv, Clean, ConflictFree(Log_),
                      NEW t \in RecoveredTrees(Log_, disk)
               PROVE  t = committed
    BY DEF ConflictFreeRecovery
  <2>1. PICK order \in ReplayOrders(Log_) : t = Replayed(Log_, order, disk)
    BY DEF RecoveredTrees
  <2>2. Log_ \in Seq(WALRecord)
    BY LogReads DEF RecoveryInv, Inv
  <2>3. t = InLogOrder(Log_, disk)
    BY <2>1, <2>2, OrderIrrelevant
  <2> QED BY <2>3 DEF RecoveryInv, DurabilityInv, Durable, LogHolds
<1> QED BY <1>1, RecoveryInvHolds, PTL

(* When close comes to drop the log, the disk holds the committed contents *)
(* without it.                                                             *)
THEOREM LogDroppedSafely == Spec => []CloseSafe
<1>1. RecoveryInv => CloseSafe
  BY DEF RecoveryInv, DurabilityInv, Durable, TreeState, CloseSafe
<1> QED BY <1>1, RecoveryInvHolds, PTL

(* While search and range_scan read one map off the tree, get and scan     *)
(* differ on no more keys than file operations have failed, for any number *)
(* of keys, in a transaction and out of one.                               *)
THEOREM DisagreementBounded == Spec => []OneKeyPerFailure
<1>1. RecoveryInv => OneKeyPerFailure
  <2> SUFFICES ASSUME RecoveryInv, Idle, taints \cap Disordered = {}
               PROVE  Cardinality({k \in Keys : get(k) # tree[k]}) <= io_errors
    BY DEF OneKeyPerFailure
  <2> DEFINE D == {k \in Keys : get(k) # tree[k]}
  <2>1. io_errors \in Nat
    BY Types DEF RecoveryInv, Inv
  <2>2. CASE in_transaction
    <3>1. FewUnapplied(Unapplied, io_errors)
      BY <2>2 DEF RecoveryInv, OwnWritesShow
    <3>2. D \subseteq Unapplied
      BY <2>2 DEF Unapplied, View, Idle, get
    <3> HIDE DEF D
    <3> QED BY <2>1, <3>1, <3>2, FewerUnapplied DEF FewUnapplied, D
  <2>3. CASE ~ in_transaction
    <3>1. D = {}
      BY <2>3 DEF get
    <3> QED BY <2>1, <3>1, FS_EmptySet
  <2> QED BY <2>2, <2>3
<1> QED BY <1>1, RecoveryInvHolds, PTL

(* A kill in the middle of recovery, whatever part of the pages it had     *)
(* written, leaves a disk from which the replay gives the same tree.       *)
THEOREM RecoveryRepeatable == Spec => RecoveryRestartable
<1> DEFINE Same == pc = "recover_flush" /\ pc' = "down" /\ taints' \cap {"torn_tree", "merge"} = {}
                     => InLogOrder(Log_, disk') = InLogOrder(Log_, tree)
<1>1. RecoveryInv /\ [Next]_vars => [Same]_vars
  <2> SUFFICES ASSUME RecoveryInv, Next, pc = "recover_flush", pc' = "down",
                      "torn_tree" \notin taints', "merge" \notin taints'
               PROVE  InLogOrder(Log_, disk') = InLogOrder(Log_, tree)
    OBVIOUS
  <2>1. \A k \in Keys : CommittedWrites(Log_, k) = {} => tree[k] = disk[k]
    <3>1. "merge" \notin taints
      BY TaintsStay
    <3> QED BY <3>1, LogReads, CommittedWritesSpec DEF RecoveryInv, Inv, UnloggedOnDisk
  <2>2. disk' = disk
    <3>1. ASSUME Client PROVE FALSE
      BY <3>1 DEF Client, AutoStart, TxnStart, TxnRecord, Begin, CommitStart, RollbackStart,
                  CloseStart, Open, OpenWith, Idle
    <3>2. ASSUME Running PROVE FALSE
      BY <3>2 DEF Running, AutoLog, AutoApply, AutoCommit, TxnLog, TxnApply, CommitLog,
                  RollbackLog, Flush, CloseClear, Restore
    <3>3. CASE Environment
      BY <3>3 DEF Environment, Steal, RestoreFails, OpenKeeps, OpenWith, TxnMisread, TxnRecord,
                  Crash, CrashAppending, FilesAtStop, LogFails, ApplyFails, FlushFails,
                  CloseFails, Idle, ApplyMerges, RestoreMerges, OpenMerges
    <3> QED BY <3>1, <3>2, <3>3 DEF Next
  <2> QED BY <2>1, <2>2, InLogOrderAt
<1>2. Spec => [][Same]_vars
  <2> HIDE DEF Same
  <2> QED BY <1>1, RecoveryInvHolds, PTL DEF Spec
<1> QED BY <1>2 DEF RecoveryRestartable
---------------------------------------------------------------------------
(* The refinement.  In a clean run the store KVStore speaks of is          *)
(* committed at every step, although it is read off the tree, the snapshot *)
(* of a transaction or the log, depending on where the engine is.          *)
Work     == IF in_transaction THEN tree ELSE NoTxn
Inflight == IF pc \in {"auto_commit", "commit_log"} THEN {tree} ELSE {}
Up       == pc # "down"

LEMMA StoreIsCommitted ==
  ASSUME Inv, Clean, Durable
  PROVE  StoreView = committed
<1> USE DEF Inv, Durable, CallState, AutoPcs, FlushPcs
<1>1. taints \cap Unrestorable = {}
  BY DEF Clean
<1>2. CASE pc = "down"
  BY <1>2 DEF StoreView, LogHolds
<1>3. CASE pc \in AutoPcs
  BY <1>3 DEF StoreView, TreeState
<1>4. CASE pc # "down" /\ pc \notin AutoPcs /\ in_transaction
  BY <1>1, <1>4 DEF StoreView, SnapshotSufficient, TreeState
<1>5. CASE pc \in {"commit_log", "rollback_restore"}
  <2>1. ~ in_transaction
    BY <1>5 DEF in_transaction
  <2> QED BY <1>1, <1>5, <2>1 DEF StoreView, SnapshotSufficient, TreeState
<1>6. CASE ~ in_transaction /\ pc \in FlushPcs \cup {"idle", "close_clear"}
  BY <1>6 DEF StoreView, TreeState
<1>7. pc \in Pcs /\ (pc \in {"txn_log", "txn_apply"} => in_transaction)
  BY Types
<1> QED BY <1>2, <1>3, <1>4, <1>5, <1>6, <1>7 DEF Pcs

(* The kinds of steps, seen by KVStore.                                    *)
LEMMA StoreStutters ==
  ASSUME StoreView' = StoreView, Work' = Work, Inflight' = Inflight, Up' = Up
  PROVE  UNCHANGED KV!vars
BY DEF KV!vars, Work, Inflight, Up

LEMMA StoreStops ==
  ASSUME Up, ~ Up', StoreView' \in {StoreView} \cup Inflight, Work' = NoTxn, Inflight' = {}
  PROVE  KV!Next
BY DEF KV!Next, KV!Stop, Work, Inflight, Up

LEMMA StoreDone ==
  ASSUME Up, Up', StoreView' \in Inflight, Work' = Work, Inflight' = {}
  PROVE  KV!Next
BY DEF KV!Next, KV!Done, Work, Inflight, Up

LEMMA StoreStarts ==
  ASSUME ~ Up, Up', StoreView' = StoreView, Work' = Work, Inflight' = Inflight
  PROVE  KV!Next
BY DEF KV!Next, KV!Start, Work, Inflight, Up

LEMMA StepRefines ==
  ASSUME Inv, Durable, Next, Clean', StoreView = committed, StoreView' = committed'
  PROVE  KV!Next \/ UNCHANGED KV!vars
<1> USE DEF Inv, Durable, CallState, AutoPcs, FlushPcs, in_transaction, Idle, Work, Inflight, Up
<1>0. tree \in Contents /\ tree # NoTxn
  BY Types, StoreAssumption
<1>1. ASSUME NEW k \in Keys, NEW type \in {"Put", "Delete"}, NEW v \in Value,
             AutoStart(type, k, v) \/ TxnStart(type, k, v)
      PROVE  UNCHANGED KV!vars
  <2>1. CASE AutoStart(type, k, v)
    <3>1. /\ committed' = committed /\ tree' = tree /\ current_txn' = current_txn
          /\ pc = "idle" /\ pc' = "auto_log"
      BY <2>1 DEF AutoStart
    <3> QED BY <3>1, StoreStutters
  <2>2. CASE TxnStart(type, k, v)
    <3>1. /\ committed' = committed /\ tree' = tree /\ pc = "idle" /\ pc' = "txn_log"
          /\ current_txn # NoTxn /\ current_txn' # NoTxn
      BY <2>2, TxnStartSpec, TransactionFields
    <3> QED BY <3>1, StoreStutters
  <2> QED BY <1>1, <2>1, <2>2
<1>2. CASE AutoLog \/ TxnLog
  <2>1. /\ committed' = committed /\ tree' = tree /\ pc \in {"auto_log", "txn_log"}
        /\ pc' \in {"auto_apply", "txn_apply"} /\ current_txn' = current_txn
    BY <1>2 DEF AutoLog, TxnLog, txnVars
  <2> QED BY <2>1, StoreStutters
<1>3. CASE AutoApply
  <2>1. /\ pc = "auto_apply" /\ pc' = "auto_commit" /\ tree = committed /\ committed' = committed
        /\ tree' = [tree EXCEPT ![rec.key] = rec.value]
        /\ current_txn = NoTxn /\ current_txn' = NoTxn
    BY <1>3 DEF AutoApply, Applied, historyVars, TreeState
  <2>2. rec.key \in Keys /\ rec.value \in Values \cup {Absent}
    BY <2>1, Types, OpFields DEF Value
  <2>3. KV!Write(rec.key, rec.value)
    BY <2>1 DEF KV!Write, KV!Ready
  <2> QED BY <2>2, <2>3 DEF KV!Next
<1>4. CASE AutoCommit \/ CommitLog
  <2>1. /\ pc \in {"auto_commit", "commit_log"} /\ pc' \in {"idle", "commit_flush"}
        /\ tree = AfterCommit /\ committed' = AfterCommit /\ tree' = tree
        /\ current_txn = NoTxn /\ current_txn' = NoTxn
    BY <1>4 DEF AutoCommit, CommitLog, txnVars, TreeState
  <2> QED BY <2>1, StoreDone
<1>5. CASE Begin
  <2>1. /\ pc = "idle" /\ pc' = "idle" /\ tree' = tree /\ committed' = committed
        /\ current_txn = NoTxn /\ current_txn' = NewTransaction(next_txn_id) /\ tree = committed
    BY <1>5 DEF Begin, begin, engineVars, TreeState
  <2>2. current_txn' # NoTxn
    BY <2>1, NewTransactionType, Types, TransactionFields
  <2>3. KV!Begin
    BY <2>1, <2>2 DEF KV!Begin, KV!Ready
  <2> QED BY <2>3 DEF KV!Next
<1>6. CASE TxnApply
  <2>1. /\ pc = "txn_apply" /\ pc' = "idle" /\ committed' = committed
        /\ tree' = [tree EXCEPT ![rec.key] = rec.value]
        /\ current_txn # NoTxn /\ current_txn' = current_txn
    BY <1>6 DEF TxnApply, Applied, historyVars
  <2>2. rec.key \in Keys /\ rec.value \in Values \cup {Absent}
    BY <2>1, Types, OpFields DEF Value
  <2>3. KV!TxnWrite(rec.key, rec.value)
    BY <1>0, <2>1 DEF KV!TxnWrite, KV!Ready
  <2> QED BY <2>2, <2>3 DEF KV!Next
<1>7. CASE CommitStart
  <2>1. /\ pc = "idle" /\ pc' = "commit_log" /\ committed' = committed /\ tree' = tree
        /\ current_txn # NoTxn /\ current_txn' = NoTxn
    BY <1>7 DEF CommitStart, historyVars
  <2>2. KV!Commit
    BY <1>0, <2>1 DEF KV!Commit, KV!Ready
  <2> QED BY <2>2 DEF KV!Next
<1>8. CASE RollbackStart
  <2>1. /\ pc = "idle" /\ pc' = "rollback_restore" /\ committed' = committed /\ tree' = tree
        /\ current_txn # NoTxn /\ current_txn' = NoTxn
    BY <1>8 DEF RollbackStart, historyVars
  <2>2. KV!Rollback
    BY <1>0, <2>1 DEF KV!Rollback, KV!Ready
  <2> QED BY <2>2 DEF KV!Next
<1>9. ASSUME RollbackLog \/ \E k \in Keys : Restore(k)
      PROVE  UNCHANGED KV!vars
  <2>1. /\ pc = "rollback_restore" /\ pc' \in {"rollback_restore", "rollback_flush"}
        /\ committed' = committed /\ current_txn = NoTxn /\ current_txn' = NoTxn
    BY <1>9 DEF RollbackLog, Restore, txnVars, historyVars
  <2> QED BY <2>1, StoreStutters
<1>10. CASE Flush \/ CloseStart
  <2>1. /\ pc \in FlushPcs \cup {"idle"} /\ pc' \in {"idle", "close_clear", "close_flush"}
        /\ committed' = committed /\ tree' = tree /\ current_txn' = current_txn
    BY <1>10 DEF Flush, CloseStart, txnVars, historyVars
  <2> QED BY <2>1, StoreStutters
<1>11. ASSUME NEW k \in Keys, Steal(k) PROVE UNCHANGED KV!vars
  <2>1. committed' = committed /\ tree' = tree /\ pc' = pc /\ current_txn' = current_txn
    BY <1>11 DEF Steal, txnVars
  <2> QED BY <2>1, StoreStutters
<1>12. CASE CloseClear \/ Crash
  <2>1. pc # "down" /\ pc' = "down" /\ committed' = committed /\ current_txn' = NoTxn
    BY <1>12 DEF CloseClear, Crash, MemoryLost, historyVars
  <2> QED BY <2>1, StoreStops
<1>13. CASE CrashAppending
  <2>1. PICK op \in Appending : \/ committed' = committed
                                \/ op.op_type = "Commit" /\ committed' = AfterCommit
    BY <1>13 DEF CrashAppending
  <2>2. pc' = "down" /\ current_txn' = NoTxn
    BY <1>13 DEF CrashAppending, MemoryLost
  <2>3. pc # "down" /\ (op.op_type = "Commit" => pc \in {"auto_commit", "commit_log"})
    <3>1. rec.op_type # "Commit" \/ pc \notin {"auto_log", "txn_log"}
      BY Types
    <3> QED BY <3>1, AppendingSpec DEF RollbackOp, Op
  <2>4. committed' \in {committed} \cup Inflight
    BY <2>1, <2>3 DEF TreeState
  <2> QED BY <2>2, <2>3, <2>4, StoreStops
<1>14. CASE Open
  <2>1. /\ pc = "down" /\ pc' \in {"idle", "recover_flush"} /\ committed' = committed
        /\ current_txn = NoTxn /\ current_txn' = NoTxn
    BY <1>14, CleanOpen
  <2> QED BY <2>1, StoreStarts
<1> HIDE DEF Inv, Durable, CallState, AutoPcs, FlushPcs, in_transaction, Idle, Work, Inflight, Up
<1>15. CASE Client
  BY <1>15, <1>1, <1>5, <1>7, <1>8, <1>10, <1>14 DEF Client, Value
<1>16. CASE Running
  BY <1>16, <1>2, <1>3, <1>4, <1>6, <1>9, <1>10, <1>12 DEF Running
<1> QED BY <1>11, <1>12, <1>13, <1>15, <1>16, CleanSteps

(* The engine implements the store that README.md describes, kills and     *)
(* recoveries included, until something happens that it does not cope      *)
(* with.                                                                   *)
THEOREM EngineImplementsStore == Spec => ImplementsWhileClean
<1> DEFINE Read   == Clean => StoreView = committed
           Faulty == ~ Clean'
           Step   == Faulty \/ KV!Next
<1>1. Init => KV!Init
  <2> SUFFICES ASSUME Init PROVE KV!Init
    OBVIOUS
  <2>1. RecoveryInv /\ Clean
    BY RecoveryInvInit DEF Init, Clean
  <2>2. StoreView = committed
    BY <2>1, StoreIsCommitted DEF RecoveryInv, DurabilityInv
  <2> QED BY <2>2 DEF Init, KV!Init, in_transaction
<1>2. RecoveryInv => Read
  BY StoreIsCommitted DEF RecoveryInv, DurabilityInv
<1>3. RecoveryInv /\ Read /\ Read' /\ [Next]_vars => [Step]_(KV!vars)
  <2> SUFFICES ASSUME RecoveryInv, Read, Read', [Next]_vars, Clean'
               PROVE  KV!Next \/ UNCHANGED KV!vars
    OBVIOUS
  <2>1. CASE Next
    BY <2>1, CleanBefore, StepRefines DEF RecoveryInv, DurabilityInv
  <2>2. CASE UNCHANGED vars
    <3>1. Work' = Work /\ Inflight' = Inflight /\ Up' = Up /\ StoreView' = StoreView
      BY <2>2 DEF vars, walVars, txnVars, engineVars, boundVars, historyVars, Work, Inflight, Up,
                  StoreView, UndoView, in_transaction, Log_
    <3> QED BY <3>1, StoreStutters
  <2> QED BY <2>1, <2>2
<1>4. Spec => KV!Init /\ [][Step]_(KV!vars)
  <2> HIDE DEF Read, Step
  <2> QED BY <1>1, <1>2, <1>3, RecoveryInvHolds, PTL DEF Spec
<1> QED BY <1>4 DEF ImplementsWhileClean
===========================================================================
