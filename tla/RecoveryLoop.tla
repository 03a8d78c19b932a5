---------------------------- MODULE RecoveryLoop --------------------------
(***************************************************************************)
(* The replay loop of recover_from_wal as it is written, to compare the    *)
(* key-by-key description of RecoveryManager with.                         *)
(***************************************************************************)
EXTENDS RecoveryManager, SequencesExt

ApplyRecord(contents, r) ==
  IF r.op_type \in {"Put", "Delete"} THEN [contents EXCEPT ![r.key] = r.value]
                                     ELSE contents

\* One group after the other, each in record order.
ReplayGroups(recs, groups, contents) ==
  FoldLeft(LAMBDA c, t : FoldLeft(ApplyRecord, c,
                                  SelectSeq(recs, LAMBDA r : r.txn_id = t)),
           contents, groups)

LoopOutcomes(recs, contents) ==
  {ReplayGroups(recs, order, contents) : order \in SetToSeqs(committed_txns(recs))}
===========================================================================
