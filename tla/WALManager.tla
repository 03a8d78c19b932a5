---------------------------- MODULE WALManager ----------------------------
(***************************************************************************)
(* The write-ahead log of src/wal.rs over the .wal file of                 *)
(* src/disk_manager.rs.  The file is a sequence of whole records and of    *)
(* Torn chunks: bytes at which WALRecord::deserialize fails, left by an    *)
(* append that did not finish.  Readers stop at the first Torn chunk       *)
(* because a record's length is only known from the record itself.         *)
(*                                                                         *)
(* This module holds the state and the operations.  WALManagerSpec closes  *)
(* them into a system of their own, KVEngine composes them with the        *)
(* transaction manager.                                                    *)
(***************************************************************************)
EXTENDS Naturals, Sequences

CONSTANTS Keys,     \* the keys a caller may use
          Values,   \* the values a caller may store
          Absent,   \* "no value": the None of Option<Vec<u8>>
          NoKey,    \* the empty key field of Commit and Rollback records
          Torn      \* bytes of an unfinished append

OpTypes == {"Put", "Delete", "Commit", "Rollback"}

\* What a caller hands to append: the record before its LSN is filled in.
Operation == [txn_id : Nat, op_type : OpTypes,
              key : Keys \cup {NoKey}, value : Values \cup {Absent}]

WALRecord == [lsn : Nat, txn_id : Nat, op_type : OpTypes,
              key : Keys \cup {NoKey}, value : Values \cup {Absent}]

ASSUME WALAssumption == /\ Absent \notin Values
                        /\ NoKey \notin Keys
                        /\ Torn \notin WALRecord

VARIABLES wal_file,     \* the chunks of the .wal file, oldest first
          current_lsn   \* the LSN the next append will use

walVars == <<wal_file, current_lsn>>

WALTypeOK == /\ wal_file \in Seq(WALRecord \cup {Torn})
             /\ current_lsn \in Nat \ {0}

WALInit == wal_file = <<>> /\ current_lsn = 1
---------------------------------------------------------------------------
(* Reading.  WALManager::new and recover read from offset 0 and break at   *)
(* the first record that does not deserialize.                             *)

ReadableLen(file) ==
  CHOOSE n \in 0 .. Len(file) :
     /\ \A i \in 1 .. n : file[i] # Torn
     /\ n < Len(file) => file[n + 1] = Torn

recover(file) == SubSeq(file, 1, ReadableLen(file))

\* Variant: the counter starts at the largest LSN instead of behind it.
NextLsnNotAdvanced(file) ==
  LET lsns == {0} \cup {recover(file)[i].lsn : i \in 1 .. ReadableLen(file)}
  IN  CHOOSE m \in lsns : \A l \in lsns : l <= m

\* The LSN new() starts from: one more than the largest readable one.
NextLsn(file) ==
  LET lsns == {0} \cup {recover(file)[i].lsn : i \in 1 .. ReadableLen(file)}
  IN  1 + CHOOSE m \in lsns : \A l \in lsns : l <= m

\* Variant: the log is opened with truncate.
WALNewTruncates == wal_file' = <<>> /\ current_lsn' = NextLsn(wal_file)

\* new() leaves the file as it is: an unreadable tail is not cut off.
WALNew == /\ current_lsn' = NextLsn(wal_file)
          /\ UNCHANGED wal_file
---------------------------------------------------------------------------
(* Appending.  The LSN is taken and counted before the write, so a failed  *)
(* append uses it up.                                                      *)

WithLsn(op, lsn) == [lsn |-> lsn, txn_id |-> op.txn_id, op_type |-> op.op_type,
                     key |-> op.key, value |-> op.value]

\* Variant: Ok without the sync, so that the record may never get there.
AppendUnsynced(op) ==
  /\ wal_file' \in {wal_file, Append(wal_file, WithLsn(op, current_lsn))}
  /\ current_lsn' = current_lsn + 1

\* Variant: the file is not opened for appending.
AppendOverwrites(op) ==
  /\ wal_file' = <<WithLsn(op, current_lsn)>> \o SubSeq(wal_file, 2, Len(wal_file))
  /\ current_lsn' = current_lsn + 1

\* append returned Ok: write_all and sync_all both succeeded.
append(op) == /\ wal_file' = Append(wal_file, WithLsn(op, current_lsn))
              /\ current_lsn' = current_lsn + 1

\* What an unfinished append leaves in the file: nothing, part of the
\* record, or all of it (only the sync or the return was missed).
Unfinished(op) == {wal_file, Append(wal_file, Torn),
                   Append(wal_file, WithLsn(op, current_lsn))}

\* Variant: the LSN is counted only when the write succeeded.
AppendFailsUncounted(op) == wal_file' \in Unfinished(op) /\ UNCHANGED current_lsn

\* append returned Err from write_wal and the process goes on.
AppendFails(op) == /\ wal_file' \in Unfinished(op)
                   /\ current_lsn' = current_lsn + 1

\* The process or the machine stopped inside append.
CrashInAppend(op) == /\ wal_file' \in Unfinished(op)
                     /\ UNCHANGED current_lsn

\* clear truncates the file and leaves current_lsn alone.
clear == wal_file' = <<>> /\ UNCHANGED current_lsn

\* set_len or the sync after it failed.
ClearFails == wal_file' \in {wal_file, <<>>} /\ UNCHANGED current_lsn
===========================================================================
