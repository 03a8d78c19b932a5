-------------------------- MODULE WALManagerSpec --------------------------
(***************************************************************************)
(* The log of WALManager as a system of its own: a process that opens it,  *)
(* appends, clears it, meets write errors and is killed at any point, any  *)
(* number of times.                                                        *)
(***************************************************************************)
EXTENDS WALManager

CONSTANTS Requests,  \* the records callers ask to append
          MaxLsn,    \* bound on the LSNs handed out
          MaxChunks, \* bound on the chunks in the file
          MaxOpens,  \* bound on the number of times the log is opened
          CanFail    \* a write of a running process may fail

ASSUME RequestAssumption == /\ Requests \subseteq Operation
                            /\ {MaxLsn, MaxChunks, MaxOpens} \subseteq Nat
                            /\ CanFail \in BOOLEAN

VARIABLES running,   \* a process holds the log open
          opens,     \* how often it was opened (for the bound)
          acked      \* the records append returned Ok for, since the last clear

vars == <<walVars, running, opens, acked>>

TypeOK == /\ WALTypeOK
          /\ running \in BOOLEAN
          /\ opens \in Nat
          /\ acked \subseteq WALRecord

Init == /\ WALInit
        /\ running = FALSE
        /\ opens = 0
        /\ acked = {}

Open == /\ ~running
        /\ opens < MaxOpens
        /\ WALNew
        /\ running' = TRUE
        /\ opens' = opens + 1
        /\ UNCHANGED acked

Room == current_lsn <= MaxLsn /\ Len(wal_file) < MaxChunks

AppendOk(op) == /\ running
                /\ Room
                /\ append(op)
                /\ acked' = acked \cup {WithLsn(op, current_lsn)}
                /\ UNCHANGED <<running, opens>>

AppendErr(op) == /\ running /\ CanFail
                 /\ Room
                 /\ AppendFails(op)
                 /\ UNCHANGED <<running, opens, acked>>

Clear == /\ running
         /\ clear
         /\ acked' = {}
         /\ UNCHANGED <<running, opens>>

ClearErr == /\ running /\ CanFail
            /\ ClearFails
            /\ acked' = IF wal_file' = <<>> THEN {} ELSE acked
            /\ UNCHANGED <<running, opens>>

\* The process ends between two calls, on purpose or not.
Exit == /\ running
        /\ running' = FALSE
        /\ UNCHANGED <<walVars, opens, acked>>

\* It ends inside an append.
Crash(op) == /\ running
             /\ Room
             /\ CrashInAppend(op)
             /\ running' = FALSE
             /\ UNCHANGED <<opens, acked>>

Next == \/ Open \/ Clear \/ ClearErr \/ Exit
        \/ \E op \in Requests : AppendOk(op) \/ AppendErr(op) \/ Crash(op)

Spec == Init /\ [][Next]_vars
---------------------------------------------------------------------------
(* What a reader gets back is in LSN order, and while a process runs the   *)
(* LSN it will use next is larger than every one it could read: recovery   *)
(* after several crashes never meets two records with one LSN, although    *)
(* new() restarts the counter from what it can read (wal.rs:221-248) and a *)
(* failed append has already counted (wal.rs:252-254).                     *)
LsnIncreasing ==
  LET n == ReadableLen(wal_file)
  IN  /\ \A i, j \in 1 .. n : i < j => wal_file[i].lsn < wal_file[j].lsn
      /\ running => \A i \in 1 .. n : wal_file[i].lsn < current_lsn

(* No step but clear takes back or changes a record that could be read:    *)
(* an append, a failed one and a crash inside one only add at the end      *)
(* (wal.rs:251-260, disk_manager.rs:142-147).                              *)
PrefixStable ==
  [][\/ wal_file' = <<>>
     \/ /\ ReadableLen(wal_file) <= ReadableLen(wal_file')
        /\ \A i \in 1 .. ReadableLen(wal_file) : wal_file'[i] = wal_file[i]]_vars

(* An acknowledged record that a reader does not get back lies behind the  *)
(* remains of an append that did not finish; there is no other way to lose *)
(* one before the log is cleared.                                          *)
LostOnlyBehindTear ==
  \A r \in acked : \E i \in 1 .. Len(wal_file) :
     /\ wal_file[i] = r
     /\ i > ReadableLen(wal_file) => \E j \in 1 .. i : wal_file[j] = Torn

(* README.md promises that data can be recovered after a crash: every      *)
(* record whose append returned Ok is read back.                           *)
AckedReadable ==
  \A r \in acked : \E i \in 1 .. ReadableLen(wal_file) : wal_file[i] = r
===========================================================================
