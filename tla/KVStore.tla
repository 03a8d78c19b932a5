------------------------------ MODULE KVStore -----------------------------
(***************************************************************************)
(* What README.md promises of the engine, without logs, pages or recovery: *)
(* a map that changes only by whole writes and whole transactions, one     *)
(* transaction at a time, and that a stop leaves as it is - except that a  *)
(* call that was just being made durable may count or not.                 *)
(***************************************************************************)
CONSTANTS Keys, Values, Absent,
          NoWork   \* no transaction is open

VARIABLES store,      \* the committed contents
          work,       \* the contents the open transaction sees
          inflight,   \* contents a commit or a single write is installing
          up

vars == <<store, work, inflight, up>>

Contents == [Keys -> Values \cup {Absent}]

Init == /\ store = [k \in Keys |-> Absent]
        /\ work = NoWork
        /\ inflight = {}
        /\ up = FALSE

Ready == up /\ inflight = {}

\* A put or delete outside a transaction.
Write(k, v) == /\ Ready /\ work = NoWork
               /\ inflight' = {[store EXCEPT ![k] = v]}
               /\ UNCHANGED <<store, work, up>>

Begin == /\ Ready /\ work = NoWork
         /\ work' = store
         /\ UNCHANGED <<store, inflight, up>>

TxnWrite(k, v) == /\ Ready /\ work # NoWork
                  /\ work' = [work EXCEPT ![k] = v]
                  /\ UNCHANGED <<store, inflight, up>>

Commit == /\ Ready /\ work # NoWork
          /\ inflight' = {work}
          /\ work' = NoWork
          /\ UNCHANGED <<store, up>>

Done == /\ up
        /\ \E c \in inflight : store' = c
        /\ inflight' = {}
        /\ UNCHANGED <<work, up>>

Rollback == /\ Ready /\ work # NoWork
            /\ work' = NoWork
            /\ UNCHANGED <<store, inflight, up>>

Stop == /\ up
        /\ store' \in {store} \cup inflight
        /\ work' = NoWork
        /\ inflight' = {}
        /\ up' = FALSE

Start == /\ ~up
         /\ up' = TRUE
         /\ UNCHANGED <<store, work, inflight>>

Next == \/ \E k \in Keys, v \in Values \cup {Absent} : Write(k, v) \/ TxnWrite(k, v)
        \/ Begin \/ Commit \/ Done \/ Rollback \/ Stop \/ Start

Spec == Init /\ [][Next]_vars
===========================================================================
