--------------------------- MODULE MCWALManager ---------------------------
(* A small instance of WALManagerSpec.  The log treats what it is asked to *)
(* append as opaque, so one request is enough.                             *)
EXTENDS WALManagerSpec

MCRequests == {[txn_id |-> 1, op_type |-> "Put", key |-> k, value |-> v] :
                 k \in Keys, v \in Values}
===========================================================================
