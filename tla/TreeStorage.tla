----------------------------- MODULE TreeStorage ---------------------------
(***************************************************************************)
(* The tree of BPlusTree in its files, and the processes that open them.   *)
(* The .db file gets pages one by one, by evictions at any time and by a   *)
(* flush; the .meta file names the root and src/btree.rs writes it where   *)
(* the root changes, truncating it first and never syncing it.  After a    *)
(* kill or a power loss the next process opens what the files have,        *)
(* replays the log and may scan the tree.                                  *)
(*                                                                         *)
(* A call of the running process is one step.  versions keeps what each    *)
(* page had since the last flush, also in the middle of a call, so that a  *)
(* stop inside a call is a stop after it that finds older pages.  A call   *)
(* is a transaction of its own: it is logged before the tree changes and   *)
(* committed, without a flush, behind it.                                  *)
(***************************************************************************)
EXTENDS BPlusTree

CONSTANT MaxRedo   \* bound on the logged operations: no call beyond

ASSUME StorageAssumption == MaxRedo \in Nat

VARIABLES versions,      \* the nodes a page of the .db file may be found with
          meta_root,     \* the root as .meta has it while the machine is up
          meta_roots,    \* every root .meta ever had: none of them is synced
          lineage,       \* the roots since the tree was empty (history)
          redo,          \* the <<key, value>> of the committed calls in the log
          last,          \* what was before the call no other followed, and its key
          restructured,  \* since the last flush a call changed several pages (history)
          since,         \* the values each key had at and since it (history)
          rewritten,     \* the log has a key twice (history)
          phase,         \* running, recovering, scanning or done
          stop,          \* how the process ended (history)
          todo,          \* what recovery has not replayed yet
          holes,         \* pages that were allocated but never reached the file (history)
          scan_page      \* the leaf a scan is at

fileVars == <<versions, meta_root, meta_roots>>
logVars == <<redo, rewritten>>
noteVars == <<lineage, last, restructured, since>>
nextVars == <<phase, stop, todo, holes, scan_page>>
storageVars == <<fileVars, logVars, noteVars, nextVars>>

NoCall == [root |-> None, key |-> None, redo |-> {}]

StorageInit == /\ Init
               /\ versions = [p \in PageIds |-> {Zeroed}]
               /\ meta_root = None
               /\ meta_roots = {None}
               /\ lineage = {}
               /\ redo = {}
               /\ last = NoCall
               /\ restructured = FALSE
               /\ since = [k \in Keys |-> {None}]
               /\ rewritten = FALSE
               /\ phase = "running"
               /\ stop = None
               /\ todo = {}
               /\ holes = {}
               /\ scan_page = None
---------------------------------------------------------------------------
(* The running process.                                                    *)

\* What the files may be found with after a call of this outcome.
Written(k, v, st) ==
  /\ versions' = [p \in PageIds |-> versions[p] \cup st.written[p]]
  /\ meta_root' = st.root
  /\ meta_roots' = meta_roots \cup {st.root}
  /\ redo' = redo \cup {<<k, v>>}
  /\ lineage' = IF st.root = None THEN {} ELSE lineage \cup {st.root}
  /\ last' = [root |-> root_page_id, key |-> k, redo |-> redo]
  /\ restructured' = \/ restructured
                     \/ st.root # root_page_id
                     \/ Cardinality({p \in PageIds : st.pages[p] # pages[p]}) > 1
  /\ since' = [since EXCEPT ![k] = @ \cup {v}]
  /\ rewritten' = (rewritten \/ \E e \in redo : e[1] = k)

Call(k, v, st) ==
  /\ phase = "running" /\ Calm
  /\ Cardinality(redo) < MaxRedo
  /\ Returns(k, v, st)
  /\ Written(k, v, st)
  /\ UNCHANGED nextVars

StoragePut(k, v) == RoomToSplit(k) /\ Call(k, v, insert(St, k, v))
StorageDelete(k) == Call(k, None, remove(St, k))

\* Variant: a flush that syncs the file and writes nothing.
FlushOnlySyncs == /\ restructured' = FALSE
                  /\ since' = [k \in Keys |-> {contents[k]}]
                  /\ last' = NoCall
                  /\ UNCHANGED <<vars, versions, meta_root, meta_roots, lineage>>

\* Every page reaches the file; .meta is left to the system.
Flushed == /\ versions' = [p \in PageIds |-> {pages[p]}]
           /\ restructured' = FALSE
           /\ since' = [k \in Keys |-> {contents[k]}]
           /\ last' = NoCall
           /\ UNCHANGED <<vars, meta_root, meta_roots, lineage>>

\* The commit or rollback of a transaction that changes nothing more.
flush_all == /\ phase = "running"
             /\ Flushed
             /\ UNCHANGED <<logVars, nextVars>>

\* And the next process opens the files: nothing to replay.
close == /\ phase = "running"
         /\ Flushed
         /\ redo' = {}
         /\ rewritten' = FALSE
         /\ UNCHANGED nextVars
---------------------------------------------------------------------------
(* The end of it, and the next process.                                    *)

\* One version of each page: evictions wrote it and none after it.
Mixes == LET mix[n \in 0 .. MaxPages] ==
               IF n = 0 THEN {<<>>}
               ELSE {Append(m, node) : m \in mix[n - 1], node \in versions[n - 1]}
         IN  {[p \in PageIds |-> m[p + 1]] : m \in mix[MaxPages]}

\* BPlusTree::new with what .meta has.  Of the files nothing else is left.
Opens(root) ==
  /\ phase' = "recovering"
  /\ root_page_id' = root
  /\ pages' \in Mixes
  /\ holes' = {p \in PageIds : p < next_page_id /\ pages'[p] = Zeroed}
  /\ versions' = [p \in PageIds |-> {pages'[p]}]
  /\ meta_root' = root
  /\ meta_roots' = {root}
  /\ last' = NoCall
  /\ UNCHANGED <<next_page_id, pin_count, merges, contents, failures, four_pinned,
                 stray_write, lineage, restructured, since, scan_page>>

\* Between two calls, or behind the Commit record of the last one.
Kill == /\ phase = "running"
        /\ Opens(meta_root)
        /\ todo' = redo
        /\ stop' = "kill"
        /\ UNCHANGED <<logVars, doubt>>

\* The last call is not committed yet; .meta may not be written, or be empty.
KillInCall == /\ phase = "running"
              /\ last # NoCall
              /\ \E root \in {meta_root, last.root}
                             \cup IF last.root # meta_root THEN {None} ELSE {} :
                   Opens(root)
              /\ redo' = last.redo
              /\ todo' = last.redo
              /\ UNCHANGED rewritten
              /\ stop' = "kill"
              /\ doubt' = {last.key}

\* Nothing but .meta is left to lose: any root it ever had, or none.
PowerLoss == /\ phase = "running"
             /\ redo = {} /\ last = NoCall
             /\ \E root \in meta_roots : Opens(root)
             /\ stop' = "power"
             /\ UNCHANGED <<logVars, todo, doubt>>

Replay(op, st) ==
  /\ phase = "recovering"
  /\ todo' = todo \ {op}
  /\ Becomes(st)
  /\ UNCHANGED <<contents, failures, doubt, four_pinned, stray_write,
                 fileVars, logVars, noteVars, phase, stop, holes, scan_page>>

\* Variant: only puts are replayed.
RedoPuts(op) == IF op[2] = None THEN Replay(op, St)
                ELSE Room(op[1]) /\ Replay(op, insert(St, op[1], op[2]))

\* The log's groups come in any order.
Redo(op) == IF op[2] = None THEN Replay(op, remove(St, op[1]))
            ELSE Room(op[1]) /\ Replay(op, insert(St, op[1], op[2]))

\* range_scan of all keys, a leaf at a time.  Of the history before it, what
\* no property asks for any more is dropped.
ScanStart == /\ phase = "recovering" /\ todo = {}
             /\ IF root_page_id = None THEN phase' = "done" /\ UNCHANGED scan_page
                ELSE /\ phase' = "scanning"
                     /\ scan_page' = find_leaf(St, root_page_id, LeastKey)
             /\ lineage' = {}
             /\ since' = [k \in Keys |-> {}]
             /\ UNCHANGED <<vars, fileVars, logVars, last, restructured, stop, todo, holes>>

ScanStep == /\ phase = "scanning"
            /\ scan_page' = LET leaf == read_node(St, scan_page)
                            IN  IF leaf.node_type = "Leaf" THEN leaf.next_leaf ELSE None
            /\ phase' = IF scan_page' = None THEN "done" ELSE "scanning"
            /\ UNCHANGED <<vars, fileVars, logVars, noteVars, stop, todo, holes>>

StorageNext == \/ \E e \in Entries : StoragePut(e[1], e[2])
               \/ \E k \in Keys : StorageDelete(k)
               \/ flush_all \/ close
               \/ Kill \/ KillInCall \/ PowerLoss
               \/ \E op \in todo : Redo(op)
               \/ ScanStart \/ ScanStep

StorageSpec == StorageInit /\ [][StorageNext]_<<vars, storageVars>>

\* The loop of a scan goes on by itself until it returns.
FairSpec == StorageSpec /\ WF_<<vars, storageVars>>(ScanStep)
---------------------------------------------------------------------------
Found(k) == search(St, root_page_id, k)
Opened == phase = "recovering" /\ todo = redo
Recovered == phase = "recovering" /\ todo = {}

(* After a kill each key has a value it had at the last flush or since,    *)
(* whichever pages were written in between - if since that flush every     *)
(* call changed one page only.  Recovery replays the keys that changed, so *)
(* this is what it needs of the rest (btree.rs:238-261,                    *)
(* buffer_pool.rs:188-206, 229-257).                                       *)
KillKeepsValues ==
  stop = "kill" /\ Opened /\ ~restructured /\ merges = 0 =>
     \A k \in Keys : Found(k) \in since[k]

(* And what recovery makes of such files is the map the callers know, but  *)
(* for the key of a call that was cut off: the replay splits and borrows   *)
(* in a tree of pages from different moments, in any order of the log's    *)
(* groups, and search and scan agree on the outcome (recovery.rs:61-90).   *)
(* Only one operation a key: the order of two is not kept.                 *)
RecoveredExactly ==
  stop = "kill" /\ Recovered /\ ~restructured /\ ~rewritten /\ merges = 0 =>
     /\ \A k \in Keys \ doubt : Found(k) = contents[k]
     /\ \E v \in {None} \cup {e[2] : e \in Entries} : \E k \in Keys :
          range_scan(St, root_page_id, LeastKey, GreatestKey) =
            Everything([contents EXCEPT ![k] = IF k \in doubt THEN v ELSE @])

(* After a power loss that takes .meta back to any root the tree has had   *)
(* since it was last empty, a full scan still lists everything, although   *)
(* search from there does not: each of them is on the way from the root to *)
(* the first leaf (btree.rs:238-261, 756-794).                             *)
StaleRootScans ==
  stop = "power" /\ phase = "recovering" /\ root_page_id \in lineage =>
     range_scan(St, root_page_id, LeastKey, GreatestKey) = Everything(contents)

(* A scan of what a kill or a power loss left, and recovery made of it,    *)
(* ends, unless it comes to a page that was allocated and had not reached  *)
(* the file, or a merge has passed on what such a page has for a           *)
(* neighbour: the leaves of different moments never link in a circle       *)
(* (btree.rs:399-409, 765-791).                                            *)
ScanEnds ==
  phase = "scanning" /\ (merges = 0 \/ holes = {}) ~> phase = "done" \/ scan_page \in holes

(* README.md:9: data can be recovered after a crash.  A key nobody touched *)
(* since the last flush is in no log that was begun after it, so the files *)
(* alone have to keep it.                                                  *)
UntouchedSurvives ==
  stop = "kill" /\ Opened /\ merges = 0 =>
     \A k \in Keys : Cardinality(since[k]) = 1 => Found(k) \in since[k]
===========================================================================
