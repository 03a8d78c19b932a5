# Models and proofs for Key-Value DB

TLA+ modules, TLC configurations and TLAPS proofs for the storage engine in
`src/src/*.rs`: an embedded key-value store with a B+ tree over a buffer pool,
a redo log, one transaction at a time and recovery at open. Everything in the
program runs on one thread. What is hard about it is not interleaving of
threads but where a call can be cut off: a kill between two writes, an I/O
error that `?` passes up from the middle of a call, pages that reach the file
in an order nobody chose, and `HashMap` orders that differ from run to run.

Parse with `tlasany M.tla`, check with `tlc -config X.cfg M`, prove with
`tlapm M.tla`.

## 1. The system

| Part | Source | State | Operations | What makes it correct |
|---|---|---|---|---|
| Disk manager | `disk_manager.rs` | `.db` and `.wal` file handles, `next_page_id` | `read_page` (extends the file), `write_page` (no sync), `alloc_page`, `fsync`, `read_wal`, `write_wal` (append + sync), `clear_wal` | a page reads back what was written last; a synced page survives a power loss |
| Buffer pool | `buffer_pool.rs` | `frames`, `lru_order`, pin counts, dirty flags | `fetch_page`, `create_page`, `write_page_data`, `unpin`, `flush_page`, `flush_all`, `evict`, `shutdown` | readers cannot tell that it is there; clean frames equal the file; pinned frames stay |
| B+ tree | `btree.rs` | nodes on pages, `root_page_id`, the `.meta` file | `search`, `insert`, `remove`, `range_scan`, `flush_all`, `save_metadata` | it is a map; scans follow the leaf chain in key order; balance |
| Log | `wal.rs` | `.wal` file, `current_lsn` | `new`, `append`, `recover`, `clear` | what was acknowledged is read back, in LSN order |
| Recovery | `recovery.rs` | none of its own | `recover_from_wal` | committed writes are there, others are not; can be repeated |
| Transactions | `transaction.rs` | `current_txn` (operations, snapshot), `next_txn_id` | `begin`, `commit`, `rollback`, `record_operation`, `get_uncommitted`, `auto_txn_id` | all or nothing; a rollback is exact |
| Engine | `kv_engine.rs` | `is_open`, the transaction manager | `open`, `put`, `get`, `delete`, `scan`, `prefix_scan`, `begin`, `commit`, `rollback`, `close` | the API behaves as one atomic map, through kills and reopens |
| Page | `page.rs` | page with a CRC | `serialize`, `deserialize` | (called by no other module) |
| REPL, errors | `repl.rs`, `main.rs`, `error.rs`, `lib.rs` | none that matters | text in, engine calls, text out | - |

How they interact: the engine calls the transaction manager, which owns the
log and the tree; the tree owns the pool; the pool owns the disk manager of
the `.db` file. The log has a disk manager of its own (`kv_engine.rs:51`). All
are plain calls that return `Result`; there are no callbacks, threads or
timers. At `open` recovery borrows the log and the tree, replays and flushes.

A transaction works in place: `record_operation` keeps the old value of the
key, puts the record on the transaction's list, appends it to the log, and
then changes the tree. `commit` appends a Commit record and flushes.
`rollback` puts the old values back, appends a Rollback record and flushes.
A put or delete outside a transaction is a record, a change and a Commit
record under an id of its own, without a flush.

## 2. Modules

| Module | Models | Built on |
|---|---|---|
| `WALManager` | state and operations of the log; the file is a sequence of records and `Torn` chunks | |
| `WALManagerSpec` | the log as a closed system with restarts, errors, kills | `WALManager` |
| `RecoveryManager` | the outcomes of `recover_from_wal` for a list of records | `WALManager` |
| `RecoveryLoop` | the same as the loop is written, for comparison | `RecoveryManager` |
| `TransactionManager` | state and operations of `transaction.rs` | `RecoveryManager` |
| `KVEngine` | every engine call, in steps; kills, evictions, I/O errors, recovery | `TransactionManager` |
| `KVStore` | abstract specification of the engine | |
| `KVEngineProperties` | its properties and the refinement mapping to `KVStore` | `KVEngine` |
| `BPlusTree` | the tree: splits, borrowing, merging, scans; the pins its calls take; calls that fail | |
| `TreeStorage` | the tree in its two files, written page by page; kills, power losses, recovery into it, a scan leaf by leaf | `BPlusTree` |
| `ByteKeys` | the order of byte strings and the range of a prefix | |
| `LeafPage` | a leaf and its bytes: what does not fit the page; the engine's size limits and prefix scans over it | `ByteKeys` |
| `BufferPool` | pool and data file, with errors, kills, power losses | |
| `PageStore` | abstract specification of the pool | |
| `MC...` | values for TLC | |
| `NaturalOrder`, `WALManagerLemmas` | lemmas | |
| `WALManager_proofs`, `BPlusTree_proofs`, `BufferPool_proofs`, `LeafPage_proofs` | the theorems about a component | |
| `BPlusTreeSearch_proofs` | what search finds in the tree | `BPlusTree_proofs` |
| `KVEngine_proofs` | the theorems about the engine: its types, its undo, kills and recoveries | `WALManagerLemmas` |

### How state and actions correspond to the code

*Log.* `wal_file` and `current_lsn` are the file and the field. A record is in
the file whole, or a `Torn` chunk is there: bytes at which
`WALRecord::deserialize` fails. `append` is the successful call; `AppendFails`
and `CrashInAppend` leave nothing, part of the record, or all of it. The LSN is
taken before the write, so a failed append uses one up (`wal.rs:252-254`).
`recover` and `NextLsn` stop at the first `Torn`, because the length of a
record is only known from the record (`wal.rs:232-243`).

*Engine.* `pc` is where the running call is; each action is the code between
two points at which the process can be killed or an error can surface: the
appends, the change to the tree, the flush, the clearing of the log. `tree` is
what the tree in the pool holds and `disk` what the `.db` and `.meta` files
represent, both as maps from keys to values. `Steal` is an eviction, or one
page of a flush under way, that writes a key early. `Crash` is possible at
every `pc`, `CrashAppending` inside every append. `Open` reads the tree on
disk, restarts the LSNs from the log and the ids from 1, and chooses any
outcome of the replay. `ApplyMerges`, `RestoreMerges` and `OpenMerges` are the
removes that merge two nodes: any keys may then be out of reach of a search.
`LogFails`, `ApplyFails`, `RestoreFails`, `FlushFails`,
`CloseFails`, `TxnMisread` and `OpenKeeps` are the error paths, including the
errors the code ignores (`let _ = btree.remove(..)` in rollback,
`record_operation` and recovery; `.ok()?` in `search`).

*Tree.* The methods are operators over a record `st` of the pages, the root and
the pins. Those that call themselves go down one path and come back along it:
`Path` is the way down, and in `insert_recursive` and `remove_recursive`
`Back[n]` is what the call for the page `n` above the leaf returns to the one
above it. `rebalance` calls itself last, through `merge_nodes`, so `Round[n]` is
its `n`-th call. No path is longer than there are pages. The order of borrowing
from the left, from the right, merging to the left and to the right, and the
descent into grandparents is the code's. `deserialize` models what an internal node that was written with
a child too few is read back as, which decides what happens after a merge.
`insert` and `remove` are whole calls, since nothing runs beside them.

`fetch` and `create_page` pin a page and `release_node` unpins it, at the places
where the code does. Whenever a fetch, a page creation or the write of `.meta`
may fail, `MayFail` adds the state at that moment to `st.cuts`; `PutFails` and
`DeleteFails` are the calls that end in one of these states, with the error
passed up by `?` through all levels. What was written stays, the pins of the
levels that were cut off stay too. `written` collects every version of a page
that a call passes through, `held` how many pins it has; `four` and `stray` note
whether these were ever more than three, or it wrote to a page it had not
pinned.

*Tree in its files.* A call is one step here as well, and `versions` keeps every
node each page has had since the last flush, those in the middle of a call
included. A page may have been evicted after any of its writes, so what a stop
leaves in the `.db` file is any choice of one version of each page (`Mixes`).
`Kill` is a stop behind the Commit record of a call, `KillInCall` one inside it:
the call is not in the log then, and `.meta` has the root before it, the one
after it, or is empty, because `std::fs::write` truncates before it writes.
`PowerLoss` comes behind a clean `close` and takes `.meta`, which nobody syncs,
back to any root it ever had. Then the next process has the root of `.meta` and
the pages found: `Redo` replays the log's operations in any order into that
tree, and `ScanStart` and `ScanStep` are the loop of `range_scan`, one leaf a
step.

*Page format.* `LeafPage` is the engine over a tree of one leaf. Keys are byte
strings, a value is the key it was put with and its size. `write_node` keeps the
4088 bytes that the page has for a node; `deserialize` takes keys and values as
long as they are whole, and where the last key has lost its value but the four
bytes behind it are still in the page, these zeros are the length of an empty
value. An index past the values is a `Panic`, after which nothing happens.
`Put` has the two size limits of the engine. `compute_prefix_end` is as written.

*Pool.* One action for each way a call can end. `unsynced` is what the file may
fall back to when the machine stops, page by page. `file` has no pages missing
before its end. Callers may keep pages pinned, write to them and flush in any
order.

### Abstractions

- Keys, values and page contents are members of small sets. In `BPlusTree` a
  node has no size in bytes; `LeafPage` has sizes, but one leaf only.
- In `BPlusTree` only one call of a history fails, and none behind a merge. A
  call that fails in `search` or `range_scan` is left out: they change nothing,
  and give back no page on their way out.
- In `KVEngine` the tree is a map, which `get` (through `search`) and `scan`
  (through `range_scan`) read alike. In the code they do so until two nodes are
  merged (`FindsExactly` and `ScansExactly` of `BPlusTree`, and the finding
  `btree_merge`). So a remove may merge here at any time (`CanMerge`), takes any
  keys out of reach, taints the run, and is the last step to touch the tree: the
  bound `TreeIsMap` keeps every later call from starting, but for begin, commit
  and close, which do not look at it. What the calls behind a merge do to the
  tree is the business of `BPlusTree`.
- That an `insert` that fails half-way through a split takes other keys with it
  is an outcome of `AfterFailedApply`; that a stop finds files whose pages do not
  fit together is an outcome of `FilesAtStop`, at any stop with a log that is not
  empty: two trees that are the same map may lie on different pages, so that the
  maps say nothing of what is still to be written. Pages change only behind a
  record in the log, and the log is cleared only when all of them are written.
  `TreeStorage` is the module that says when the files do fit.
- Intermediate values that one replay writes and overwrites again do not get
  to `disk`; the next replay writes every such key again, so they cannot be
  seen after it.
- `last_access`, `TxnState` and the recovery statistics, which are written and
  not read, are left out.
- A page write is one step: pages are not torn.

### Clean runs

The design does not cope with some events, and several properties would fail
at once without an assumption on them. Rather than leave such events out of
the model, the engine records them in `taints`, and a property says which it
excludes. `Clean` is the empty set. The taints are: an uncommitted change
evicted to the file (`steal`), `close` inside a transaction (`close_in_txn`),
a replay in another than log order that changed the result (`reordered`), an
id handed out that still has records in the log (`id_reuse`), an append behind
a torn one (`append_after_tear`), any I/O error (`io_error`) with its
consequences `restore_failed`, `torn_split` and `misread`, files that did
not fit together at a stop (`torn_tree`), and a remove that merged two nodes
(`merge`). The findings below show that the
first few are real losses; the rest of this section lists those that have no
run of their own.

- `evict` writes pages of an open transaction to the file
  (`buffer_pool.rs:246`), and recovery only redoes: after a kill the uncommitted
  change stays, although `README.md:11` of the program says that uncommitted
  transactions are undone (`Steal`, then `Crash`).
- `commit` takes the transaction out of `current_txn` before its record is
  written (`transaction.rs:77`). If the write fails, the changes stay in the
  tree, `rollback` answers `NoActiveTransaction`, and the next flush makes them
  permanent (`LogFails` at `commit_log`).
- `close` inside a transaction flushes its writes and clears the log
  (`kv_engine.rs:274-284`).
- A page that cannot be read while the old value of a key is looked up becomes
  "the key does not exist" in the snapshot (`btree.rs:312`,
  `transaction.rs:153`), and rollback then removes the key.
- `flush_page` does not sync, although its comment says so
  (`buffer_pool.rs:187-192`). `flush_all` does, which is why `PageStore` only
  promises that a page survives since the last `flush_all`.
- A page that was allocated and never written reads as an empty leaf whose
  neighbour is page 0 (`btree.rs:132-141`). After a kill inside a leaf split a
  scan that gets to one goes back to page 0, and from there round again for
  ever. `ScanEnds` excepts such pages, and a merge in the replay, which can take
  over the neighbour such a page has.
- A `.meta` file that is empty, because the process was killed between its
  truncation and its write, is taken for an empty tree (`btree.rs:242-251`).
- After a leaf was cut off at the end of its page (`btree.rs:285`), entries are
  gone without an error, a key that lost its value has an empty one once the
  leaf is shorter, and until then a scan that reaches it, a put that updates it
  or a delete that removes it indexes past the values and panics. It takes two
  entries that `put` accepts, or one with a long key and a long value.
- A prefix scan for the empty prefix, or one that ends in 0xFF, misses keys
  (`kv_engine.rs:225-239`), although it is documented to find all of them
  (`kv_engine.rs:210`).
- LSNs start again at 1 after `close` and a reopen, although they are
  documented to grow globally (`wal.rs:33`); what recovery needs, an order
  within one log file, is `LsnIncreasing`.

## 3. Runs

Each run has a configuration of its name. Deadlock is not checked anywhere:
every system here stops when its bounds are used up.

| Run | Question | Bounds |
|---|---|---|
| `wal_manager` | Is what the log gives back ordered and stable, and lost only behind a tear? | 3 opens, LSNs up to 3, 4 chunks (more than LSNs: a restart behind a tear hands some out again) |
| `engine_crash` | Do log and disk hold the committed writes at every moment? Does the engine implement `KVStore`? | 2 keys, 1 value and its absence, 4 log records, 2 opens, 2 kills, evictions at will, one remove that merges |
| `engine_io_errors` | Can a transaction always be undone exactly? On how many keys do get and scan differ? | 2 keys, 3 log records, 2 opens, 1 kill, 2 failing file operations, one remove that merges |
| `btree` | Is the tree a map, its chain in order, its shape right? What does a call that fails leave, and which pins? | order 3, 5 keys with one value each, 7 pages; calls end at the second merge, or after one failing call and one merge |
| `tree_kill` | What do the files hold after a kill or a power loss, and what do recovery and a scan make of it? | order 3, 4 keys with one value each, 7 pages, 2 operations in the log, 1 merge, 1 stop |
| `page_format` | What does a leaf that does not fit its page lose? Which keys does a prefix scan find? | 6 keys of up to two bytes, the empty one included, values of 1, 2029, 4060 and 4061 bytes, 8 prefixes |
| `buffer_pool` | Is the pool with its file a plain store of pages? | 3 pages, 2 frames, 2 contents, 2 pins, 1 I/O error, 1 stop |

Why the bounds are enough for the cases that matter:

- *Engine.* Four records hold a transaction with two writes and its Commit, or
  two writes outside a transaction, or an unfinished transaction followed,
  after a restart, by a commit under the same id. Two keys let a transaction
  touch one key twice and another once, and let evictions write one of two.
  Two kills allow one in a call and one during the recovery from it. With two
  failures at any place instead, three records do: two writes and a Rollback, on
  keys that an earlier process left in the file. With one
  value each key has two states, which is what get, scan, undo and replay tell
  apart. The keys are symmetric: no action names one.
- *Tree.* Order 3 has the smallest nodes (one or two keys) and the shortest way
  to a third level: five keys give splits of leaves and of internal nodes,
  a root on top of them, borrowing from either side and merges of either kind
  of leaf. Seven pages hold a tree of three levels, whose leaves are then filled
  and emptied without another split. That an update replaces the value is left to
  `page_format`; here it must only not disturb anything else. The engine
  uses order 64 and the tests 4; the code has no case that depends on the order
  beyond `min_keys` and `max_keys`.
- *Tree in its files.* A flush empties neither the tree nor, if it is that of a
  commit, the log: `MaxRedo` bounds the operations since the last `close`, and
  each history may have several closes. Two operations in the log give one that
  is complete and one that is cut off, two orders of replay, and a replay that
  splits, borrows or merges in a tree of pages from different moments. With four
  keys the tree has two levels, or three pages of leaves under a root; a third
  level does not occur in this run.
- *Page format.* Two values of 2029 bytes fill a page to its last byte with a
  key of one byte and one of two, and are one byte too long with two keys of two
  bytes. A value of 4060 bytes nearly fills a page alone: with any second entry
  the leaf is cut, inside a value, inside a key or between the two. 4061 is the
  size that `put` refuses. The keys have proper prefixes and 0xFF bytes among
  them.
- *Pool.* Three pages in two frames force evictions of clean and dirty pages;
  two pins on one frame distinguish a count from a flag; a full pool of pinned
  frames is reached (`CreateFull`).

What the runs show, beyond the types:

- `LsnIncreasing`, `PrefixStable`, `LostOnlyBehindTear`: the log is sound up to
  the one weakness that a torn tail is not cut off.
- `LogComplete`: at every moment of every call, replaying the committed groups
  in log order over whatever reached the disk gives the committed contents.
- `ConflictFreeRecovery`: where no key is written by two committed groups, no
  replay order can change that.
- `RecoveryRestartable`: a kill during recovery does no harm.
- `ReplayIsFold`: on all logs a stop leaves behind, the key-by-key description
  of recovery and the loop as written agree.
- `CloseSafe`: when `close` is about to clear the log, the disk has everything.
- `OneKeyPerFailure`: `get` asks the transaction's list first, on which a write
  is before it is logged and applied, and `scan` does not. A call that fails in
  between leaves a key on which the two differ, until a later call mends it or
  commits it. The keys they differ on are never more than the file operations
  that failed: no rollback, recovery or later write spreads the damage. It is
  checked with two failures (the case of one being the one that can go wrong with
  two keys) and proved for any number.
- `ImplementsWhileClean`: the engine's steps are steps of `KVStore`. The
  committed store is what recovery would give while the process is down, the
  tree with the open transaction undone while one is open, and the tree
  otherwise; a write outside a transaction takes effect between its record and
  its Commit record.
- `SnapshotSufficient`, `RollbackExact`: the snapshot taken at the first touch
  of a key undoes the transaction through log failures, ignored errors and any
  order of the restore loop.
- `FindsExactly`, `ScansExactly`, `ParentsAgree`, `Balanced`: the tree is right
  until the first merge. `ChainSurvivesMerge`: that merge still leaves the
  chain right. `InternalNeverShort`: because a merge of leaves removes no
  separator, internal nodes never underflow; the index into an empty list of
  children in `remove` is not reached, and the code that borrows and merges
  internal nodes (`btree.rs:587-594`, `629-635`, `683-691`, `714-722`) is not
  either, for as long as the merge stays as it is.
- `FailureKeepsChain`: wherever the first failing call breaks off, a scan still
  lists everything and has at most that call's key wrong. `FindsExactly` says
  when `search` does too: always, but for the call's key, unless half of a split
  went to a new page that its parent never heard of. The leaf and its new
  neighbour are written before anything else can fail, which is why the chain is
  the better half of the tree.
- `PinsReturned`: every path that returns `Ok` gives back each pin; one that
  returns an error keeps at most two. So it takes a series of failures to fill
  the pool, and in the engine's pool of 1000 frames at least 500.
  `ThreePinsSuffice`: no call, however many levels it splits or merges, needs
  more than three frames at once. `WritesArePinned`: no write finds its page
  evicted, so the `PageNotFound` of `write_page_data` cannot break a split in
  two.
- `KillKeepsValues`: as long as every call since the last flush changed a
  single page, a kill leaves for each key a value it had since that flush,
  which is what recovery assumes of the keys it does not replay.
  `RecoveredExactly`: and the replay, with its own splits and borrowings, makes
  of such files exactly the committed map, by search and by scan.
- `StaleRootScans`: an older root loses keys for `search`, none for a scan.
- `ScanEnds`: a scan after a kill, a power loss and a replay ends, or comes to a
  page that was allocated and never reached the file.
- `ReadsBack`: to the last byte of the page nothing is lost. `CutLosesOnly`,
  `KeysInFrontSafe`: beyond it entries get lost, behind the key that was put,
  but no key ever reads as the value of another or as an older one of its own.
- `PrefixExact`: the range of a prefix that ends in another byte than 0xFF
  misses no key, and the filter leaves no other.
- `CleanMatchesFile`, `LruListsFrames`, `PinnedStays`, `ImplementsPageStore`:
  the pool is transparent, and a failed or partial `flush_all` can be retried.

### Findings

Each is a run in which TLC finds one documented promise broken.

| Run | Promise | What the code does |
|---|---|---|
| `btree_merge` | after a merge the remaining keys are found (`openspec/specs.md:97`) | `merge_nodes` removes the child and leaves the separator |
| `wal_torn_tail` | data can be recovered after a crash (`README.md:9`) | after a kill inside an append, `WALManager::new` stops at the torn record and does not cut it off; what it acknowledges later lies behind it |
| `engine_replay_order` | the changes of a committed transaction are there (`openspec/specs.md:236`) | committed groups are replayed in `HashMap` order |
| `engine_id_reuse` | an uncommitted transaction is not visible (`openspec/specs.md:237`) | ids restart at 1 with the log kept |
| `tree_kill_split` | data can be recovered after a crash (`README.md:9`) | the pages of a split and `.meta` are written one by one, without a log of their own |

`wal_torn_tail` has `CanFail = FALSE`, so that its tear comes from a kill and is
met by `WALManager::new`. The same loss needs no kill: `write_wal` does not take
back what a failed write left in the file (`disk_manager.rs:142`), and the same
process appends behind it. `CanFail = TRUE` and `MaxOpens = 1` show that trace;
in `wal_manager`, where writes do fail, `LostOnlyBehindTear` excepts exactly what
lies behind a tear of either origin.

## 4. Fairness and liveness

The program is single-threaded and a call runs until it returns; nothing obliges
a caller to make one. So the only fairness stated is that of a loop under way:
`FairSpec` of `TreeStorage` has weak fairness of `ScanStep`, the body of the
`while` loop in `range_scan`, and `ScanEnds` says that the loop is left. Kills
are not possible in a scan here, and no other step is: nothing but the chain of
leaves can keep it from ending. The other loops of the program run over lists
that are complete before they start. `ScanEnds` fails for a tree whose leaves
link back (the mutant `split_leaf_looped`).

## 5. Proofs

Proved by TLAPS for all values of the constants, from the assumptions stated
beside them (`WALAssumption`, `RequestAssumption`, `TxnAssumption`,
`EngineAssumption`, `StoreAssumption`, `TreeAssumption`, `PoolAssumption`,
`LeafAssumption`: that markers such as `Absent`, `Torn` and `Missing` are not
values or records, that bounds are numbers, that a pool has a frame, that a
tree's order is 3 at least, and that keys are strings of bytes). No assumption
bounds anything, so the theorems hold for logs, key sets, trees, pools and
histories of any size.

| Module | Theorem | States |
|---|---|---|
| `WALManager_proofs` | `TypeCorrect` | `Spec => []TypeOK` |
| | `LsnOrder` | `Spec => []LsnIncreasing` |
| | `LossOnlyBehindTear` | `Spec => []LostOnlyBehindTear` |
| | `PrefixStability` | `Spec => PrefixStable` |
| `KVEngine_proofs` | `OrderIrrelevant` | for a list of records in which no key is written by two committed groups, every order of replay gives the contents of a replay in log order |
| | `TypeCorrect` | `Spec => []TypeOK` |
| | `SnapshotAlwaysSufficient` | `Spec => []SnapshotSufficient` |
| | `RollbackIsExact` | `Spec => RollbackExact` |
| | `CommittedSurvives` | `Spec => []LogComplete` |
| | `RecoveryInAnyOrder` | `Spec => []ConflictFreeRecovery` |
| | `LogDroppedSafely` | `Spec => []CloseSafe` |
| | `DisagreementBounded` | `Spec => []OneKeyPerFailure` |
| | `RecoveryRepeatable` | `Spec => RecoveryRestartable` |
| | `EngineImplementsStore` | `Spec => ImplementsWhileClean` |
| `BPlusTree_proofs` | `InternalNodesNeverShort` | `Spec => []InternalNeverShort` |
| | `CallsReturnPins` | `Spec => []PinsReturned` |
| | `CallsWritePinnedPages` | `Spec => []WritesArePinned` |
| | `CallsHoldThreePins` | `Spec => []ThreePinsSuffice` |
| | `ChildrenKnowTheirParents` | `Spec => []ParentsAgree` |
| | `TreeStaysBalanced` | `Spec => []Balanced` |
| `BPlusTreeSearch_proofs` | `SearchFindsExactly` | `Spec => []FindsExactly` |
| `BufferPool_proofs` | `TypeCorrect` | `Spec => []TypeOK` |
| | `CleanFramesMatch` | `Spec => []CleanMatchesFile` |
| | `LruComplete` | `Spec => []LruListsFrames` |
| | `PinsHold` | `Spec => PinnedStays` |
| | `PoolImplementsPageStore` | `Spec => ImplementsPageStore` |
| `LeafPage_proofs` | `WholeLeafReadsBack` | `Spec => []ReadsBack` |
| | `CutLosesValuesOnly` | `Spec => []CutLosesOnly` |
| | `FrontKeepsValues` | `Spec => KeysInFrontSafe` |
| | `PrefixScanExact` | `Spec => []PrefixExact` |
| | `PrefixRangeComplete` | every key with a prefix that is not empty and does not end in 0xFF is at or above it and below `compute_prefix_end` |
| | `PrefixRangeSound` | every key in that range has the prefix |

*The log.* The invariant is `Inv`: the types; the readable records are in LSN
order (`Ordered`); while a process runs the counter is above them (`Below`);
and every acknowledged record is somewhere in the file (`AckedInFile`).
`LsnIncreasing` is not inductive without the types, and `LostOnlyBehindTear`
needs `AckedInFile` and the fact that the chunk at which reading stops is
`Torn`. The steps rest on what an appended chunk does to `ReadableLen`
(`ReadableLenAppend`) and on `NextLsn` being above every readable LSN
(`NextLsnSpec`), which needs the largest element of a finite set of numbers
(`NaturalOrder`).

*The engine.* The invariant joins the types, `CallState` (which fields are in
use at which `pc`: an open transaction excludes the steps of a write outside
one, `taken` belongs to the call that took it, `undo` lists only keys the
taken transaction touched) and `SnapshotSufficient`. The second is what makes
the third inductive: without it an action of one call could run inside
another. `RollbackExact` follows, since at the end of the loop nothing is left
to undo and the undone tree is the tree.

*Kills and recovery.* `LogComplete` says that in a clean run the replay of the
log over the disk gives the committed contents, whenever the kill comes. It is
not inductive by itself, for two reasons. What a Commit record adds to a replay
depends on the records of its group that are already there: `GroupOpen` says
that the group under way is the end of the log, record by record, and that no
other record has its id. And what a flush writes depends on the tree:
`TreeState` says for every `pc` whether the tree is `committed`, the contents
behind a commit, or `committed` with the open transaction's writes (with the
one that is in the log but not in the tree yet). Together they are `Durable`,
and `DurabilityInv` is `Clean => Durable`. `Clean` can be in front of all of it
because a taint is never taken back (`CleanBefore`): what the steps show of a
clean state after them they may assume of the one before. The lemmas about the
replay say what one more record does to it: nothing, unless it is a Commit
(`LogOrderUncommitted`, `LogOrderCommit`), and that a replay over a tree that
some of its writes reached already changes nothing (`LogOrderKeeps`).

From `DurabilityInv` follow `LogComplete`, `CloseSafe` and, with
`OrderIrrelevant`, `ConflictFreeRecovery`. Two properties are not about clean
runs and have parts of their own: for `OneKeyPerFailure`, `OwnWritesShow` (the
keys whose last write by the open transaction is not in the tree, `Unapplied`,
but for that of the call under way, are no more than the file operations that
failed: only a failing call leaves one behind, `OneMoreUnapplied`, a write that
succeeds takes its key out, `FewerUnapplied`, and outside a transaction there
are none); for `RecoveryRestartable`, `UnloggedOnDisk` (until recovery has
flushed, tree and disk differ only in keys that the log sets again).

`EngineImplementsStore` maps what a reader would find after a kill now and a
recovery to the contents of `KVStore`. In a clean run that is `committed`
(`StoreIsCommitted`), and so only the step that writes a Commit record is a
commit of the store; a kill loses the open transaction and nothing else, and
every other step, recovery and eviction included, is a stutter or a read.

*The tree.* `TreeInv` says of the state between two calls that each page has a
level (`Tree`): leaves are at 0, the children of an internal node one below it,
no node has more than `max_keys` keys, and an internal node never less than
`min_keys`, or than one if it is the root. A level is a number chosen for each
page, not the distance from the root, because what a failing call leaves must
have one too: a page that was half put into the tree keeps the level it was made
for. Levels are below the number of pages in use, which is why a path ends and
`Path` is as long as it needs to be (`PathDescends`). That much holds
whatever failed or was merged, and gives `InternalNeverShort`: only leaves ever
run short of keys (`ShortLeaf`), so only leaves are merged, and that takes no
key from the node above. The parts of `BorrowLeft`, `BorrowRight` and `Join` for
internal nodes and the second round of `rebalance` are so shown to be out of
reach, not assumed to be.

`Strict` is the second part, until the first merge or failure: the children of a
node are different pages, name it as their parent and have keys enough, but for
those in a set `S`. Between calls `S` is empty. `TakeFromLeaf` leaves one page in
it, and repairing the path above takes it out again, so that seeing to the first
short child only is enough (`UnderflowHolds`). `Balanced` and `ParentsAgree`
follow from both parts along the layers of the tree (`LayerFacts`).

The third part is about pins and is proved for every state inside a call:
`Holds(st, b, x, y, z)` says that the pins are those from before the call, `b`,
and one more for each of `x`, `y` and `z`, that no fourth was ever there, that no
write met a page without one, and (`CutOK`) that each state a failure can leave
is a tree with at most two pins more than `b`. Each operation of the tree has a
lemma that gives `Holds`, `Tree` and `Strict` afterwards from those before
(`CreateHolds`, `DoneHolds`, `UpdateParentsHolds`, `NewRootHolds`, `JoinHolds`
and so on); the lemmas for `insert_recursive` and `remove_recursive` go up the
path by induction. That a function defined by recursion has the values its
definition asks for is shown once, for a step that the functions share
(`StepsExist`).

*Searching.* `FindsExactly` needs what the shape leaves open: which keys go
which way. Its invariant, `FindInv`, says that there is a set `E[p]` of keys for
each page `p`, those whose path leads through it, such that (`Routes`) the root
has all keys, a node passes to each child what lies between the separators beside
it (`Slot`), no two pages of a level share a key, a page out of reach has none,
and the keys in a page are among its own, in order; and that the leaf a key
belongs to has the value `contents` has for it, or no entry (`Tells`). `PathOwns`
and `SearchTells` take this to what `search` returns. Inside `insert` the two
halves of a split are both there before their parent knows the second: then `J`,
what the parent sends, is not `E`, what a page has, for that one page
(`Pending`), and the new separator, or the new root, makes them equal again
(`TakeInOwned`, `InsertTold`). Borrowing moves a key and the separator behind it,
which are three page writes (`Shared`, `MovedTold`). A call that fails leaves one
of its cuts, and each cut is shown to be `Found`: it has such sets `E` too, and
finds every key but that of the call, or half of a split is on a page that the
call created (`Torn`), and then its keys go to the last page beside it that the
parents know (`Abandoned`), which does not have them. That is the distinction
that `doubt` makes. Behind a merge nothing is claimed: `merge_nodes` leaves the
separator of the child it took out, and `Routes` does not hold any more, which is
the finding `btree_merge`.

*The pool.* The invariant joins the types, `PoolOK` (`lru_order` lists each
cached page once and nothing else, and there are at most `Capacity` of them),
`CleanMatchesFile`, `FileOK` and `History`. `FileOK` is what `create_page`
needs: the file has no gap, all cached pages have a place in it, and the next
number is behind its end, so that a page just allocated is never one that a
frame still has; after a stop it holds because the number starts again from the
length of the file (`CountSpec`). `History` connects the two histories: what the
file may fall back to was seen by a reader of the page since the last sync.
That is what the refinement needs for a power loss. `Without` removes the one
place of a page from `lru_order`; the code removes all places, which is the
same because `PoolOK` says that there is one at most. The refinement takes the
steps of the pool to steps of `PageStore` by what a reader sees: an eviction
moves a page from frame to file and is a stutter, and the page that
`create_page` adds is a `Grow`.

*The leaf and its bytes.* `LeafInv` says of the leaf in the page that its keys
are in order, that at most the last one has no value, that each value is the one
`contents` expects or, once a leaf was cut off, empty, that every key and value
ends inside the page (`Fits`), and that without a cut no key is missing and
nothing panicked. `ReadsBack` and `CutLosesOnly` say only what calls return; the
order of the keys and `Fits` are what a step needs: `find_position` counts
keys, which finds the right place only in order (`PositionSpec`), and a change at place `i`
spares what is in front of it only because that was in the page before, to the
same byte (`FrontSafe`, from `EndsAgree`). `DeserializeSpec` is the central
lemma: counting the whole keys and the whole values gives a prefix of each, of
lengths that differ by one at most, for entries of every size. It needs that the
ends of entries never decrease (`EndsGrow`); `EntryEnds` is a recursive function,
shown to exist by `SumsExist`. The three changes of a leaf, `UpdateStands`,
`InsertStands` and `DeleteStands`, each keep it in step with `contents`. That a
scan lists what is expected in order compares places with keys by their ranks
(`RankFacts`, `PresentRank`, `SameLists`). The tree is one leaf here, with any
number of keys: a leaf of the real tree is split when it has as many keys as the
order, which says nothing of bytes.

*Prefixes.* `Less` is shown irreflexive, transitive and total for byte strings of
any length, from where two of them differ first (`LeastNatural`). The
range `compute_prefix_end` makes has all keys with the prefix and, but for the
upper end itself, no others (`PrefixRangeComplete`, `PrefixRangeSound`, from
`PrefixEndFacts`), so the filter of `prefix_scan` has only that one key to
take out. No such theorem holds for the empty prefix or one that ends in 0xFF.

*Only model-checked.* Of the tree what its chain of leaves contains:
`ScansExactly`, `ChainSurvivesMerge` and `FailureKeepsChain`, which need the
order of the leaves in the chain and, behind a merge or a failure, of leaves that
no search gets to. All properties of `TreeStorage`. Of the engine `ReplayIsFold`, which
compares `InLogOrder` with the recursive `RecoveryLoop`; recursive operators
take the SMT backend from every module that reaches them. Out of the prover's
reach in any case: liveness (`ScanEnds`) and `ENABLED`, and what a recursive definition
computes for every input.

## 6. Not modelled

- `page.rs`: nothing calls its CRC or its serialisation, so no page is checked
  when it is read.
- `repl.rs`, `main.rs`, `error.rs`, `lib.rs`: text around engine calls. The loop
  of the REPL closes the engine at the end of the input, in a transaction too,
  which is the `close` of `KVEngine` with the taint `close_in_txn`.
- The byte format of log records: a record is readable or not.
- `read_page` of a page behind the end of the file, which extends the file
  (`disk_manager.rs:85-90`): the callers in `BufferPool` ask for pages that are
  there, and those of `TreeStorage` find them.
- Nodes that do not fit their page in a tree of several pages; in particular an
  internal node that is cut off, whose last children are then out of reach.
- In `TreeStorage`: a power loss with pages that were not flushed. Then the file
  may be shorter than the page numbers that older pages contain, `read_page`
  extends it by empty pages and `alloc_page` hands the same numbers out again.
  `BufferPool` has such power losses for pages without pointers.
- A search or a scan that meets a page it cannot read, and what it then leaves
  out of its answer.
- Calls that fail during recovery, in the tree that a kill left.

## 7. Plan

In the order of what it protects:

1. (done) the log with its proofs; recovery and transactions; the engine with
   kills, evictions and errors, and the refinement of `KVStore`; the proofs of
   the transaction's undo; tree, tree in its files, pool, and the refinement of
   `PageStore`.
2. (done) pins and failing calls of the tree; recovery, power loss and scan in
   `TreeStorage`, with liveness; the page format of a leaf; the range of a
   prefix, with its proofs.
3. (done) the proofs of `BufferPool` and that it implements `PageStore`; of the
   engine through kills and recoveries, and that it implements `KVStore`.
   The properties of `LeafPage`, and of `BPlusTree` its shape, its pins and
   what a search finds.
4. A proof of the chain of leaves: that it lists the leaves of the tree in the
   order of the keys they own, with the halves a failed split left beside them.
5. Nodes with sizes in a tree of several pages.
6. Power losses that shorten the file, with page numbers handed out twice.
