----------------------------- MODULE BufferPool ---------------------------
(***************************************************************************)
(* The buffer pool of src/buffer_pool.rs over the data file of             *)
(* src/disk_manager.rs, for callers that fetch, write, unpin and flush in  *)
(* any order, with failing file operations, kills and power losses.        *)
(*                                                                         *)
(* A page write is one step; last_access, which is stored and never read,  *)
(* is left out: eviction goes by lru_order.                                *)
(***************************************************************************)
EXTENDS Naturals, Sequences, FiniteSets

CONSTANTS MaxPages,      \* bound on the page numbers
          Data, Zero,    \* page contents, and that of a page just allocated
          Missing,       \* no such page in the file
          Capacity,      \* the number of frames
          MaxPins,       \* bound on a frame's pin count
          MaxIoErrors,   \* bound on failing file operations
          MaxStops       \* bound on kills and power losses

ASSUME PoolAssumption == /\ {MaxPages, MaxPins, MaxIoErrors, MaxStops} \subseteq Nat
                         /\ Capacity \in Nat \ {0}
                         /\ Zero \in Data
                         /\ Missing \notin Data

PageIds == 0 .. MaxPages - 1
Frame == [data : Data, is_dirty : BOOLEAN, pin_count : Nat]

VARIABLES frames,        \* the cached pages: a function on some page numbers
          lru_order,     \* their numbers, the one used last first
          next_page_id,
          file,          \* the .db file as the operating system shows it
          unsynced,      \* the values the file held for a page since its fsync
          since,         \* the values a reader saw since then (history)
          io_errors, stops

poolVars == <<frames, lru_order>>
fileVars == <<next_page_id, file, unsynced>>
vars == <<poolVars, fileVars, since, io_errors, stops>>

Cached == DOMAIN frames

\* What fetch_page gives the reader of p.
Content(p) == IF p \in Cached THEN frames[p].data ELSE file[p]

TypeOK == /\ Cached \subseteq PageIds
          /\ frames \in [Cached -> Frame]
          /\ lru_order \in Seq(PageIds)
          /\ next_page_id \in Nat
          /\ file \in [PageIds -> Data \cup {Missing}]
          /\ unsynced \in [PageIds -> SUBSET (Data \cup {Missing})]
          /\ since \in [PageIds -> SUBSET (Data \cup {Missing})]
          /\ {io_errors, stops} \subseteq Nat

Init == /\ frames = [p \in {} |-> Zero]
        /\ lru_order = <<>>
        /\ next_page_id = 0
        /\ file = [p \in PageIds |-> Missing]
        /\ unsynced = [p \in PageIds |-> {Missing}]
        /\ since = unsynced
        /\ io_errors = 0
        /\ stops = 0
---------------------------------------------------------------------------
\* write_page: a write behind the end of the file leaves zeros in the gap.
Written(f, p, d) ==
  [q \in PageIds |-> IF q = p THEN d
                     ELSE IF q < p /\ f[q] = Missing THEN Zero ELSE f[q]]

FileBecomes(f) == /\ file' = f
                  /\ unsynced' = [q \in PageIds |-> unsynced[q] \cup {f[q]}]

\* A write that failed may still have reached the file.
MayBecome(f) == FileBecomes(file) \/ FileBecomes(f)

\* The history follows what readers see.
Seen == since' = [q \in PageIds |-> since[q] \cup {Content(q)'}]

IoError == io_errors < MaxIoErrors /\ io_errors' = io_errors + 1

\* Variant: the page keeps its old place too.
UsedAgain(order, p) == <<p>> \o order

\* update_lru, and lru_order.retain when a page goes: the one place of the one
\* page of S that is listed, if any (LruListsFrames: once at most).
Without(order, S) ==
  LET listed == {i \in DOMAIN order : order[i] \in S}
      at     == CHOOSE i \in listed : TRUE
  IN  IF listed = {} THEN order
      ELSE [i \in 1 .. Len(order) - 1 |-> order[IF i < at THEN i ELSE i + 1]]
Used(order, p) == <<p>> \o Without(order, {p})

Full == Cardinality(Cached) >= Capacity

\* Variant: pinned pages are taken as well.
AnyVictims == {i \in DOMAIN lru_order : lru_order[i] \in Cached}

\* evict takes the last page of lru_order that is not pinned.
Victims == {i \in DOMAIN lru_order :
              lru_order[i] \in Cached /\ frames[lru_order[i]].pin_count = 0}
Victim == lru_order[CHOOSE i \in Victims : \A j \in Victims : j <= i]

\* Variant: the evicted page is dropped, dirty or not.
FileWithoutEvictee(f) == f

\* The pages that leave a pool to make room for one more, and the file then.
Evictees == IF Full THEN {Victim} ELSE {}
FileAfterEvict(f) == IF Full /\ frames[Victim].is_dirty
                       THEN Written(f, Victim, frames[Victim].data) ELSE f

\* The pool without the evicted pages and with a frame for p.
Load(p, data, dirty) ==
  /\ frames' = [q \in (Cached \ Evictees) \cup {p} |->
                  IF q = p THEN [data |-> data, is_dirty |-> dirty, pin_count |-> 1]
                  ELSE frames[q]]
  /\ lru_order' = Used(Without(lru_order, Evictees), p)

Evict == /\ frames' = [q \in Cached \ Evictees |-> frames[q]]
         /\ lru_order' = Without(lru_order, Evictees)
---------------------------------------------------------------------------
(* fetch_page.                                                             *)

FetchHit(p) == /\ p \in Cached
               /\ frames[p].pin_count < MaxPins
               /\ frames' = [frames EXCEPT ![p].pin_count = @ + 1]
               /\ lru_order' = Used(lru_order, p)
               /\ UNCHANGED <<fileVars, since, io_errors, stops>>

\* The tree asks for pages that were created.  (For another one read_page
\* would extend the file, and create_page hand out its number again.)
Miss(p) == p \notin Cached /\ file[p] # Missing

FetchMiss(p) == /\ Miss(p)
                /\ Full => Victims # {}
                /\ FileBecomes(FileAfterEvict(file))
                /\ Load(p, file'[p], FALSE)
                /\ Seen
                /\ UNCHANGED <<next_page_id, io_errors, stops>>

\* Either the evicted page was written and dropped and then the read failed,
\* or the write of the evicted page failed.
FetchFails(p) == /\ IoError
                 /\ Miss(p)
                 /\ Full => Victims # {}
                 /\ \/ FileBecomes(FileAfterEvict(file)) /\ Evict
                    \/ Full /\ MayBecome(FileAfterEvict(file)) /\ UNCHANGED poolVars
                 /\ Seen
                 /\ UNCHANGED <<next_page_id, stops>>
---------------------------------------------------------------------------
(* create_page: the page is allocated first, then room is made for it.     *)

Create == /\ next_page_id < MaxPages
          /\ Full => Victims # {}
          /\ next_page_id' = next_page_id + 1
          /\ FileBecomes(FileAfterEvict(Written(file, next_page_id, Zero)))
          /\ Load(next_page_id, Zero, TRUE)
          /\ Seen
          /\ UNCHANGED <<io_errors, stops>>

\* Every frame is pinned: the error leaves the new page in the file.
CreateFull == /\ next_page_id < MaxPages
              /\ Full /\ Victims = {}
              /\ next_page_id' = next_page_id + 1
              /\ FileBecomes(Written(file, next_page_id, Zero))
              /\ UNCHANGED <<poolVars, io_errors, stops>>
              /\ Seen

\* The number is used up even if the file could not be extended, or if the
\* page to be evicted could not be written.
CreateFails == /\ IoError
               /\ next_page_id < MaxPages
               /\ next_page_id' = next_page_id + 1
               /\ LET f == Written(file, next_page_id, Zero)
                  IN  \/ MayBecome(f)
                      \/ Full /\ Victims # {} /\ FileBecomes(FileAfterEvict(f))
               /\ UNCHANGED <<poolVars, stops>>
               /\ Seen
---------------------------------------------------------------------------
(* The callers' other operations.                                          *)

\* write_page_data on a page that has a frame, pinned or not.
WritePageData(p, d) ==
  /\ p \in Cached
  /\ frames' = [frames EXCEPT ![p].data = d, ![p].is_dirty = TRUE]
  /\ UNCHANGED <<lru_order, fileVars, io_errors, stops>>
  /\ Seen

\* Variant: the count is not checked.
UnpinUnchecked(p) == /\ p \in Cached
                     /\ frames' = [frames EXCEPT ![p].pin_count = @ - 1]
                     /\ UNCHANGED <<lru_order, fileVars, since, io_errors, stops>>

Unpin(p) == /\ p \in Cached /\ frames[p].pin_count > 0
            /\ frames' = [frames EXCEPT ![p].pin_count = @ - 1]
            /\ UNCHANGED <<lru_order, fileVars, since, io_errors, stops>>

\* flush_page, Ok: the frame is written and clean.
FlushPage(p) == /\ p \in Cached /\ frames[p].is_dirty
                /\ FileBecomes(Written(file, p, frames[p].data))
                /\ frames' = [frames EXCEPT ![p].is_dirty = FALSE]
                /\ UNCHANGED <<lru_order, next_page_id, since, io_errors, stops>>

\* write_page failed: the frame stays dirty.
FlushFails(p) == /\ IoError
                 /\ p \in Cached /\ frames[p].is_dirty
                 /\ MayBecome(Written(file, p, frames[p].data))
                 /\ UNCHANGED <<poolVars, next_page_id, since, stops>>

FlushedFile(S) == [q \in PageIds |->
                     IF q \in S /\ frames[q].is_dirty THEN frames[q].data
                     ELSE IF file[q] = Missing /\ \E p \in S : frames[p].is_dirty /\ q < p
                       THEN Zero ELSE file[q]]
Cleaned(S) == [q \in Cached |-> IF q \in S THEN [frames[q] EXCEPT !.is_dirty = FALSE]
                                ELSE frames[q]]

\* flush_all, Ok: every dirty page is written, then the file is synced.
FlushAll == /\ file' = FlushedFile(Cached)
            /\ unsynced' = [q \in PageIds |-> {file'[q]}]
            /\ frames' = Cleaned(Cached)
            /\ since' = [q \in PageIds |-> {Content(q)'}]
            /\ UNCHANGED <<lru_order, next_page_id, io_errors, stops>>

\* Variant: all frames count as clean when some could not be written.
FlushAllForgets == /\ IoError
                   /\ \E S \in SUBSET Cached : FileBecomes(FlushedFile(S))
                   /\ frames' = Cleaned(Cached)
                   /\ UNCHANGED <<lru_order, next_page_id, stops>>
                   /\ Seen

\* A write, or the sync behind the last one, failed: of the dirty frames, those
\* in S came first in the HashMap's order and are clean, and those in W are in
\* the file, among them perhaps the one whose write failed.
FlushAllFails == /\ IoError
                 /\ \E W \in SUBSET {p \in Cached : frames[p].is_dirty} : \E S \in SUBSET W :
                      /\ Cardinality(W \ S) <= 1
                      /\ FileBecomes(FlushedFile(W))
                      /\ frames' = Cleaned(S)
                 /\ UNCHANGED <<lru_order, next_page_id, stops>>
                 /\ Seen

NoFrames == frames' = [p \in {} |-> Zero] /\ lru_order' = <<>>

\* shutdown: flush_all, then the frames go, pinned or not.
Shutdown == /\ file' = FlushedFile(Cached)
            /\ unsynced' = [q \in PageIds |-> {file'[q]}]
            /\ NoFrames
            /\ since' = [q \in PageIds |-> {file'[q]}]
            /\ UNCHANGED <<next_page_id, io_errors, stops>>
---------------------------------------------------------------------------
(* The process ends, with what the file holds then, and opens it again.    *)

\* DiskManager::new counts the pages of the file.
Reopened == /\ NoFrames
            /\ next_page_id' = Cardinality({p \in PageIds : file'[p] # Missing})

Kill == /\ stops < MaxStops
        /\ stops' = stops + 1
        /\ UNCHANGED <<file, unsynced, since, io_errors>>
        /\ Reopened

\* The file falls back, page by page, to something it held since the sync.
\* It has no gaps: its end is behind the last page that is there.
PowerLoss == /\ stops < MaxStops
             /\ stops' = stops + 1
             /\ file' \in {f \in [PageIds -> Data \cup {Missing}] :
                             /\ \A p \in PageIds : f[p] \in unsynced[p]
                             /\ \A p, q \in PageIds : f[p] = Missing /\ p < q => f[q] = Missing}
             /\ unsynced' = [p \in PageIds |-> {file'[p]}]
             /\ since' = unsynced'
             /\ Reopened
             /\ UNCHANGED io_errors
---------------------------------------------------------------------------
Next == \/ \E p \in PageIds : \/ FetchHit(p) \/ FetchMiss(p) \/ FetchFails(p)
                              \/ Unpin(p) \/ FlushPage(p) \/ FlushFails(p)
                              \/ \E d \in Data : WritePageData(p, d)
        \/ Create \/ CreateFull \/ CreateFails
        \/ FlushAll \/ FlushAllFails \/ Shutdown
        \/ Kill \/ PowerLoss

Spec == Init /\ [][Next]_vars
---------------------------------------------------------------------------
(* A frame that is not dirty holds what the file holds: it can be dropped  *)
(* without a write (buffer_pool.rs:244-251), after any mix of failed       *)
(* writes, partial flush_alls and evictions.                               *)
CleanMatchesFile == \A p \in Cached : ~frames[p].is_dirty => frames[p].data = file[p]

(* The pool never holds more than Capacity frames, and lru_order lists     *)
(* each of them once: evict finds every page it could take                 *)
(* (buffer_pool.rs:229-257).                                               *)
LruListsFrames ==
  /\ Cardinality(Cached) <= Capacity
  /\ Len(lru_order) = Cardinality(Cached)
  /\ {lru_order[i] : i \in DOMAIN lru_order} = Cached

(* A pinned frame stays: no fetch, creation or failure of another page     *)
(* drops it or lowers its pin count below what its users hold, as long as  *)
(* the pool is not shut down.                                              *)
PinnedStays ==
  [][\A p \in Cached : frames[p].pin_count > 0 =>
       \/ frames' = [q \in {} |-> Zero]
       \/ p \in DOMAIN frames' /\ frames'[p].pin_count + 1 >= frames[p].pin_count]_vars

PS == INSTANCE PageStore WITH content <- [p \in PageIds |-> Content(p)]

(* The pool with its file is a store of pages: readers get what was        *)
(* written last through any eviction and failure, flush_all makes all of   *)
(* it survive a power loss, and a stop loses nothing older.                *)
ImplementsPageStore == PS!Spec
===========================================================================
