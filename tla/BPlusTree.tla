----------------------------- MODULE BPlusTree ----------------------------
(***************************************************************************)
(* The B+ tree of src/btree.rs over pages that always read back what was   *)
(* written last (BufferPool is about that).  insert and remove are whole   *)
(* calls: nothing runs beside them.  Keys are numbers, compare_keys is <.  *)
(*                                                                         *)
(* The recursive methods thread a record st of the pages, the root, next   *)
(* (the page create_page hands out next) and the pins, with notes: cuts    *)
(* are the states a failing call can leave, written what each page was     *)
(* written with, held the pins of the call, merges counts merge_nodes.     *)
(***************************************************************************)
EXTENDS Integers, Sequences, FiniteSets, SequencesExt

CONSTANTS Entries,    \* the <<key, value>> pairs callers insert
          Order,      \* the tree's order: 64 in the engine, 4 in its tests
          MaxPages,   \* bound on the pages created
          MaxUpsets,  \* bound on merges and failed calls: no call after that many
          CanFail,    \* whether a call may fail
          None        \* no page, no value

ASSUME TreeAssumption == /\ Entries \subseteq Nat \X Nat
                         /\ {Order, MaxPages, MaxUpsets} \subseteq Nat
                         /\ CanFail \in BOOLEAN
                         /\ Order >= 3
                         /\ None \notin Nat

Keys == {e[1] : e \in Entries}
PageIds == 0 .. MaxPages - 1

VARIABLES pages,         \* the node on each page
          next_page_id,
          root_page_id,
          pin_count,     \* how often each page is pinned in the pool
          merges,        \* how often merge_nodes ran (history)
          contents,      \* the map the callers expect (history)
          failures,      \* how many calls failed (history)
          doubt,         \* keys not written since a failure that may have hit them (history)
          four_pinned,   \* a call held more than three pins at once (history)
          stray_write    \* a page was written that was not pinned (history)

treeVars == <<pages, next_page_id, root_page_id, pin_count, merges>>
vars == <<treeVars, contents, failures, doubt, four_pinned, stray_write>>

new_leaf == [node_type |-> "Leaf", keys |-> <<>>, values |-> <<>>,
             children |-> <<>>, next_leaf |-> None, parent |-> None]
new_internal == [new_leaf EXCEPT !.node_type = "Internal"]

\* What the zeros of a page that was only allocated read as: an empty leaf
\* with page 0 for its neighbour and its parent.
Zeroed == [new_leaf EXCEPT !.next_leaf = 0, !.parent = 0]

min_keys == (Order + 1) \div 2 - 1
max_keys == Order - 1
---------------------------------------------------------------------------
(* Pages.  A page has what a node is read back as from its bytes, which    *)
(* end in zeros: an internal node written with a child too few gets page 0 *)
(* as its last one, and one without keys has no children.                  *)

deserialize(node) ==
  IF node.node_type = "Leaf" THEN node
  ELSE [node EXCEPT !.children =
          IF node.keys = <<>> THEN <<>>
          ELSE IF Len(@) = Len(node.keys) THEN Append(@, 0) ELSE @]

read_node(st, p) == st.pages[p]

\* Bounds the failures: one, and none behind a merge.
Unhurt == CanFail /\ failures = 0 /\ merges = 0

\* What a call that fails here leaves.
Cut(st) == [pages |-> st.pages, next |-> st.next, root |-> st.root,
            pins |-> st.pins, merges |-> st.merges]
MayFail(st) == IF Unhurt THEN [st EXCEPT !.cuts = @ \cup {Cut(st)}] ELSE st

Pin(st, p) == [st EXCEPT !.pins[p] = @ + 1,
                         !.held = @ + 1,
                         !.four = @ \/ st.held = 3]

\* fetch_page fails when the page cannot be read or no frame is free.
fetch(st, p) == Pin(MayFail(st), p)
release_node(st, p) == [st EXCEPT !.pins[p] = IF @ > 0 THEN @ - 1 ELSE 0, !.held = @ - 1]
visit(st, p) == release_node(fetch(st, p), p)

\* A write needs the page in the pool: only a pin keeps it there.
write_node(st, p, node) ==
  LET page == deserialize(node)
  IN  [st EXCEPT !.pages[p] = page,
                 !.written[p] = @ \cup {page},
                 !.stray = @ \/ st.pins[p] = 0]

\* The number is used up even if create_page fails.
create_page(st) ==
  LET p == st.next
  IN  [Pin(MayFail([st EXCEPT !.next = @ + 1]), p) EXCEPT !.pages[p] = Zeroed]

save_metadata(st) == MayFail(st)

Done(st, p, node) == release_node(write_node(st, p, node), p)
update_parent(st, p, parent) ==
  Done(fetch(st, p), p, [read_node(st, p) EXCEPT !.parent = parent])
\* Variant: children that move keep their old parent.
parents_kept(st, ps, parent) == st

\* Variant: all of them are pinned until all are written.
parents_together(st, ps, parent) ==
  LET Write(s, p) == write_node(s, p, [read_node(s, p) EXCEPT !.parent = parent])
  IN  FoldLeft(release_node, FoldLeft(Write, FoldLeft(fetch, st, ps), ps), ps)

\* Each page in ps in turn.
update_parents(st, ps, parent) ==
  LET Upto[n \in 0 .. Len(ps)] ==
        IF n = 0 THEN st ELSE update_parent(Upto[n - 1], ps[n], parent)
  IN  Upto[Len(ps)]
visit_each(st, ps) ==
  LET Upto[n \in 0 .. Len(ps)] == IF n = 0 THEN st ELSE visit(Upto[n - 1], ps[n])
  IN  Upto[Len(ps)]

Replace(seq, i, x) == [seq EXCEPT ![i] = x]
Tail_(seq, n) == SubSeq(seq, n + 1, Len(seq))

\* Variant: a key equal to a separator belongs to the left of it.
find_position_left(keys, k) ==
  CHOOSE i \in 1 .. Len(keys) + 1 :
     /\ i <= Len(keys) => k <= keys[i]
     /\ \A j \in 1 .. i - 1 : keys[j] < k

\* The place of the first key larger than k: also the child to go down to.
find_position(keys, k) ==
  CHOOSE i \in 1 .. Len(keys) + 1 :
     /\ i <= Len(keys) => k < keys[i]
     /\ \A j \in 1 .. i - 1 : keys[j] <= k

PositionsOf(keys, k) == {i \in DOMAIN keys : keys[i] = k}
First(S) == CHOOSE i \in S : \A j \in S : i <= j
---------------------------------------------------------------------------
(* Reading.                                                                *)

\* The pages from root down to the leaf for k.  A path that were longer than
\* this would come to a page twice.
Path(st, root, k) ==
  LET Down[n \in 0 .. MaxPages] ==
        IF n = 0 THEN <<root>>
        ELSE LET above == Down[n - 1]
                 node  == read_node(st, Last(above))
             IN  IF node.node_type = "Leaf" THEN above
                 ELSE Append(above, node.children[find_position(node.keys, k)])
  IN  Down[MaxPages]

find_leaf(st, root, k) == Last(Path(st, root, k))

search(st, root, k) ==
  IF root = None THEN None
  ELSE LET leaf == read_node(st, find_leaf(st, root, k))
           hits == PositionsOf(leaf.keys, k)
       IN  IF hits = {} THEN None ELSE leaf.values[First(hits)]

\* What a scan takes from leaf, and whether it ends there.
Beyond(leaf, end) == {i \in DOMAIN leaf.keys : leaf.keys[i] > end}
Hits(leaf, start, end) ==
  LET stop == Beyond(leaf, end)
      n    == IF stop = {} THEN Len(leaf.keys) ELSE First(stop) - 1
  IN  SelectSeq([i \in 1 .. n |-> <<leaf.keys[i], leaf.values[i]>>],
                LAMBDA e : e[1] >= start)

\* Along the leaves, from the one start is in to the first key beyond end.
ScanFrom(st, p, start, end) ==
  LET Chain[n \in 0 .. MaxPages] ==
        IF n = 0 THEN [page |-> p, hits |-> <<>>]
        ELSE LET before == Chain[n - 1]
                 leaf   == read_node(st, before.page)
             IN  IF before.page = None THEN before
                 ELSE IF leaf.node_type # "Leaf" THEN [before EXCEPT !.page = None]
                 ELSE [page |-> IF Beyond(leaf, end) = {} THEN leaf.next_leaf ELSE None,
                       hits |-> before.hits \o Hits(leaf, start, end)]
  IN  Chain[MaxPages].hits

range_scan(st, root, start, end) ==
  IF root = None THEN <<>> ELSE ScanFrom(st, find_leaf(st, root, start), start, end)
---------------------------------------------------------------------------
(* Inserting.  The result carries the key and page of a split, if any.     *)

NoSplit == <<>>

\* The leaf with the new entry, still too long where it has to be split.
WithEntry(leaf, k, v) ==
  LET hits == PositionsOf(leaf.keys, k)
      i    == find_position(leaf.keys, k)
  IN  IF hits # {}
        THEN [leaf EXCEPT !.values = Replace(@, First(hits), v)]
        ELSE [leaf EXCEPT !.keys = InsertAt(@, i, k), !.values = InsertAt(@, i, v)]

\* With p pinned.
SplitLeaf(st, p, node, next_leaf) ==
  LET mid   == Len(node.keys) \div 2
      right == st.next
      rnode == [node EXCEPT !.keys = Tail_(@, mid), !.values = Tail_(@, mid)]
      lnode == [node EXCEPT !.keys = SubSeq(@, 1, mid), !.values = SubSeq(@, 1, mid),
                            !.next_leaf = next_leaf]
      halves == write_node(write_node(create_page(st), p, lnode), right, rnode)
  IN  [st    |-> release_node(release_node(halves, p), right),
       split |-> <<node.keys[mid + 1], right>>]

\* Variant: the left half keeps the neighbour it had.
split_leaf_unlinked(st, p, node) == SplitLeaf(st, p, node, node.next_leaf)

\* Variant: the right half gets its neighbour after the left one got its own.
split_leaf_looped(st, p, node) ==
  LET halves == SplitLeaf(st, p, node, st.next)
      right  == [read_node(halves.st, st.next) EXCEPT !.next_leaf = st.next]
  IN  [halves EXCEPT !.st.pages[st.next] = right, !.st.written[st.next] = {Zeroed, right}]

\* Variant: the new page stays pinned.
split_leaf_pinned(st, p, node) ==
  [SplitLeaf(st, p, node, st.next) EXCEPT !.st = Pin(@, st.next)]

\* Variant: the left half is linked by a write of its own.
split_leaf_linked_late(st, p, node) ==
  LET halves == SplitLeaf(st, p, node, node.next_leaf)
      left   == [read_node(halves.st, p) EXCEPT !.next_leaf = st.next]
  IN  [halves EXCEPT !.st = Done(fetch(@, p), p, left)]

split_leaf(st, p, node) == SplitLeaf(st, p, node, st.next)

\* With p pinned.
SplitInternal(st, p, node, mid) ==
  LET right == st.next
      rnode == [node EXCEPT !.keys = Tail_(@, mid + 1), !.children = Tail_(@, mid + 1)]
      lnode == [node EXCEPT !.keys = SubSeq(@, 1, mid), !.children = SubSeq(@, 1, mid + 1)]
      moved == update_parents(create_page(st), rnode.children, right)
      halves == write_node(write_node(moved, p, lnode), right, rnode)
  IN  [st    |-> release_node(release_node(halves, p), right),
       split |-> <<node.keys[mid + 1], right>>]

\* Variant: the middle of the children instead of the keys.
split_internal_late(st, p, node) ==
  SplitInternal(st, p, node, Len(node.children) \div 2)

split_internal(st, p, node) == SplitInternal(st, p, node, Len(node.keys) \div 2)

\* The parent takes in a split child; the child's parent is set first.
TakeIn(st, p, split) ==
  LET node  == read_node(st, p)
      i     == find_position(node.keys, split[1])
      wider == [node EXCEPT !.keys = InsertAt(@, i, split[1]),
                            !.children = InsertAt(@, i + 1, split[2])]
      st1   == update_parent(st, split[2], p)
  IN  IF Len(wider.keys) > max_keys THEN split_internal(st1, p, wider)
      ELSE [st |-> Done(st1, p, wider), split |-> NoSplit]

\* Variant: the parent is not read again after the call below.
AddChildUnread(below, p) ==
  IF below.split = NoSplit THEN below ELSE TakeIn(below.st, p, below.split)

\* What p makes of the result for its child.
AddChild(below, p) ==
  IF below.split = NoSplit THEN below ELSE TakeIn(fetch(below.st, p), p, below.split)

\* With p visited only.
PutInLeaf(st, p, k, v) ==
  LET fuller == WithEntry(read_node(st, p), k, v)
  IN  IF Len(fuller.keys) > max_keys THEN split_leaf(fetch(st, p), p, fuller)
      ELSE [st |-> Done(fetch(st, p), p, fuller), split |-> NoSplit]

\* Down the path to the leaf, and up again: Back[n] is what the call for the
\* page n above the leaf returns.
insert_recursive(st, root, k, v) ==
  LET path   == Path(st, root, k)
      height == Len(path) - 1
      Back[n \in 0 .. height] ==
        IF n = 0 THEN PutInLeaf(visit_each(st, Front(path)), Last(path), k, v)
        ELSE AddChild(Back[n - 1], path[height + 1 - n])
  IN  Back[height]

\* A page of its own for a node that becomes the root; its children, if any,
\* get it for their parent.
NewRoot(st, node) ==
  LET new == st.next
  IN  save_metadata([Done(update_parents(create_page(st), node.children, new), new, node)
                       EXCEPT !.root = new])

\* What becomes of the tree where the root may have been split.
RootOver(root, below) ==
  IF below.split = NoSplit THEN below.st
  ELSE NewRoot(below.st, [new_internal EXCEPT !.keys = <<below.split[1]>>,
                                              !.children = <<root, below.split[2]>>])

insert(st, k, v) ==
  IF st.root = None
    THEN NewRoot(st, [new_leaf EXCEPT !.keys = <<k>>, !.values = <<v>>])
    ELSE RootOver(st.root, insert_recursive(st, st.root, k, v))
---------------------------------------------------------------------------
(* Removing.  A child with too few keys borrows from its left sibling, or  *)
(* from its right one, or is merged with one of them.                      *)

WriteThree(st, p, parent, c, child, s, sibling) ==
  Done(Done(Done(st, p, parent), c, child), s, sibling)

\* The last entry of the left sibling becomes the first of the child.
BorrowLeft(st, p, i) ==
  LET parent == read_node(st, p)
      c == parent.children[i]       child == read_node(st, c)
      l == parent.children[i - 1]   left  == read_node(st, l)
      key    == Last(left.keys)
      leaf   == child.node_type = "Leaf"
      child2 == IF leaf
                  THEN [child EXCEPT !.keys = <<key>> \o @,
                                     !.values = <<Last(left.values)>> \o @]
                  ELSE [child EXCEPT !.keys = <<parent.keys[i - 1]>> \o @,
                                     !.children = <<Last(left.children)>> \o @]
      left2  == IF leaf
                  THEN [left EXCEPT !.keys = Front(@), !.values = Front(@)]
                  ELSE [left EXCEPT !.keys = Front(@), !.children = Front(@)]
      st1    == IF leaf THEN st ELSE update_parent(st, child2.children[1], c)
  IN  WriteThree(st1, p, [parent EXCEPT !.keys = Replace(@, i - 1, key)], c, child2, l, left2)

\* The first entry of the right sibling becomes the last of the child.
BorrowRight(st, p, i) ==
  LET parent == read_node(st, p)
      c == parent.children[i]       child == read_node(st, c)
      r == parent.children[i + 1]   right == read_node(st, r)
      leaf   == child.node_type = "Leaf"
      child2 == IF leaf
                  THEN [child EXCEPT !.keys = Append(@, Head(right.keys)),
                                     !.values = Append(@, Head(right.values))]
                  ELSE [child EXCEPT !.keys = Append(@, parent.keys[i]),
                                     !.children = Append(@, Head(right.children))]
      right2 == IF leaf
                  THEN [right EXCEPT !.keys = Tail(@), !.values = Tail(@)]
                  ELSE [right EXCEPT !.keys = Tail(@), !.children = Tail(@)]
      key    == IF ~leaf THEN Head(right.keys)
                ELSE IF right2.keys # <<>> THEN Head(right2.keys) ELSE parent.keys[i]
      st1    == IF leaf THEN st ELSE update_parent(st, Last(child2.children), c)
  IN  WriteThree(st1, p, [parent EXCEPT !.keys = Replace(@, i, key)], c, child2, r, right2)

JoinedInternal(left, right, key) ==
  [left EXCEPT !.keys = Append(@, key) \o right.keys, !.children = @ \o right.children]

\* Variant: the joined leaf keeps the neighbour it had.
JoinedUnlinked(left, right, key) ==
  IF left.node_type = "Leaf"
    THEN [left EXCEPT !.keys = @ \o right.keys, !.values = @ \o right.values]
    ELSE JoinedInternal(left, right, key)

Joined(left, right, key) ==
  IF left.node_type = "Leaf"
    THEN [left EXCEPT !.keys = @ \o right.keys, !.values = @ \o right.values,
                      !.next_leaf = right.next_leaf]
    ELSE JoinedInternal(left, right, key)

\* Children i and i + 1 become one.  Merging two leaves takes the right one
\* out of the parent's children, and leaves the key between them there.
Join(st, p, i) ==
  LET parent == read_node(st, p)
      l == parent.children[i]       left  == read_node(st, l)
      r == parent.children[i + 1]   right == read_node(st, r)
      leaf   == left.node_type = "Leaf"
      left2  == Joined(left, right, parent.keys[i])
      fewer  == [parent EXCEPT !.children = RemoveAt(@, i + 1)]
      parent2 == IF leaf THEN fewer ELSE [fewer EXCEPT !.keys = RemoveAt(@, i)]
      st0    == fetch(fetch(fetch(st, p), l), r)
      st1    == IF leaf THEN st0 ELSE update_parents(st0, left2.children, l)
  IN  [release_node(Done(Done(st1, l, left2), p, parent2), r) EXCEPT !.merges = @ + 1]

\* The page in ps, if there is one.
fetch_any(st, ps) == IF ps = <<>> THEN st ELSE fetch(st, ps[1])
release_any(st, ps) == IF ps = <<>> THEN st ELSE release_node(st, ps[1])

\* again is the parent and the place rebalance is called for next, if any.
Settled(st) == [st |-> st, again |-> <<>>]

\* merge_nodes, behind the merge: on to the parent p, if that is too small now.
MergeAbove(st, p) ==
  LET parent == read_node(st, p)
      uncles == read_node(st, parent.parent).children
      up     == visit(st, parent.parent)
  IN  IF parent.parent = None \/ Len(parent.keys) >= min_keys THEN Settled(st)
      ELSE IF p \notin Range(uncles) THEN Settled(up)
      ELSE [st |-> up, again |-> <<parent.parent, First(PositionsOf(uncles, p))>>]

merge_nodes(st, p, i) == MergeAbove(visit(Join(st, p, i), p), p)

\* rebalance, to where it calls itself.
RebalanceOnce(st, p, i) ==
  LET parent == read_node(st, p)
      n      == Len(parent.children)
      c      == parent.children[i]
      l      == IF i > 1 THEN <<parent.children[i - 1]>> ELSE <<>>
      r      == IF i < n THEN <<parent.children[i + 1]>> ELSE <<>>
      Rich(s) == s # <<>> /\ Len(read_node(st, s[1]).keys) > min_keys
      st1    == fetch_any(fetch(fetch(st, p), c), l)
      st2    == fetch_any(release_any(st1, l), r)
      st3    == release_node(release_node(release_any(st2, r), c), p)
  IN  IF Rich(l) THEN Settled(BorrowLeft(st1, p, i))
      ELSE IF Rich(r) THEN Settled(BorrowRight(st2, p, i))
      ELSE IF i > 1 THEN merge_nodes(st3, p, i - 1)
      ELSE IF n = 1 THEN Settled(visit(st3, p))
      ELSE merge_nodes(visit(st3, p), p, i)

rebalance(st, p, i) ==
  LET Round[n \in 0 .. MaxPages] ==
        IF n = 0 THEN RebalanceOnce(st, p, i)
        ELSE LET before == Round[n - 1]
             IN  IF before.again = <<>> THEN before
                 ELSE RebalanceOnce(before.st, before.again[1], before.again[2])
  IN  Round[MaxPages].st

\* Variant: the first child is never looked at.
underflow_skips_first(st, p) ==
  LET children == read_node(st, p).children
      short == {i \in DOMAIN children :
                  i > 1 /\ Len(read_node(st, children[i]).keys) < min_keys}
  IN  IF short = {} THEN st ELSE rebalance(st, p, First(short))

\* Only the first child with too few keys is seen to.
handle_underflow(st, p) ==
  LET children == read_node(st, p).children
      short == {i \in DOMAIN children :
                  /\ read_node(st, children[i]).parent # None
                  /\ Len(read_node(st, children[i]).keys) < min_keys}
      Seen(n) == release_node(visit_each(fetch(st, p), SubSeq(children, 1, n)), p)
  IN  IF short = {} THEN Seen(Len(children))
      ELSE rebalance(Seen(First(short)), p, First(short))

Repaired(below, p) ==
  IF below.removed THEN [below EXCEPT !.st = handle_underflow(@, p)] ELSE below

TakeFromLeaf(st, p, k) ==
  LET node  == read_node(st, p)
      hits  == PositionsOf(node.keys, k)
      fewer == [node EXCEPT !.keys = RemoveAt(@, First(hits)),
                            !.values = RemoveAt(@, First(hits))]
  IN  IF hits = {} THEN [st |-> visit(st, p), removed |-> FALSE]
      ELSE [st |-> Done(fetch(st, p), p, fewer), removed |-> TRUE]

remove_recursive(st, root, k) ==
  LET path   == Path(st, root, k)
      height == Len(path) - 1
      Back[n \in 0 .. height] ==
        IF n = 0 THEN TakeFromLeaf(visit_each(st, Front(path)), Last(path), k)
        ELSE Repaired(Back[n - 1], path[height + 1 - n])
  IN  Back[height]

\* The root gives way to its only child, or to no root.
Shrunk(st) ==
  LET node  == read_node(st, st.root)
      child == node.children[1]
  IN  IF node.keys # <<>> THEN st
      ELSE IF node.node_type = "Leaf" THEN save_metadata([st EXCEPT !.root = None])
      ELSE save_metadata(update_parent([st EXCEPT !.root = child], child, None))

remove(st, k) ==
  IF st.root = None THEN st
  ELSE Shrunk(visit(remove_recursive(st, st.root, k).st, st.root))
---------------------------------------------------------------------------
(* Calls.  At the start of one nothing is written yet.                     *)

St == [pages |-> pages, next |-> next_page_id, root |-> root_page_id,
       pins |-> pin_count, merges |-> merges, held |-> 0, four |-> four_pinned,
       stray |-> stray_write, written |-> [p \in PageIds |-> {}], cuts |-> {}]

Init == /\ pages = [p \in PageIds |-> Zeroed]
        /\ next_page_id = 0
        /\ root_page_id = None
        /\ pin_count = [p \in PageIds |-> 0]
        /\ merges = 0
        /\ contents = [k \in Keys |-> None]
        /\ failures = 0
        /\ doubt = {}
        /\ four_pinned = FALSE
        /\ stray_write = FALSE

\* A split creates at most one page a level and a new root.
RoomToSplit(k) ==
  next_page_id + 1 + (IF root_page_id = None THEN 0
                      ELSE Len(Path(St, root_page_id, k))) <= MaxPages

\* And there is none where the leaf takes the key.
Room(k) ==
  \/ RoomToSplit(k)
  \/ /\ root_page_id # None
     /\ LET leaf == read_node(St, find_leaf(St, root_page_id, k))
        IN  k \in Range(leaf.keys) \/ Len(leaf.keys) < max_keys

Calm == merges + failures < MaxUpsets

Becomes(st) == /\ pages' = st.pages
               /\ next_page_id' = st.next
               /\ root_page_id' = st.root
               /\ pin_count' = st.pins
               /\ merges' = st.merges

Returns(k, v, st) == /\ Becomes(st)
                     /\ four_pinned' = st.four
                     /\ stray_write' = st.stray
                     /\ contents' = [contents EXCEPT ![k] = v]
                     /\ doubt' = doubt \ {k}
                     /\ UNCHANGED failures

Put(k, v) == Calm /\ Room(k) /\ Returns(k, v, insert(St, k, v))
Delete(k) == Calm /\ Returns(k, None, remove(St, k))

\* A call ends with an error where a page cannot be had or .meta not be
\* written.  What it wrote to the pool stays, and so do its pins.  Other keys
\* are out of reach only if one half of a split was written to a new page.
Fails(k, st) ==
  /\ failures' = 1
  /\ \E cut \in st.cuts :
       /\ Becomes(cut)
       /\ doubt' = doubt \cup IF \A p \in PageIds : p >= next_page_id => cut.pages[p] = Zeroed
                                THEN {k} ELSE Keys
  /\ UNCHANGED <<contents, four_pinned, stray_write>>

PutFails(k, v) == Unhurt /\ Room(k) /\ Fails(k, insert(St, k, v))
DeleteFails(k) == Unhurt /\ Fails(k, remove(St, k))

Next == \/ \E e \in Entries : Put(e[1], e[2]) \/ PutFails(e[1], e[2])
        \/ \E k \in Keys : Delete(k) \/ DeleteFails(k)

Spec == Init /\ [][Next]_vars
---------------------------------------------------------------------------
Node(p) == read_node(St, p)
IsLeaf(p) == Node(p).node_type = "Leaf"

\* The pages of the tree by their distance from the root.
Layer == LET Below[n \in 0 .. MaxPages] ==
               IF n = 0 THEN {root_page_id} \ {None}
               ELSE UNION {Range(Node(p).children) : p \in Below[n - 1]}
         IN  Below
TreePages == UNION {Layer[n] : n \in 0 .. MaxPages}
LeafDepths == {n \in 0 .. MaxPages : \E p \in Layer[n] : IsLeaf(p)}

\* The entries of a map with a key from start to end, in key order.
EntriesOf(map, start, end) ==
  LET ks == {k \in Keys : start <= k /\ k <= end /\ map[k] # None}
  IN  [i \in 1 .. Cardinality(ks) |->
         LET k == CHOOSE x \in ks : Cardinality({y \in ks : y <= x}) = i
         IN  <<k, map[k]>>]

LeastKey == First(Keys)
GreatestKey == CHOOSE k \in Keys : \A j \in Keys : j <= k
Everything(map) == EntriesOf(map, LeastKey, GreatestKey)

\* What a scan lists after a step.
ScannedNext == range_scan([pages |-> pages'], root_page_id', LeastKey, GreatestKey)

(* A key is found with the value it was given by the last call, and no     *)
(* other key is, through any sequence of splits and borrowings, until the  *)
(* first merge (btree.rs:306-665).  A call that failed takes no more from  *)
(* this than the key it was for, unless half of a split was written to a   *)
(* new page: then any key may be out of reach, until it is put again.      *)
FindsExactly ==
  merges = 0 => \A k \in Keys \ doubt : search(St, root_page_id, k) = contents[k]

(* A range scan lists just the entries of its range, in key order and each *)
(* once: splits and borrowings keep the chain of leaves in step with the   *)
(* tree (btree.rs:756-794).                                                *)
ScansExactly ==
  merges = 0 /\ failures = 0 =>
    \A start, end \in Keys :
       range_scan(St, root_page_id, start, end) = EntriesOf(contents, start, end)

(* The call with the first merge joins the leaves and their chain          *)
(* correctly: a scan from the least key still lists everything, although   *)
(* the parent is in disorder by then (btree.rs:678-682, 709-713).          *)
ChainSurvivesMerge ==
  [][merges = 0 /\ failures' = 0 => ScannedNext = Everything(contents')]_vars

(* Wherever the first failing call breaks off, in a split on its way to    *)
(* the root, while parents are set or in a merge: the chain of leaves is   *)
(* complete, a scan misses no key and has at most the call's own key       *)
(* wrong, even if search cannot reach half of the keys (btree.rs:395-409). *)
FailureKeepsChain ==
  [][failures = 0 /\ failures' = 1 =>
       \E k \in Keys : \E v \in {None} \cup {e[2] : e \in Entries} :
          ScannedNext = Everything([contents EXCEPT ![k] = v])]_vars

(* Every child names its parent, the root names none: handle_underflow and *)
(* rebalance take the pointer for granted (btree.rs:551, 736-743).         *)
ParentsAgree ==
  merges = 0 /\ failures = 0 /\ root_page_id # None =>
    /\ Node(root_page_id).parent = None
    /\ \A p \in TreePages : \A c \in Range(Node(p).children) : Node(c).parent = p

(* All leaves have the same depth, and each node but the root has between  *)
(* min_keys and max_keys keys: handle_underflow repairs one child per      *)
(* level only, which must be enough.                                       *)
Balanced ==
  merges = 0 /\ failures = 0 /\ root_page_id # None =>
    /\ Cardinality(LeafDepths) = 1
    /\ \A p \in TreePages :
         /\ Len(Node(p).keys) <= max_keys
         /\ p # root_page_id => Len(Node(p).keys) >= min_keys

(* No internal node ever runs short of keys, the root included, since only *)
(* leaves are merged and that removes no key: remove never gets to         *)
(* children[0] of a root without children (btree.rs:491-492).              *)
InternalNeverShort ==
  \A p \in PageIds : ~IsLeaf(p) =>
     Len(Node(p).keys) >= IF p = root_page_id THEN 1 ELSE min_keys

(* Each call gives back every pin it took, on each of its paths, and one   *)
(* that fails keeps two pages at most, however deep the tree: the pool     *)
(* fills up by failing calls only, two frames at a time                    *)
(* (btree.rs:301-303 and its callers, buffer_pool.rs:255).                 *)
PinsReturned ==
  /\ failures = 0 => \A p \in PageIds : pin_count[p] = 0
  /\ \E a, b \in PageIds \cup {None} : \A p \in PageIds :
       pin_count[p] <= (IF p = a THEN 1 ELSE 0) + (IF p = b THEN 1 ELSE 0)

(* A call writes only to pages it has pinned at that moment.  This is what *)
(* keeps write_node from failing half-way through a split or a borrowing:  *)
(* a page that is not pinned may have been evicted, and write_page_data    *)
(* then answers PageNotFound (btree.rs:272-291, buffer_pool.rs:162-170).   *)
WritesArePinned == ~stray_write

(* No call holds more than three pins at once, splits and merges up the    *)
(* whole tree included: BufferPoolFull can only come from leaked pins in a *)
(* pool of three frames or more (buffer_pool.rs:229-257).                  *)
ThreePinsSuffice == ~four_pinned

(* openspec/specs.md:97: after a merge every remaining key is still found. *)
FoundAfterMerge ==
  \A k \in Keys : search(St, root_page_id, k) = contents[k]
===========================================================================
