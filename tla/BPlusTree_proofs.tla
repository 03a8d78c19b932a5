-------------------------- MODULE BPlusTree_proofs -------------------------
(***************************************************************************)
(* The tree for any order, any number of pages and entries and any         *)
(* sequence of calls, the first that fails and whatever comes behind       *)
(* merges included: its shape, its parent pointers and its pins.  First    *)
(* what the operations the calls are built from do to pages and pins, then *)
(* insert, then remove, then the invariant and the theorems.               *)
(***************************************************************************)
EXTENDS BPlusTree, NaturalOrder, SequenceTheorems, FiniteSetTheorems

PageOrNone == PageIds \cup {None}

Nodes == [node_type : {"Leaf", "Internal"}, keys : Seq(Nat), values : Seq(Nat),
          children : Seq(PageIds), next_leaf : PageOrNone, parent : PageOrNone]

Cuts == [pages : [PageIds -> Nodes], next : Nat, root : PageOrNone,
         pins : [PageIds -> Nat], merges : Nat]

States == [pages : [PageIds -> Nodes], next : Nat, root : PageOrNone,
           pins : [PageIds -> Nat], merges : Nat, held : Int, four : BOOLEAN,
           stray : BOOLEAN, written : [PageIds -> SUBSET Nodes], cuts : SUBSET Cuts]

(* Each page has a level, leaves have 0, and no more than max_keys keys.   *)
(* An internal node has a key at least, and min_keys unless it is the      *)
(* root; its children are one level below it, and the root is none of      *)
(* them.                                                                   *)
NodeOK(pg, nx, rt, L, p) ==
  /\ Len(pg[p].keys) <= max_keys
  /\ IF pg[p].node_type = "Leaf"
       THEN /\ L[p] = 0
            /\ pg[p].children = <<>>
            /\ Len(pg[p].values) = Len(pg[p].keys)
       ELSE /\ p < nx /\ 0 < L[p] /\ L[p] < nx
            /\ rt # None /\ pg[rt].node_type = "Internal"
            /\ Len(pg[p].keys) >= IF p = rt THEN 1 ELSE min_keys
            /\ Len(pg[p].children) = Len(pg[p].keys) + 1
            /\ \A i \in 1 .. Len(pg[p].children) :
                 LET c == pg[p].children[i]
                 IN  c < nx /\ c # rt /\ L[c] = L[p] - 1

(* A root whose parent was set by a call that failed names an empty page.  *)
RootOK(pg, nx, rt) ==
  rt # None => /\ rt < nx
               /\ \/ pg[rt].parent = None
                  \/ pg[rt].parent < nx /\ pg[pg[rt].parent].node_type = "Leaf"

Tree(pg, nx, rt, L) ==
  /\ pg \in [PageIds -> Nodes]
  /\ L \in [PageIds -> Nat]
  /\ nx \in 0 .. MaxPages
  /\ rt \in PageOrNone
  /\ RootOK(pg, nx, rt)
  /\ 0 \in PageIds => pg[0].node_type = "Leaf"
  /\ \A p \in PageIds : NodeOK(pg, nx, rt, L, p)

(* The pins b and one more for each of x, y and z that is a page.          *)
One(p, x) == IF p = x THEN 1 ELSE 0
Some(x) == IF x = None THEN 0 ELSE 1
PinsWith(b, x, y, z) == [p \in PageIds |-> b[p] + One(p, x) + One(p, y) + One(p, z)]

CutOK(c, b) ==
  /\ \E x, y \in PageOrNone : c.pins = PinsWith(b, x, y, None)
  /\ \E L : Tree(c.pages, c.next, c.root, L)

(* A call holds x, y and z, and has broken no rule so far.                 *)
Holds(s, b, x, y, z) ==
  /\ s \in States
  /\ b \in [PageIds -> Nat]
  /\ {x, y, z} \subseteq PageOrNone
  /\ s.pins = PinsWith(b, x, y, z)
  /\ s.held = Some(x) + Some(y) + Some(z)
  /\ ~s.four /\ ~s.stray
  /\ \A c \in s.cuts : CutOK(c, b)

TreeOf(s, L) == Tree(s.pages, s.next, s.root, L)

(* Nothing but pins and notes changes from s to t.                         *)
SameTree(t, s) == /\ t.pages = s.pages
                  /\ t.next = s.next
                  /\ t.root = s.root
                  /\ t.merges = s.merges

Wrote(pg2, pg, p, node) == pg2 = [pg EXCEPT ![p] = node]

SameRoot(t, s) == t.next = s.next /\ t.root = s.root /\ t.merges = s.merges

LEMMA PageFacts == /\ PageIds \subseteq Nat /\ None \notin PageIds
                   /\ PageIds = 0 .. MaxPages - 1 /\ MaxPages \in Nat
                   /\ Order \in Nat /\ Order >= 3
                   /\ min_keys \in Nat /\ min_keys >= 1
                   /\ max_keys \in Nat /\ max_keys >= 2
<1>1. MaxPages \in Nat /\ Order \in Nat /\ Order >= 3 /\ None \notin Nat
  BY TreeAssumption
<1>2. (Order + 1) \div 2 >= 2 /\ (Order + 1) \div 2 \in Nat
  BY <1>1
<1> QED BY <1>1, <1>2 DEF PageIds, min_keys, max_keys

LEMMA NodeFacts ==
  ASSUME NEW pg \in [PageIds -> Nodes], NEW p \in PageIds
  PROVE  /\ pg[p] \in Nodes
         /\ pg[p].keys \in Seq(Nat) /\ Len(pg[p].keys) \in Nat
         /\ pg[p].children \in Seq(PageIds) /\ Len(pg[p].children) \in Nat
         /\ \A i \in 1 .. Len(pg[p].children) : pg[p].children[i] \in PageIds
         /\ pg[p].parent \in PageOrNone
<1>1. pg[p] \in Nodes
  OBVIOUS
<1>2. pg[p].keys \in Seq(Nat) /\ pg[p].children \in Seq(PageIds) /\ pg[p].parent \in PageOrNone
  BY <1>1 DEF Nodes
<1> QED BY <1>1, <1>2

LEMMA HoldsAny ==
  ASSUME NEW s, NEW b, NEW x, NEW y, NEW z, Holds(s, b, x, y, z)
  PROVE  Holds(s, b, y, x, z) /\ Holds(s, b, x, z, y)
<1>1. /\ b \in [PageIds -> Nat] /\ {x, y, z} \subseteq PageOrNone
      /\ s.pins = PinsWith(b, x, y, z)
      /\ s.held = Some(x) + Some(y) + Some(z)
  BY DEF Holds
<1>2. \A p : One(p, x) \in Nat /\ One(p, y) \in Nat /\ One(p, z) \in Nat
  BY DEF One
<1>3. PinsWith(b, x, y, z) = PinsWith(b, y, x, z) /\ PinsWith(b, x, y, z) = PinsWith(b, x, z, y)
  BY <1>1, <1>2 DEF PinsWith
<1>4. Some(x) \in Nat /\ Some(y) \in Nat /\ Some(z) \in Nat
  BY DEF Some
<1> QED BY <1>1, <1>3, <1>4 DEF Holds

LEMMA MayFailHolds ==
  ASSUME NEW s, NEW b, NEW x, NEW y, NEW L,
         Holds(s, b, x, y, None), TreeOf(s, L)
  PROVE  /\ Holds(MayFail(s), b, x, y, None)
         /\ SameTree(MayFail(s), s)
         /\ MayFail(s).pins = s.pins
<1>1. s \in States
  BY DEF Holds
<1>2. Cut(s) \in Cuts /\ CutOK(Cut(s), b)
  <2>1. Cut(s) \in Cuts
    BY <1>1 DEF Cut, Cuts, States
  <2>2. x \in PageOrNone /\ y \in PageOrNone /\ Cut(s).pins = PinsWith(b, x, y, None)
    BY DEF Holds, Cut
  <2>3. Tree(Cut(s).pages, Cut(s).next, Cut(s).root, L)
    BY DEF TreeOf, Cut
  <2> QED BY <2>1, <2>2, <2>3 DEF CutOK
<1>3. CASE ~Unhurt
  BY <1>3 DEF MayFail, SameTree
<1>4. CASE Unhurt
  <2> DEFINE t == [s EXCEPT !.cuts = s.cuts \cup {Cut(s)}]
  <2>1. MayFail(s) = t
    BY <1>4 DEF MayFail
  <2>2. /\ t \in States /\ t.cuts = s.cuts \cup {Cut(s)}
        /\ t.pages = s.pages /\ SameRoot(t, s)
        /\ t.pins = s.pins /\ t.held = s.held /\ t.four = s.four /\ t.stray = s.stray
    BY <1>1, <1>2 DEF States, SameRoot
  <2> HIDE DEF t
  <2>3. \A c \in t.cuts : CutOK(c, b)
    BY <1>2, <2>2 DEF Holds
  <2> QED BY <2>1, <2>2, <2>3 DEF Holds, SameTree, SameRoot
<1> QED BY <1>3, <1>4

LEMMA PinHolds ==
  ASSUME NEW s, NEW b, NEW x, NEW y, NEW p \in PageIds, Holds(s, b, x, y, None)
  PROVE  Holds(Pin(s, p), b, x, y, p) /\ SameTree(Pin(s, p), s)
<1> DEFINE t == Pin(s, p)
<1>1. /\ s \in States /\ b \in [PageIds -> Nat] /\ {x, y} \subseteq PageOrNone
      /\ s.pins = PinsWith(b, x, y, None) /\ s.held = Some(x) + Some(y) + Some(None)
      /\ ~s.four /\ ~s.stray
  BY DEF Holds
<1>2. /\ s.pins \in [PageIds -> Nat] /\ s.held \in 0 .. 2 /\ p # None
  BY <1>1, PageFacts DEF States, Some
<1> DEFINE P == [s.pins EXCEPT ![p] = s.pins[p] + 1]
           h == s.held + 1
           f == s.four \/ s.held = 3
<1>3. /\ t \in States /\ SameTree(t, s) /\ t.pins = P /\ t.held = h /\ t.four = f
      /\ t.stray = s.stray /\ t.cuts = s.cuts
  <2>1. P \in [PageIds -> Nat] /\ h \in Int /\ f \in BOOLEAN
    BY <1>1, <1>2
  <2>2. t = [s EXCEPT !.pins = P, !.held = h, !.four = f]
    BY DEF Pin
  <2>3. s \in States
    BY <1>1
  <2> HIDE DEF P, t, h, f
  <2> QED BY <2>1, <2>2, <2>3 DEF States, SameTree
<1> HIDE DEF t
<1>4. t.pins = PinsWith(b, x, y, p)
  <2>1. t.pins = [q \in PageIds |-> s.pins[q] + One(q, p)]
    BY <1>2, <1>3 DEF One
  <2>2. \A q \in PageIds : s.pins[q] = b[q] + One(q, x) + One(q, y)
    BY <1>1, PageFacts DEF PinsWith, One
  <2> QED BY <2>1, <2>2 DEF PinsWith
<1>5. t.held = Some(x) + Some(y) + Some(p) /\ ~t.four
  <2>1. Some(None) = 0 /\ Some(p) = 1 /\ Some(x) \in Nat /\ Some(y) \in Nat
    BY <1>2 DEF Some
  <2>2. t.held = h /\ t.four = f
    BY <1>3
  <2>3. h = Some(x) + Some(y) + Some(p) /\ ~f
    BY <1>1, <1>2, <2>1
  <2> QED BY <2>2, <2>3
<1>6. \A c \in t.cuts : CutOK(c, b)
  BY <1>3 DEF Holds
<1>7. {x, y, p} \subseteq PageOrNone
  BY <1>1 DEF PageOrNone
<1> QED BY <1>1, <1>3, <1>4, <1>5, <1>6, <1>7 DEF Holds, SameTree, t

\* A pin more, at most the third.
LEMMA FetchHolds ==
  ASSUME NEW s, NEW b, NEW x, NEW y, NEW L, NEW p \in PageIds,
         Holds(s, b, x, y, None), TreeOf(s, L)
  PROVE  Holds(fetch(s, p), b, x, y, p) /\ SameTree(fetch(s, p), s)
<1> DEFINE m == MayFail(s)
<1>1. Holds(m, b, x, y, None) /\ SameTree(m, s)
  BY MayFailHolds
<1> HIDE DEF m
<1>2. Holds(Pin(m, p), b, x, y, p) /\ SameTree(Pin(m, p), m)
  BY <1>1, PinHolds
<1> QED BY <1>1, <1>2 DEF fetch, SameTree, m

LEMMA ReleaseHolds ==
  ASSUME NEW s, NEW b, NEW x, NEW y, NEW p \in PageIds, Holds(s, b, x, y, p)
  PROVE  Holds(release_node(s, p), b, x, y, None) /\ SameTree(release_node(s, p), s)
<1> DEFINE t == release_node(s, p)
<1>1. /\ s \in States /\ b \in [PageIds -> Nat] /\ {x, y} \subseteq PageOrNone
      /\ s.pins = PinsWith(b, x, y, p) /\ s.held = Some(x) + Some(y) + Some(p)
      /\ ~s.four /\ ~s.stray
  BY DEF Holds
<1>2. /\ s.pins \in [PageIds -> Nat] /\ s.held \in Int /\ p # None /\ s.pins[p] > 0
  <2>1. s.pins[p] = b[p] + One(p, x) + One(p, y) + One(p, p)
    BY <1>1 DEF PinsWith
  <2>2. One(p, p) = 1 /\ One(p, x) \in Nat /\ One(p, y) \in Nat /\ b[p] \in Nat
    BY <1>1 DEF One
  <2>3. s.pins \in [PageIds -> Nat] /\ s.held \in Int /\ p # None
    BY <1>1, PageFacts DEF States
  <2> QED BY <2>1, <2>2, <2>3
<1> DEFINE P == [s.pins EXCEPT ![p] = s.pins[p] - 1]
           h == s.held - 1
           f == s.four
<1>3. /\ t \in States /\ SameTree(t, s) /\ t.pins = P /\ t.held = h /\ t.four = f
      /\ t.stray = s.stray /\ t.cuts = s.cuts
  <2>1. P \in [PageIds -> Nat] /\ h \in Int /\ f \in BOOLEAN
    BY <1>1, <1>2 DEF States
  <2>2. t = [s EXCEPT !.pins = P, !.held = h, !.four = f]
    <3>1. [s EXCEPT !.pins[p] = IF @ > 0 THEN @ - 1 ELSE 0, !.held = @ - 1]
          = [s EXCEPT !.pins = P, !.held = h]
      BY <1>2
    <3> HIDE DEF P, h
    <3>2. [s EXCEPT !.pins = P, !.held = h] = [s EXCEPT !.pins = P, !.held = h, !.four = f]
      BY <1>1 DEF States
    <3> QED BY <3>1, <3>2 DEF release_node
  <2>3. s \in States
    BY <1>1
  <2> HIDE DEF P, t, h, f
  <2> QED BY <2>1, <2>2, <2>3 DEF States, SameTree
<1> HIDE DEF t
<1>4. t.pins = PinsWith(b, x, y, None)
  <2>1. t.pins = [q \in PageIds |-> s.pins[q] - One(q, p)]
    BY <1>2, <1>3 DEF One
  <2>2. \A q \in PageIds : s.pins[q] = b[q] + One(q, x) + One(q, y) + One(q, p)
    BY <1>1 DEF PinsWith
  <2>3. \A q \in PageIds : One(q, None) = 0
    BY PageFacts DEF One
  <2>4. \A q \in PageIds : b[q] \in Nat /\ One(q, x) \in Nat /\ One(q, y) \in Nat /\ One(q, p) \in Nat
    BY <1>1 DEF One
  <2> QED BY <2>1, <2>2, <2>3, <2>4 DEF PinsWith
<1>5. t.held = Some(x) + Some(y) + Some(None)
  <2>1. Some(None) = 0 /\ Some(p) = 1 /\ Some(x) \in Nat /\ Some(y) \in Nat
    BY <1>2 DEF Some
  <2> QED BY <1>1, <1>2, <1>3, <2>1
<1>6. \A c \in t.cuts : CutOK(c, b)
  BY <1>3 DEF Holds
<1>7. {x, y, None} \subseteq PageOrNone
  BY <1>1 DEF PageOrNone
<1> QED BY <1>1, <1>3, <1>4, <1>5, <1>6, <1>7 DEF Holds, SameTree, t

\* A node is written as it is read back, to a page that is pinned.
LEMMA WriteHolds ==
  ASSUME NEW s, NEW b, NEW x, NEW y, NEW p \in PageIds, NEW node,
         Holds(s, b, x, y, p), deserialize(node) \in Nodes,
         NEW t, t = write_node(s, p, node)
  PROVE  /\ Holds(t, b, x, y, p)
         /\ Wrote(t.pages, s.pages, p, deserialize(node))
         /\ SameRoot(t, s)
<1> DEFINE page == deserialize(node)
           W == [s.written EXCEPT ![p] = @ \cup {page}]
           G == [s.pages EXCEPT ![p] = page]
           f == s.stray \/ s.pins[p] = 0
<1>1. /\ s \in States /\ s.pins = PinsWith(b, x, y, p) /\ b \in [PageIds -> Nat]
      /\ ~s.stray
  BY DEF Holds
<1>2. s.pins[p] # 0
  <2>1. s.pins[p] = b[p] + One(p, x) + One(p, y) + One(p, p)
    BY <1>1 DEF PinsWith
  <2>2. One(p, p) = 1 /\ One(p, x) \in Nat /\ One(p, y) \in Nat /\ b[p] \in Nat
    BY <1>1 DEF One
  <2> QED BY <2>1, <2>2
<1>3. W \in [PageIds -> SUBSET Nodes] /\ G \in [PageIds -> Nodes] /\ f \in BOOLEAN /\ ~f
  <2>1. s.pages \in [PageIds -> Nodes] /\ s.written \in [PageIds -> SUBSET Nodes]
    BY <1>1 DEF States
  <2>2. page \in Nodes
    OBVIOUS
  <2> HIDE DEF page
  <2>3. W \in [PageIds -> SUBSET Nodes] /\ G \in [PageIds -> Nodes]
    BY <2>1, <2>2
  <2> QED BY <1>1, <1>2, <2>3
<1>4. t = [s EXCEPT !.pages = G, !.written = W, !.stray = f]
  BY DEF write_node
<1> HIDE DEF W, G, f, page
<1>5. /\ t \in States /\ t.pages = G /\ t.stray = f /\ t.pins = s.pins
      /\ t.held = s.held /\ t.four = s.four /\ t.cuts = s.cuts
      /\ SameRoot(t, s)
  BY <1>1, <1>3, <1>4 DEF States, SameRoot
<1>6. Holds(t, b, x, y, p)
  BY <1>3, <1>5 DEF Holds
<1> QED BY <1>5, <1>6 DEF G, page, Wrote

LEMMA DoneHolds ==
  ASSUME NEW s, NEW b, NEW x, NEW y, NEW p \in PageIds, NEW node,
         Holds(s, b, x, y, p), deserialize(node) \in Nodes,
         NEW t, t = Done(s, p, node)
  PROVE  /\ Holds(t, b, x, y, None)
         /\ Wrote(t.pages, s.pages, p, deserialize(node))
         /\ SameRoot(t, s)
<1> DEFINE m == write_node(s, p, node)
<1>1. /\ Holds(m, b, x, y, p)
      /\ Wrote(m.pages, s.pages, p, deserialize(node))
      /\ SameRoot(m, s)
  BY WriteHolds
<1> HIDE DEF m
<1>2. Holds(release_node(m, p), b, x, y, None) /\ SameTree(release_node(m, p), m)
  BY <1>1, ReleaseHolds
<1> QED BY <1>1, <1>2 DEF Done, SameTree, m, SameRoot

\* Only fetches and saves can fail.
LEMMA CutsKept ==
  ASSUME NEW s \in States, NEW p
  PROVE  /\ Pin(s, p).cuts = s.cuts
         /\ release_node(s, p).cuts = s.cuts
         /\ \A node : write_node(s, p, node).cuts = s.cuts
BY DEF States, Pin, release_node, write_node

LEMMA DoneCuts ==
  ASSUME NEW s, NEW b, NEW x, NEW y, NEW p \in PageIds, NEW node,
         Holds(s, b, x, y, p), deserialize(node) \in Nodes
  PROVE  Done(s, p, node).cuts = s.cuts
<1> DEFINE m == write_node(s, p, node)
<1>1. Holds(m, b, x, y, p)
  BY WriteHolds
<1>2. m.cuts = s.cuts
  BY CutsKept DEF Holds
<1> HIDE DEF m
<1>3. release_node(m, p).cuts = m.cuts
  BY <1>1, CutsKept DEF Holds
<1> QED BY <1>2, <1>3 DEF Done, m

LEMMA SaveHolds ==
  ASSUME NEW s, NEW b, NEW L, Holds(s, b, None, None, None), TreeOf(s, L)
  PROVE  Holds(save_metadata(s), b, None, None, None) /\ SameTree(save_metadata(s), s)
BY MayFailHolds DEF save_metadata

LEMMA VisitHolds ==
  ASSUME NEW s, NEW b, NEW x, NEW y, NEW L, NEW p \in PageIds,
         Holds(s, b, x, y, None), TreeOf(s, L)
  PROVE  Holds(visit(s, p), b, x, y, None) /\ SameTree(visit(s, p), s)
<1> DEFINE m == fetch(s, p)
<1>1. Holds(m, b, x, y, p) /\ SameTree(m, s)
  BY FetchHolds
<1> HIDE DEF m
<1>2. Holds(release_node(m, p), b, x, y, None) /\ SameTree(release_node(m, p), m)
  BY <1>1, ReleaseHolds
<1> QED BY <1>1, <1>2 DEF visit, SameTree, m

LEMMA SameTreeOf ==
  ASSUME NEW s, NEW t, NEW L, SameTree(t, s), TreeOf(s, L)
  PROVE  TreeOf(t, L)
BY DEF SameTree, TreeOf

Visits(f, N, st, ps) ==
  f = [n \in 0 .. N |-> IF n = 0 THEN st ELSE visit(f[n - 1], ps[n])]

LEMMA VisitsExist ==
  ASSUME NEW st, NEW ps, NEW N \in Nat
  PROVE  \E f : Visits(f, N, st, ps)
<1> DEFINE T == {m \in Nat : \E f : Visits(f, m, st, ps)}
<1>1. 0 \in T
  <2> DEFINE f == [n \in 0 .. 0 |-> st]
  <2>1. f = [n \in 0 .. 0 |-> IF n = 0 THEN st ELSE visit(f[n - 1], ps[n])]
    OBVIOUS
  <2> QED BY <2>1 DEF Visits
<1>2. ASSUME NEW m \in 1 .. N, m - 1 \in T PROVE m \in T
  <2>1. PICK f : Visits(f, m - 1, st, ps)
    BY <1>2
  <2> DEFINE g == [n \in 0 .. m |-> IF n = m THEN visit(f[m - 1], ps[m]) ELSE f[n]]
  <2>2. /\ g[m] = visit(f[m - 1], ps[m]) /\ m # 0
        /\ \A n \in 0 .. m - 1 : g[n] = f[n]
        /\ \A n \in 0 .. m : n = m \/ n \in 0 .. m - 1
        /\ \A n \in 0 .. m : n # 0 => g[n - 1] = f[n - 1]
        /\ g = [n \in 0 .. m |-> g[n]]
    OBVIOUS
  <2> HIDE DEF g
  <2>3. \A n \in 0 .. m - 1 : f[n] = IF n = 0 THEN st ELSE visit(f[n - 1], ps[n])
    BY <2>1 DEF Visits
  <2>4. ASSUME NEW n \in 0 .. m
        PROVE  g[n] = IF n = 0 THEN st ELSE visit(g[n - 1], ps[n])
    <3>1. n # 0 => g[n - 1] = f[n - 1]
      BY <2>2
    <3>2. n # m => g[n] = IF n = 0 THEN st ELSE visit(f[n - 1], ps[n])
      BY <2>2, <2>3
    <3> QED BY <2>2, <3>1, <3>2
  <2>5. g = [n \in 0 .. m |-> IF n = 0 THEN st ELSE visit(g[n - 1], ps[n])]
    BY <2>2, <2>4
  <2> QED BY <2>5 DEF Visits
<1>3. N \in T
  <2> HIDE DEF T
  <2> QED BY <1>1, <1>2, UpTo
<1> QED BY <1>3

LEMMA VisitEachHolds ==
  ASSUME NEW s, NEW b, NEW x, NEW y, NEW L, NEW ps \in Seq(PageIds),
         Holds(s, b, x, y, None), TreeOf(s, L)
  PROVE  Holds(visit_each(s, ps), b, x, y, None) /\ SameTree(visit_each(s, ps), s)
<1> DEFINE N == Len(ps)
           f == CHOOSE f : f = [n \in 0 .. N |-> IF n = 0 THEN s ELSE visit(f[n - 1], ps[n])]
           T == {n \in 0 .. N : Holds(f[n], b, x, y, None) /\ SameTree(f[n], s)}
<1>1. visit_each(s, ps) = f[N]
  BY DEF visit_each
<1>2. N \in Nat /\ \A n \in 1 .. N : ps[n] \in PageIds
  OBVIOUS
<1> HIDE DEF N
<1>3. f = [n \in 0 .. N |-> IF n = 0 THEN s ELSE visit(f[n - 1], ps[n])]
  <2> HIDE DEF f
  <2>1. \E g : Visits(g, N, s, ps)
    BY <1>2, VisitsExist
  <2> QED BY <2>1 DEF Visits, f
<1> HIDE DEF f
<1>4. 0 \in T
  BY <1>2, <1>3 DEF SameTree
<1>5. ASSUME NEW n \in 1 .. N, n - 1 \in T PROVE n \in T
  <2>1. /\ Holds(f[n - 1], b, x, y, None) /\ SameTree(f[n - 1], s) /\ ps[n] \in PageIds
        /\ f[n] = visit(f[n - 1], ps[n]) /\ n \in 0 .. N
    BY <1>2, <1>3, <1>5
  <2>2. TreeOf(f[n - 1], L)
    BY <2>1, SameTreeOf
  <2>3. Holds(f[n], b, x, y, None) /\ SameTree(f[n], f[n - 1])
    BY <2>1, <2>2, VisitHolds
  <2> QED BY <2>1, <2>3 DEF SameTree
<1>6. N \in T
  <2>1. N \in Nat /\ N \in 0 .. N
    BY <1>2
  <2> HIDE DEF T
  <2>2. \A n \in 1 .. N : n - 1 \in T => n \in T
    BY <1>5
  <2>3. \A n \in 0 .. N : n \in T
    BY <1>4, <2>1, <2>2, UpTo
  <2> QED BY <2>1, <2>3
<1> QED BY <1>1, <1>6
---------------------------------------------------------------------------
(* Parents.                                                                *)

\* A node that is read back as it was written.
Whole(node) == \/ node.node_type = "Leaf"
               \/ Len(node.keys) >= 1 /\ Len(node.children) = Len(node.keys) + 1

LEMMA ReadsBack ==
  ASSUME NEW node \in Nodes, Whole(node)
  PROVE  deserialize(node) = node
<1>1. CASE node.node_type = "Leaf"
  BY <1>1 DEF deserialize
<1>2. CASE node.node_type # "Leaf"
  <2>1. Len(node.keys) >= 1 /\ Len(node.children) = Len(node.keys) + 1
    BY <1>2 DEF Whole
  <2>2. node.keys \in Seq(Nat)
    BY DEF Nodes
  <2>3. node.keys # <<>> /\ Len(node.children) # Len(node.keys)
    BY <2>1, <2>2
  <2>4. deserialize(node) = [node EXCEPT !.children = node.children]
    BY <1>2, <2>3 DEF deserialize
  <2> QED BY <2>4 DEF Nodes
<1> QED BY <1>1, <1>2

LEMMA TreeFacts ==
  ASSUME NEW s, NEW L, TreeOf(s, L), NEW p \in PageIds
  PROVE  s.pages[p] \in Nodes /\ Whole(s.pages[p])
<1>1. s.pages[p] \in Nodes /\ NodeOK(s.pages, s.next, s.root, L, p)
  BY DEF TreeOf, Tree
<1>2. s.pages[p].keys \in Seq(Nat) /\ min_keys >= 1 /\ min_keys \in Nat
  BY <1>1, PageFacts DEF Nodes
<1> QED BY <1>1, <1>2 DEF NodeOK, Whole

\* Two nodes that differ in their parents only.
Akin(a, b) == /\ a.node_type = b.node_type /\ a.keys = b.keys
              /\ a.values = b.values /\ a.children = b.children

LEMMA TreeAkin ==
  ASSUME NEW pg, NEW nx, NEW rt, NEW L, Tree(pg, nx, rt, L),
         NEW pg2 \in [PageIds -> Nodes], \A p \in PageIds : Akin(pg2[p], pg[p]),
         RootOK(pg2, nx, rt)
  PROVE  Tree(pg2, nx, rt, L)
<1>1. /\ nx \in 0 .. MaxPages /\ L \in [PageIds -> Nat] /\ rt \in PageOrNone
      /\ 0 \in PageIds => pg[0].node_type = "Leaf"
      /\ \A p \in PageIds : NodeOK(pg, nx, rt, L, p)
  BY DEF Tree
<1>2. 0 \in PageIds => pg2[0].node_type = "Leaf"
  BY <1>1 DEF Akin
<1>3. rt # None => rt \in PageIds /\ pg2[rt].node_type = pg[rt].node_type
  BY <1>1 DEF Akin, PageOrNone
<1>4. ASSUME NEW p \in PageIds PROVE NodeOK(pg2, nx, rt, L, p)
  <2>1. NodeOK(pg, nx, rt, L, p) /\ Akin(pg2[p], pg[p])
    BY <1>1
  <2> QED BY <1>3, <2>1 DEF NodeOK, Akin
<1> QED BY <1>1, <1>2, <1>4 DEF Tree

Reparented(pg2, pg, S, parent) ==
  pg2 = [p \in PageIds |-> IF p \in S THEN [pg[p] EXCEPT !.parent = parent] ELSE pg[p]]

LEMMA ReparentedTree ==
  ASSUME NEW s, NEW L, TreeOf(s, L), NEW S, NEW parent \in PageOrNone, NEW pg2,
         Reparented(pg2, s.pages, S, parent),
         \/ s.root \notin S
         \/ parent = None
         \/ parent < s.next /\ s.pages[parent].node_type = "Leaf"
  PROVE  Tree(pg2, s.next, s.root, L)
<1> DEFINE pg == s.pages
           rt == s.root
<1>1. pg \in [PageIds -> Nodes] /\ rt \in PageOrNone /\ RootOK(pg, s.next, rt)
  BY DEF TreeOf, Tree
<1>2. \A p \in PageIds : /\ pg2[p] \in Nodes /\ Akin(pg2[p], pg[p])
                         /\ pg2[p].parent = IF p \in S THEN parent ELSE pg[p].parent
  BY <1>1 DEF Reparented, Nodes, Akin
<1>3. pg2 \in [PageIds -> Nodes]
  <2>1. pg2 = [p \in PageIds |-> pg2[p]]
    BY DEF Reparented
  <2> QED BY <1>2, <2>1
<1>4. RootOK(pg2, s.next, rt)
  <2> SUFFICES ASSUME rt # None PROVE RootOK(pg2, s.next, rt)
    BY DEF RootOK
  <2>1. /\ rt \in PageIds /\ rt < s.next
        /\ \/ pg[rt].parent = None
           \/ pg[rt].parent < s.next /\ pg[pg[rt].parent].node_type = "Leaf"
    BY <1>1 DEF RootOK, PageOrNone
  <2>2. \A q \in PageOrNone : q # None => pg2[q].node_type = pg[q].node_type
    BY <1>2 DEF Akin, PageOrNone
  <2>3. pg[rt].parent \in PageOrNone
    BY <1>1, <2>1 DEF Nodes
  <2>4. pg2[rt].parent = IF rt \in S THEN parent ELSE pg[rt].parent
    BY <1>2, <2>1
  <2> QED BY <2>1, <2>2, <2>3, <2>4 DEF RootOK
<1>5. Tree(pg, s.next, rt, L)
  BY DEF TreeOf
<1> HIDE DEF pg, rt
<1> QED BY <1>2, <1>3, <1>4, <1>5, TreeAkin DEF pg, rt

LEMMA UpdateParentHolds ==
  ASSUME NEW s, NEW b, NEW x, NEW y, NEW L, NEW c \in PageIds, NEW parent \in PageOrNone,
         Holds(s, b, x, y, None), TreeOf(s, L), NEW t, t = update_parent(s, c, parent)
  PROVE  /\ Holds(t, b, x, y, None)
         /\ Reparented(t.pages, s.pages, {c}, parent)
         /\ SameRoot(t, s)
<1> DEFINE m == fetch(s, c)
           node == [s.pages[c] EXCEPT !.parent = parent]
<1>1. Holds(m, b, x, y, c) /\ SameTree(m, s)
  BY FetchHolds
<1>2. s.pages[c] \in Nodes /\ Whole(s.pages[c])
  BY TreeFacts
<1>3. node \in Nodes /\ Whole(node)
  BY <1>2 DEF Nodes, Whole
<1> HIDE DEF m, node
<1>4. deserialize(node) = node
  BY <1>3, ReadsBack
<1>6. t = Done(m, c, node)
  BY DEF update_parent, m, node, read_node
<1>5. /\ Holds(t, b, x, y, None)
      /\ Wrote(t.pages, m.pages, c, node)
      /\ SameRoot(t, m)
  BY <1>1, <1>3, <1>4, <1>6, DoneHolds
<1>7. Reparented(t.pages, s.pages, {c}, parent)
  <2>1. s.pages \in [PageIds -> Nodes] /\ t.pages = [s.pages EXCEPT ![c] = node]
    BY <1>1, <1>5 DEF SameTree, TreeOf, Tree, Wrote
  <2> QED BY <2>1 DEF Reparented, node
<1> QED BY <1>1, <1>5, <1>7 DEF SameTree, SameRoot

Updates(f, N, st, ps, parent) ==
  f = [n \in 0 .. N |-> IF n = 0 THEN st ELSE update_parent(f[n - 1], ps[n], parent)]

LEMMA UpdatesExist ==
  ASSUME NEW st, NEW ps, NEW parent, NEW N \in Nat
  PROVE  \E f : Updates(f, N, st, ps, parent)
<1> DEFINE T == {m \in Nat : \E f : Updates(f, m, st, ps, parent)}
<1>1. 0 \in T
  <2> DEFINE f == [n \in 0 .. 0 |-> st]
  <2>1. f = [n \in 0 .. 0 |-> IF n = 0 THEN st ELSE update_parent(f[n - 1], ps[n], parent)]
    OBVIOUS
  <2> QED BY <2>1 DEF Updates
<1>2. ASSUME NEW m \in 1 .. N, m - 1 \in T PROVE m \in T
  <2>1. PICK f : Updates(f, m - 1, st, ps, parent)
    BY <1>2
  <2> DEFINE g == [n \in 0 .. m |-> IF n = m THEN update_parent(f[m - 1], ps[m], parent)
                                    ELSE f[n]]
  <2>2. /\ g[m] = update_parent(f[m - 1], ps[m], parent) /\ m # 0
        /\ \A n \in 0 .. m - 1 : g[n] = f[n]
        /\ \A n \in 0 .. m : n = m \/ n \in 0 .. m - 1
        /\ \A n \in 0 .. m : n # 0 => g[n - 1] = f[n - 1]
        /\ g = [n \in 0 .. m |-> g[n]]
    OBVIOUS
  <2> HIDE DEF g
  <2>3. \A n \in 0 .. m - 1 : f[n] = IF n = 0 THEN st ELSE update_parent(f[n - 1], ps[n], parent)
    BY <2>1 DEF Updates
  <2>4. \A n \in 0 .. m : g[n] = IF n = 0 THEN st ELSE update_parent(g[n - 1], ps[n], parent)
    BY <2>2, <2>3
  <2>5. g = [n \in 0 .. m |-> IF n = 0 THEN st ELSE update_parent(g[n - 1], ps[n], parent)]
    BY <2>2, <2>4
  <2> QED BY <2>5 DEF Updates
<1>3. N \in T
  <2> HIDE DEF T
  <2> QED BY <1>1, <1>2, UpTo
<1> QED BY <1>3

\* One after the other, with one pin.
LEMMA UpdateParentsHolds ==
  ASSUME NEW s, NEW b, NEW x, NEW y, NEW L, NEW ps \in Seq(PageIds), NEW parent \in PageOrNone,
         Holds(s, b, x, y, None), TreeOf(s, L),
         \/ \A i \in 1 .. Len(ps) : ps[i] # s.root
         \/ parent = None
         \/ parent < s.next /\ s.pages[parent].node_type = "Leaf",
         NEW t, t = update_parents(s, ps, parent)
  PROVE  /\ Holds(t, b, x, y, None)
         /\ Reparented(t.pages, s.pages, {ps[i] : i \in 1 .. Len(ps)}, parent)
         /\ SameRoot(t, s)
         /\ TreeOf(t, L)
<1> DEFINE N == Len(ps)
           f == CHOOSE f : f = [n \in 0 .. N |-> IF n = 0 THEN s
                                                 ELSE update_parent(f[n - 1], ps[n], parent)]
           S(n) == {ps[i] : i \in 1 .. n}
           P(n) == /\ Holds(f[n], b, x, y, None)
                   /\ Reparented(f[n].pages, s.pages, S(n), parent)
                   /\ SameRoot(f[n], s)
           T == {n \in 0 .. N : P(n)}
<1>1. t = f[N]
  BY DEF update_parents
<1>2. N \in Nat /\ \A n \in 1 .. N : ps[n] \in PageIds
  OBVIOUS
<1>3. s.pages \in [PageIds -> Nodes]
  BY DEF TreeOf, Tree
<1>4. \/ \A n \in 0 .. N : s.root \notin S(n)
      \/ parent = None
      \/ parent < s.next /\ s.pages[parent].node_type = "Leaf"
  OBVIOUS
<1> HIDE DEF N
<1>5. f = [n \in 0 .. N |-> IF n = 0 THEN s ELSE update_parent(f[n - 1], ps[n], parent)]
  <2> HIDE DEF f
  <2>1. \E g : Updates(g, N, s, ps, parent)
    BY <1>2, UpdatesExist
  <2> QED BY <2>1 DEF Updates, f
<1> HIDE DEF f
<1>6. 0 \in T
  <2>1. f[0] = s /\ S(0) = {} /\ 0 \in 0 .. N
    BY <1>2, <1>5
  <2>2. Reparented(s.pages, s.pages, S(0), parent)
    BY <1>3, <2>1 DEF Reparented
  <2> QED BY <2>1, <2>2 DEF SameRoot
<1>7. ASSUME NEW n \in 0 .. N, P(n) PROVE TreeOf(f[n], L)
  <2>1. Reparented(f[n].pages, s.pages, S(n), parent)
    BY <1>7
  <2> HIDE DEF S
  <2>2. Tree(f[n].pages, s.next, s.root, L)
    BY <1>4, <2>1, ReparentedTree
  <2> QED BY <1>7, <2>2 DEF TreeOf, SameRoot
<1>8. ASSUME NEW n \in 1 .. N, n - 1 \in T PROVE n \in T
  <2>1. /\ n - 1 \in 0 .. N /\ P(n - 1) /\ ps[n] \in PageIds
        /\ f[n] = update_parent(f[n - 1], ps[n], parent) /\ n \in 0 .. N
    BY <1>2, <1>5, <1>8
  <2>2. TreeOf(f[n - 1], L)
    BY <1>7, <2>1
  <2> DEFINE e == f[n - 1]
             c == ps[n]
             u == f[n]
  <2>3. Holds(e, b, x, y, None) /\ c \in PageIds /\ TreeOf(e, L)
    BY <2>1, <2>2
  <2> HIDE DEF e, c
  <2>4. u = update_parent(e, c, parent)
    BY <2>1 DEF e, c
  <2>5. /\ Holds(u, b, x, y, None)
        /\ Reparented(u.pages, e.pages, {c}, parent)
        /\ SameRoot(u, e)
    <3> HIDE DEF u, P, S, T
    <3>1. Holds(u, b, x, y, None)
      BY <2>3, <2>4, UpdateParentHolds
    <3>2. Reparented(u.pages, e.pages, {c}, parent)
      BY <2>3, <2>4, UpdateParentHolds
    <3>3. SameRoot(u, e)
      BY <2>3, <2>4, <3>1, <3>2, UpdateParentHolds
    <3> QED BY <3>1, <3>2, <3>3
  <2>6. /\ Reparented(e.pages, s.pages, S(n - 1), parent)
        /\ SameRoot(e, s)
    BY <2>1 DEF e
  <2>7. S(n) = S(n - 1) \cup {c}
    <3>1. \A i : i \in 1 .. n <=> i \in 1 .. n - 1 \/ i = n
      BY <1>2
    <3> QED BY <3>1 DEF c
  <2>8. Reparented(f[n].pages, s.pages, S(n), parent)
    <3> HIDE DEF S
    <3>1. \A p \in PageIds : s.pages[p] \in Nodes
      BY <1>3
    <3>2. f[n].pages = [p \in PageIds |-> IF p \in {c} THEN [e.pages[p] EXCEPT !.parent = parent]
                                          ELSE e.pages[p]]
      BY <2>5 DEF Reparented
    <3>3. \A p \in PageIds : [e.pages[p] EXCEPT !.parent = parent] = [s.pages[p] EXCEPT !.parent = parent]
      BY <2>6, <3>1 DEF Reparented, Nodes
    <3>4. \A p \in PageIds : e.pages[p] = IF p \in S(n - 1) THEN [s.pages[p] EXCEPT !.parent = parent]
                                          ELSE s.pages[p]
      BY <2>6 DEF Reparented
    <3> QED BY <2>7, <3>2, <3>3, <3>4 DEF Reparented
  <2> QED BY <2>1, <2>5, <2>6, <2>8 DEF SameRoot
<1>9. N \in T
  <2>1. N \in Nat /\ N \in 0 .. N
    BY <1>2
  <2> HIDE DEF T
  <2>2. \A n \in 1 .. N : n - 1 \in T => n \in T
    BY <1>8
  <2>3. \A n \in 0 .. N : n \in T
    BY <1>6, <2>1, <2>2, UpTo
  <2> QED BY <2>1, <2>3
<1>10. P(N) /\ TreeOf(f[N], L)
  <2>1. N \in 0 .. N /\ P(N)
    BY <1>2, <1>9
  <2> QED BY <1>7, <2>1
<1> QED BY <1>1, <1>10 DEF N
---------------------------------------------------------------------------
(* Sequences.                                                              *)
LEMMA InsertAtSpec ==
  ASSUME NEW S, NEW s \in Seq(S), NEW i \in 1 .. Len(s) + 1, NEW x \in S
  PROVE  InsertAt(s, i, x) \in Seq(S) /\ InsertedAt(InsertAt(s, i, x), s, i, x)
BY InsertSpec DEF InsertAt, WithItem

LEMMA RemoveAtSpec ==
  ASSUME NEW S, NEW s \in Seq(S), NEW i \in 1 .. Len(s)
  PROVE  RemoveAt(s, i) \in Seq(S) /\ RemovedAt(RemoveAt(s, i), s, i)
BY RemoveSpec DEF RemoveAt, WithoutItem

LEMMA TailSpec ==
  ASSUME NEW S, NEW s \in Seq(S), NEW n \in 0 .. Len(s)
  PROVE  /\ Tail_(s, n) \in Seq(S)
         /\ Len(Tail_(s, n)) = Len(s) - n
         /\ \A i \in 1 .. Len(s) - n : Tail_(s, n)[i] = s[n + i]
<1> DEFINE m == Len(s)
           b == SubSeq(s, n + 1, m)
<1>1. m \in Nat /\ n \in 0 .. m /\ \A j \in 1 .. m : s[j] \in S
  BY LenProperties
<1>2. n + 1 \in Int /\ m \in Int /\ \A j \in n + 1 .. m : s[j] \in S
  BY <1>1
<1>3. /\ b \in Seq(S)
      /\ Len(b) = IF n + 1 <= m THEN m - (n + 1) + 1 ELSE 0
      /\ \A j \in 1 .. m - (n + 1) + 1 : b[j] = s[(n + 1) + j - 1]
  BY <1>2, SubSeqProperties
<1> HIDE DEF b, m
<1>4. m - (n + 1) + 1 = m - n /\ \A j \in 1 .. m - n : (n + 1) + j - 1 = n + j
  BY <1>1
<1>5. b \in Seq(S) /\ Len(b) = m - n /\ \A j \in 1 .. m - n : b[j] = s[n + j]
  BY <1>1, <1>3, <1>4
<1> QED BY <1>5 DEF b, m, Tail_

LEMMA FirstSpec ==
  ASSUME NEW S \in SUBSET Nat, S # {}
  PROVE  First(S) \in S /\ \A j \in S : First(S) <= j
BY LeastElement DEF First

LEMMA PositionFound ==
  ASSUME NEW keys \in Seq(Nat), NEW k \in Nat
  PROVE  LET i == find_position(keys, k)
         IN  /\ i \in 1 .. Len(keys) + 1
             /\ i <= Len(keys) => k < keys[i]
             /\ \A j \in 1 .. i - 1 : keys[j] <= k
<1> DEFINE n == Len(keys)
           A == {i \in 1 .. n + 1 : i <= n => k < keys[i]}
<1>1. n \in Nat /\ \A i \in 1 .. n : keys[i] \in Nat
  OBVIOUS
<1>2. A \in SUBSET Nat /\ n + 1 \in A
  BY <1>1
<1>3. PICK i \in A : \A j \in A : i <= j
  <2> HIDE DEF A
  <2> QED BY <1>2, LeastElement
<1>4. \A j \in 1 .. i - 1 : keys[j] <= k
  <2>1. ASSUME NEW j \in 1 .. i - 1 PROVE keys[j] <= k
    <3>1. j \in 1 .. n /\ j < i
      BY <1>1, <1>3
    <3>2. j \notin A
      BY <1>3, <3>1
    <3> QED BY <1>1, <3>1, <3>2
  <2> QED BY <2>1
<1> HIDE DEF n
<1>5. \E j \in 1 .. n + 1 : /\ j <= n => k < keys[j]
                            /\ \A l \in 1 .. j - 1 : keys[l] <= k
  BY <1>3, <1>4
<1> QED BY <1>5 DEF find_position, n

\* What a leaf has but for the number of its keys.
LeafNode(node) == /\ node \in Nodes
                  /\ node.node_type = "Leaf"
                  /\ node.children = <<>>
                  /\ Len(node.values) = Len(node.keys)

LEMMA WithEntryLeaf ==
  ASSUME NEW leaf, LeafNode(leaf), NEW k \in Nat, NEW v \in Nat
  PROVE  LET fuller == WithEntry(leaf, k, v)
         IN  /\ LeafNode(fuller)
             /\ fuller.parent = leaf.parent
             /\ Len(fuller.keys) = Len(leaf.keys) + IF k \in Range(leaf.keys) THEN 0 ELSE 1
<1> DEFINE keys == leaf.keys
           values == leaf.values
           hits == PositionsOf(keys, k)
           fuller == WithEntry(leaf, k, v)
<1>1. keys \in Seq(Nat) /\ values \in Seq(Nat) /\ Len(values) = Len(keys) /\ Len(keys) \in Nat
  BY DEF LeafNode, Nodes
<1>2. hits \in SUBSET Nat /\ hits \subseteq 1 .. Len(values) /\ (hits # {} <=> k \in Range(keys))
  BY <1>1 DEF PositionsOf, Range
<1>3. CASE hits # {}
  <2> DEFINE w == Replace(values, First(hits), v)
  <2>1. First(hits) \in 1 .. Len(values)
    BY <1>2, <1>3, FirstSpec
  <2>2. w \in Seq(Nat) /\ Len(w) = Len(values)
    BY <1>1, <2>1 DEF Replace
  <2>3. fuller = [leaf EXCEPT !.values = w]
    BY <1>3 DEF WithEntry
  <2> HIDE DEF w, fuller
  <2>4. LeafNode(fuller) /\ fuller.parent = leaf.parent /\ fuller.keys = keys
    BY <1>1, <2>2, <2>3 DEF LeafNode, Nodes
  <2>5. k \in Range(leaf.keys) /\ Len(fuller.keys) = Len(leaf.keys) + 0
    BY <1>1, <1>2, <1>3, <2>4
  <2> QED BY <2>4, <2>5 DEF fuller
<1>4. CASE hits = {}
  <2> DEFINE i == find_position(keys, k)
             a == InsertAt(keys, i, k)
             w == InsertAt(values, i, v)
  <2>1. i \in 1 .. Len(keys) + 1
    BY <1>1, PositionFound
  <2>2. fuller = [leaf EXCEPT !.keys = a, !.values = w]
    BY <1>4 DEF WithEntry
  <2>3. a \in Seq(Nat) /\ w \in Seq(Nat) /\ Len(a) = Len(keys) + 1 /\ Len(w) = Len(keys) + 1
    <3> HIDE DEF i
    <3>1. a \in Seq(Nat) /\ InsertedAt(a, keys, i, k)
      BY <1>1, <2>1, InsertAtSpec
    <3>2. w \in Seq(Nat) /\ InsertedAt(w, values, i, v)
      BY <1>1, <2>1, InsertAtSpec
    <3> QED BY <1>1, <3>1, <3>2 DEF InsertedAt
  <2> HIDE DEF a, w, fuller
  <2>4. LeafNode(fuller) /\ fuller.parent = leaf.parent /\ Len(fuller.keys) = Len(keys) + 1
    BY <1>1, <2>2, <2>3 DEF LeafNode, Nodes
  <2> QED BY <1>1, <1>2, <1>4, <2>4 DEF fuller
<1> QED BY <1>3, <1>4
---------------------------------------------------------------------------
(* A tree some of whose pages are written.                                 *)
LEMMA TreeStep ==
  ASSUME NEW pg, NEW nx, NEW rt, NEW L, Tree(pg, nx, rt, L),
         NEW pg2 \in [PageIds -> Nodes], NEW nx2 \in nx .. MaxPages, NEW M \in [PageIds -> Nat],
         NEW W,
         \A q \in PageIds : q < nx => M[q] = L[q] /\ pg2[q].node_type = pg[q].node_type,
         \A q \in PageIds \ W : Akin(pg2[q], pg[q]) /\ M[q] = L[q],
         \A q \in W : q \in PageIds /\ NodeOK(pg2, nx2, rt, M, q),
         rt # None => pg2[rt].parent = pg[rt].parent,
         nx = 0 => 0 \notin W
  PROVE  Tree(pg2, nx2, rt, M)
<1>1. /\ pg \in [PageIds -> Nodes] /\ L \in [PageIds -> Nat] /\ rt \in PageOrNone
      /\ nx \in 0 .. MaxPages /\ RootOK(pg, nx, rt)
      /\ 0 \in PageIds => pg[0].node_type = "Leaf"
      /\ \A q \in PageIds : NodeOK(pg, nx, rt, L, q)
  BY DEF Tree
<1>2. MaxPages \in Nat /\ PageIds \subseteq Nat /\ nx \in Nat /\ nx2 \in Nat /\ nx <= nx2
      /\ nx2 \in 0 .. MaxPages
  BY <1>1, PageFacts
<1>3. rt # None => rt \in PageIds /\ rt < nx /\ pg2[rt].node_type = pg[rt].node_type
  BY <1>1 DEF RootOK, PageOrNone
<1>7. \A q \in PageIds : q < nx => q < nx2
  <2>1. \A q \in Nat : q < nx => q < nx2
    BY <1>2
  <2> QED BY <1>2, <2>1
<1>4. RootOK(pg2, nx2, rt)
  <2> SUFFICES ASSUME rt # None PROVE RootOK(pg2, nx2, rt)
    BY DEF RootOK
  <2>1. pg[rt].parent \in PageOrNone /\ pg2[rt].parent = pg[rt].parent
    BY <1>1, <1>3 DEF Nodes
  <2>2. \/ pg[rt].parent = None
        \/ pg[rt].parent < nx /\ pg[pg[rt].parent].node_type = "Leaf"
    BY <1>1 DEF RootOK
  <2>3. CASE pg[rt].parent = None
    BY <1>3, <1>7, <2>1, <2>3 DEF RootOK
  <2>4. CASE pg[rt].parent # None
    <3> DEFINE q == pg[rt].parent
    <3>1. q \in PageIds /\ q < nx /\ pg[q].node_type = "Leaf"
      BY <2>1, <2>2, <2>4 DEF PageOrNone
    <3>2. pg2[q].node_type = "Leaf" /\ q < nx2 /\ rt < nx2
      BY <1>3, <1>7, <3>1
    <3> QED BY <2>1, <3>2 DEF RootOK
  <2> QED BY <2>3, <2>4
<1>5. 0 \in PageIds => pg2[0].node_type = "Leaf"
  <2>1. nx = 0 => (0 \in PageIds => Akin(pg2[0], pg[0]))
    OBVIOUS
  <2> QED BY <1>1, <1>2, <2>1 DEF Akin
<1>6. ASSUME NEW q \in PageIds PROVE NodeOK(pg2, nx2, rt, M, q)
  <2> SUFFICES ASSUME q \notin W PROVE NodeOK(pg2, nx2, rt, M, q)
    OBVIOUS
  <2>1. NodeOK(pg, nx, rt, L, q) /\ Akin(pg2[q], pg[q]) /\ M[q] = L[q] /\ pg[q] \in Nodes
    BY <1>1
  <2>2. CASE pg[q].node_type = "Leaf"
    BY <2>1, <2>2 DEF NodeOK, Akin
  <2>3. CASE pg[q].node_type # "Leaf"
    <3>1. /\ q < nx /\ 0 < L[q] /\ L[q] < nx
          /\ rt # None /\ pg[rt].node_type = "Internal"
          /\ Len(pg[q].keys) <= max_keys
          /\ Len(pg[q].keys) >= IF q = rt THEN 1 ELSE min_keys
          /\ Len(pg[q].children) = Len(pg[q].keys) + 1
          /\ \A i \in 1 .. Len(pg[q].children) :
               LET c == pg[q].children[i]
               IN  c < nx /\ c # rt /\ L[c] = L[q] - 1
      BY <2>1, <2>3 DEF NodeOK
    <3>2. q < nx2 /\ L[q] < nx2 /\ L[q] \in Nat
      BY <1>1, <1>2, <3>1
    <3>3. \A i \in 1 .. Len(pg[q].children) : pg[q].children[i] \in PageIds
      BY <2>1 DEF Nodes
    <3>4. \A i \in 1 .. Len(pg[q].children) :
            LET c == pg[q].children[i]
            IN  c < nx2 /\ c # rt /\ M[c] = L[q] - 1
      BY <1>7, <3>1, <3>3
    <3> HIDE <1>6
    <3> QED BY <1>3, <2>1, <2>3, <3>1, <3>2, <3>4 DEF NodeOK, Akin
  <2> QED BY <2>2, <2>3
<1> QED BY <1>1, <1>2, <1>4, <1>5, <1>6 DEF Tree

(* What a tree has that neither a merge nor a failure has touched: the     *)
(* children of a node are different pages, name it as their parent and     *)
(* have keys enough, but for those in S.                                   *)
StrictAt(pg, p, S) ==
  pg[p].node_type # "Leaf" =>
    /\ \A i, j \in 1 .. Len(pg[p].children) :
          pg[p].children[i] = pg[p].children[j] => i = j
    /\ \A i \in 1 .. Len(pg[p].children) :
          LET c == pg[p].children[i]
          IN  pg[c].parent = p /\ (c \in S \/ Len(pg[c].keys) >= min_keys)

Strict(pg, rt, S) == /\ rt # None => pg[rt].parent = None
                     /\ \A p \in PageIds : StrictAt(pg, p, S)

Orphan(pg, c) == \A p \in PageIds : \A i \in 1 .. Len(pg[p].children) : pg[p].children[i] # c

LEMMA StrictStep ==
  ASSUME NEW pg \in [PageIds -> Nodes], NEW rt, NEW S, Strict(pg, rt, S),
         NEW pg2 \in [PageIds -> Nodes], NEW S2, NEW W,
         \A q \in PageIds \ W : Akin(pg2[q], pg[q]),
         \A c \in PageIds : \/ pg2[c].parent = pg[c].parent
                            \/ pg[c].parent \in W
                            \/ Orphan(pg, c),
         \A c \in PageIds : \/ c \in S2 \/ Len(pg2[c].keys) >= min_keys
                            \/ c \notin S /\ Len(pg2[c].keys) >= Len(pg[c].keys)
                            \/ Orphan(pg, c),
         \A q \in W : StrictAt(pg2, q, S2),
         rt # None => pg2[rt].parent = pg[rt].parent
  PROVE  Strict(pg2, rt, S2)
<1>1. ASSUME NEW q \in PageIds PROVE StrictAt(pg2, q, S2)
  <2> SUFFICES ASSUME q \notin W, pg[q].node_type # "Leaf" PROVE StrictAt(pg2, q, S2)
    BY DEF StrictAt, Akin
  <2>1. /\ \A i, j \in 1 .. Len(pg[q].children) :
             pg[q].children[i] = pg[q].children[j] => i = j
        /\ \A i \in 1 .. Len(pg[q].children) :
             LET c == pg[q].children[i]
             IN  pg[c].parent = q /\ (c \in S \/ Len(pg[c].keys) >= min_keys)
    BY DEF Strict, StrictAt
  <2>2. pg2[q].children = pg[q].children /\ pg[q] \in Nodes
    BY DEF Akin
  <2>3. ASSUME NEW i \in 1 .. Len(pg[q].children)
        PROVE  LET c == pg[q].children[i]
               IN  pg2[c].parent = q /\ (c \in S2 \/ Len(pg2[c].keys) >= min_keys)
    <3> DEFINE c == pg[q].children[i]
    <3>1. c \in PageIds /\ ~Orphan(pg, c)
      BY NodeFacts DEF Orphan
    <3>2. pg[c].parent = q /\ (c \in S \/ Len(pg[c].keys) >= min_keys)
      BY <2>1
    <3> HIDE DEF c
    <3>3. pg2[c].parent = q
      BY <3>1, <3>2
    <3>4. c \in S2 \/ Len(pg2[c].keys) >= min_keys
      <4>1. Len(pg[c].keys) \in Nat /\ Len(pg2[c].keys) \in Nat /\ min_keys \in Nat
        BY <3>1, PageFacts, NodeFacts
      <4> QED BY <3>1, <3>2, <4>1
    <3> QED BY <3>3, <3>4 DEF c
  <2> QED BY <2>1, <2>2, <2>3 DEF StrictAt
<1> QED BY <1>1 DEF Strict
---------------------------------------------------------------------------
(* Pages that are created.                                                 *)
LEMMA Fresh ==
  ASSUME NEW pg, NEW nx, NEW rt, NEW L, Tree(pg, nx, rt, L), nx \in PageIds
  PROVE  /\ pg[nx].node_type = "Leaf" /\ L[nx] = 0 /\ rt # nx
         /\ Orphan(pg, nx)
<1>1. /\ pg \in [PageIds -> Nodes] /\ nx \in Nat /\ RootOK(pg, nx, rt)
      /\ \A q \in PageIds : NodeOK(pg, nx, rt, L, q)
  BY PageFacts DEF Tree
<1>2. ~(nx < nx)
  BY <1>1
<1>3. pg[nx].node_type = "Leaf" /\ L[nx] = 0 /\ rt # nx
  <2>1. NodeOK(pg, nx, rt, L, nx)
    BY <1>1
  <2>2. nx # None
    BY PageFacts
  <2> QED BY <1>1, <1>2, <2>1, <2>2 DEF NodeOK, RootOK
<1>4. ASSUME NEW p \in PageIds, NEW i \in 1 .. Len(pg[p].children) PROVE pg[p].children[i] # nx
  <2>1. NodeOK(pg, nx, rt, L, p)
    BY <1>1
  <2>2. pg[p].node_type # "Leaf"
    BY <2>1 DEF NodeOK
  <2>3. pg[p].children[i] < nx
    BY <2>1, <2>2 DEF NodeOK
  <2> QED BY <1>2, <2>3
<1> QED BY <1>3, <1>4 DEF Orphan

LEMMA NewLeaf == (new_leaf \in Nodes /\ Zeroed \in Nodes) \/ PageIds = {}
<1>1. new_leaf \in Nodes
  BY DEF new_leaf, Nodes, PageOrNone
<1>2. 0 \in PageIds \/ PageIds = {}
  BY PageFacts
<1> QED BY <1>1, <1>2 DEF new_leaf, Zeroed, Nodes, PageOrNone

LEMMA ZeroedLeaf ==
  ASSUME NEW p \in PageIds
  PROVE  LeafNode(Zeroed) /\ Len(Zeroed.keys) = 0 /\ LeafNode(new_leaf)
BY NewLeaf DEF new_leaf, Zeroed, LeafNode

Created(t, s) == /\ t.pages = [s.pages EXCEPT ![s.next] = Zeroed]
                 /\ t.next = s.next + 1
                 /\ t.root = s.root
                 /\ t.merges = s.merges

LEMMA LaterTree ==
  ASSUME NEW pg, NEW nx, NEW rt, NEW L, Tree(pg, nx, rt, L), nx \in PageIds
  PROVE  Tree(pg, nx + 1, rt, L)
<1>1. pg \in [PageIds -> Nodes] /\ L \in [PageIds -> Nat] /\ nx + 1 \in nx .. MaxPages
  BY PageFacts DEF Tree
<1>2. \A q \in PageIds : Akin(pg[q], pg[q])
  BY DEF Akin
<1> DEFINE W == {}
<1>3. \A q \in PageIds \ W : Akin(pg[q], pg[q]) /\ L[q] = L[q]
  BY <1>2
<1>4. \A q \in W : q \in PageIds /\ NodeOK(pg, nx + 1, rt, L, q)
  OBVIOUS
<1>5. 0 \notin W
  OBVIOUS
<1> HIDE DEF W
<1> QED BY <1>1, <1>3, <1>4, <1>5, TreeStep

LEMMA CreateHolds ==
  ASSUME NEW s, NEW b, NEW x, NEW y, NEW L, Holds(s, b, x, y, None), TreeOf(s, L),
         s.next \in PageIds, NEW t, t = create_page(s)
  PROVE  Holds(t, b, x, y, s.next) /\ Created(t, s)
<1> DEFINE a == [s EXCEPT !.next = s.next + 1]
           m == MayFail(a)
           e == Pin(m, s.next)
           G == [e.pages EXCEPT ![s.next] = Zeroed]
<1>1. s \in States /\ s.next \in Nat /\ s.next + 1 \in Nat
  BY PageFacts DEF Holds
<1>2. /\ a \in States /\ a.next = s.next + 1 /\ a.pages = s.pages /\ a.root = s.root
      /\ a.merges = s.merges /\ a.pins = s.pins /\ a.held = s.held /\ a.four = s.four
      /\ a.stray = s.stray /\ a.cuts = s.cuts
  BY <1>1 DEF States
<1>3. t = [e EXCEPT !.pages = G]
  BY DEF create_page
<1> HIDE DEF a
<1>4. Holds(a, b, x, y, None)
  BY <1>2 DEF Holds
<1>5. TreeOf(a, L)
  <2>1. Tree(s.pages, s.next + 1, s.root, L)
    BY LaterTree DEF TreeOf
  <2> QED BY <1>2, <2>1 DEF TreeOf
<1>6. Holds(m, b, x, y, None) /\ SameTree(m, a)
  BY <1>4, <1>5, MayFailHolds
<1> HIDE DEF m
<1>7. Holds(e, b, x, y, s.next) /\ SameTree(e, m)
  BY <1>6, PinHolds
<1> HIDE DEF e
<1>8. e \in States /\ G \in [PageIds -> Nodes]
  <2>1. e \in States /\ e.pages \in [PageIds -> Nodes] /\ Zeroed \in Nodes
    BY <1>7, NewLeaf DEF Holds, States
  <2> QED BY <2>1
<1>9. /\ t \in States /\ t.pages = G /\ t.next = e.next /\ t.root = e.root
      /\ t.merges = e.merges /\ t.pins = e.pins /\ t.held = e.held /\ t.four = e.four
      /\ t.stray = e.stray /\ t.cuts = e.cuts
  <2> HIDE DEF G
  <2> QED BY <1>3, <1>8 DEF States
<1>10. Holds(t, b, x, y, s.next)
  BY <1>7, <1>9 DEF Holds
<1>11. G = [s.pages EXCEPT ![s.next] = Zeroed]
  BY <1>2, <1>6, <1>7 DEF SameTree
<1> QED BY <1>2, <1>6, <1>7, <1>9, <1>10, <1>11 DEF Created, SameTree
---------------------------------------------------------------------------
(* Leaves.                                                                 *)
LEMMA LeafWritten ==
  ASSUME NEW pg, NEW nx, NEW rt, NEW L, Tree(pg, nx, rt, L),
         NEW p \in PageIds, p < nx, pg[p].node_type = "Leaf",
         NEW node, LeafNode(node), Len(node.keys) <= max_keys,
         rt = p => node.parent = pg[p].parent,
         NEW pg2, Wrote(pg2, pg, p, node)
  PROVE  Tree(pg2, nx, rt, L)
<1> DEFINE W == {p}
<1>1. /\ pg \in [PageIds -> Nodes] /\ L \in [PageIds -> Nat] /\ nx \in 0 .. MaxPages
      /\ NodeOK(pg, nx, rt, L, p) /\ rt \in PageOrNone
  BY DEF Tree
<1>2. /\ pg2 \in [PageIds -> Nodes] /\ pg2[p] = node
      /\ \A q \in PageIds : q # p => pg2[q] = pg[q]
  BY <1>1 DEF LeafNode, Wrote
<1>3. \A q \in PageIds : q < nx => L[q] = L[q] /\ pg2[q].node_type = pg[q].node_type
  BY <1>2 DEF LeafNode
<1>4. \A q \in PageIds \ W : Akin(pg2[q], pg[q]) /\ L[q] = L[q]
  BY <1>2 DEF Akin
<1>5. NodeOK(pg2, nx, rt, L, p)
  BY <1>1, <1>2 DEF NodeOK, LeafNode
<1>6. rt # None => pg2[rt].parent = pg[rt].parent
  BY <1>1, <1>2 DEF PageOrNone
<1>7. nx = 0 => 0 \notin W
  BY PageFacts
<1>8. nx \in nx .. MaxPages
  BY <1>1, PageFacts
<1>9. \A q \in W : q \in PageIds /\ NodeOK(pg2, nx, rt, L, q)
  BY <1>5
<1> HIDE DEF W
<1> QED BY <1>1, <1>2, <1>3, <1>4, <1>6, <1>7, <1>8, <1>9, TreeStep

LEMMA LeafStrict ==
  ASSUME NEW pg \in [PageIds -> Nodes], NEW rt, NEW S, Strict(pg, rt, S), NEW S2,
         NEW p \in PageIds, pg[p].node_type = "Leaf",
         NEW node, LeafNode(node),
         \/ node.parent = pg[p].parent
         \/ Orphan(pg, p) /\ rt # p,
         \/ p \in S2
         \/ Len(node.keys) >= min_keys
         \/ p \notin S /\ Len(node.keys) >= Len(pg[p].keys)
         \/ Orphan(pg, p),
         \A q \in S : q \in S2 \/ q = p,
         NEW pg2, Wrote(pg2, pg, p, node)
  PROVE  Strict(pg2, rt, S2)
<1> DEFINE W == {p}
<1>1. /\ pg2 \in [PageIds -> Nodes] /\ pg2[p] = node
      /\ \A q : q # p => pg2[q] = pg[q]
  BY DEF LeafNode, Wrote
<1>2. \A q \in PageIds \ W : Akin(pg2[q], pg[q])
  BY <1>1 DEF Akin
<1>3. \A c \in PageIds : \/ pg2[c].parent = pg[c].parent
                         \/ pg[c].parent \in W
                         \/ Orphan(pg, c)
  BY <1>1
<1>4. \A c \in PageIds : \/ c \in S2 \/ Len(pg2[c].keys) >= min_keys
                         \/ c \notin S /\ Len(pg2[c].keys) >= Len(pg[c].keys)
                         \/ Orphan(pg, c)
  <2>1. \A c \in PageIds : Len(pg[c].keys) \in Nat
    BY DEF Nodes
  <2> QED BY <1>1, <2>1
<1>5. StrictAt(pg2, p, S2)
  BY <1>1 DEF StrictAt, LeafNode
<1>6. \A q \in W : StrictAt(pg2, q, S2)
  BY <1>5
<1>7. rt # None => pg2[rt].parent = pg[rt].parent
  BY <1>1
<1> HIDE DEF W
<1> QED BY <1>1, <1>2, <1>3, <1>4, <1>6, <1>7, StrictStep

LEMMA CreatedTree ==
  ASSUME NEW s, NEW t, NEW L, TreeOf(s, L), s.next \in PageIds, Created(t, s)
  PROVE  /\ TreeOf(t, L)
         /\ Orphan(t.pages, s.next) /\ t.root # s.next
         /\ t.pages[s.next].node_type = "Leaf" /\ L[s.next] = 0
         /\ \A S : Strict(s.pages, s.root, S) => Strict(t.pages, t.root, S)
<1> DEFINE p == s.next
           pg == s.pages
           rt == s.root
<1>1. Tree(pg, p, rt, L) /\ pg \in [PageIds -> Nodes] /\ p \in PageIds
  BY DEF TreeOf, Tree
<1>2. Tree(pg, p + 1, rt, L)
  BY <1>1, LaterTree
<1>3. pg[p].node_type = "Leaf" /\ L[p] = 0 /\ rt # p /\ Orphan(pg, p)
  BY <1>1, Fresh
<1>4. Wrote(t.pages, pg, p, Zeroed) /\ t.next = p + 1 /\ t.root = rt
  BY DEF Created, Wrote
<1>5. LeafNode(Zeroed) /\ Len(Zeroed.keys) <= max_keys /\ p < p + 1
  BY <1>1, ZeroedLeaf, PageFacts
<1> HIDE DEF p, pg, rt
<1>6. Tree(t.pages, p + 1, rt, L)
  BY <1>1, <1>2, <1>3, <1>4, <1>5, LeafWritten
<1>7. ASSUME NEW S, Strict(pg, rt, S) PROVE Strict(t.pages, rt, S)
  BY <1>1, <1>3, <1>4, <1>5, <1>7, LeafStrict
<1>8. Orphan(t.pages, p)
  BY <1>1, <1>3, <1>4, <1>5 DEF Orphan, LeafNode, Wrote
<1>9. t.pages[p].node_type = "Leaf"
  BY <1>1, <1>4, <1>5 DEF LeafNode, Wrote
<1> QED BY <1>3, <1>4, <1>6, <1>7, <1>8, <1>9 DEF TreeOf, p, pg, rt
---------------------------------------------------------------------------
(* Splits.                                                                 *)

\* Two pages that are written and given back.
BothWritten(t, c, p, l, q, r) == \E g : Wrote(g, c.pages, p, l) /\ Wrote(t.pages, g, q, r)

LEMMA HalvesHold ==
  ASSUME NEW c, NEW b, NEW p \in PageIds, NEW q \in PageIds, Holds(c, b, None, p, q),
         NEW l \in Nodes, Whole(l), NEW r \in Nodes, Whole(r),
         NEW t, t = release_node(release_node(write_node(write_node(c, p, l), q, r), p), q)
  PROVE  /\ Holds(t, b, None, None, None)
         /\ SameRoot(t, c)
         /\ BothWritten(t, c, p, l, q, r)
<1> DEFINE t1 == write_node(c, p, l)
           t2 == write_node(t1, q, r)
           t3 == release_node(t2, p)
<1>1. deserialize(l) = l /\ deserialize(r) = r
  BY ReadsBack
<1>2. t = release_node(t3, q)
  OBVIOUS
<1>3. /\ Holds(t1, b, None, q, p)
      /\ Wrote(t1.pages, c.pages, p, l)
      /\ SameRoot(t1, c)
  <2>1. Holds(c, b, None, q, p)
    BY HoldsAny
  <2> HIDE DEF t1
  <2>2. t1 = write_node(c, p, l)
    BY DEF t1
  <2>3. Holds(t1, b, None, q, p)
    BY <1>1, <2>1, <2>2, WriteHolds
  <2>4. Wrote(t1.pages, c.pages, p, l)
    BY <1>1, <2>1, <2>2, WriteHolds
  <2>5. SameRoot(t1, c)
    BY <1>1, <2>1, <2>2, WriteHolds
  <2> QED BY <2>3, <2>4, <2>5
<1> HIDE DEF t1
<1>4. /\ Holds(t2, b, None, p, q)
      /\ Wrote(t2.pages, t1.pages, q, r)
      /\ SameRoot(t2, t1)
  <2>1. Holds(t1, b, None, p, q)
    BY <1>3, HoldsAny
  <2> HIDE DEF t2
  <2>2. t2 = write_node(t1, q, r)
    BY DEF t2
  <2>3. Holds(t2, b, None, p, q)
    BY <1>1, <2>1, <2>2, WriteHolds
  <2>4. Wrote(t2.pages, t1.pages, q, r)
    BY <1>1, <2>1, <2>2, WriteHolds
  <2>5. SameRoot(t2, t1)
    BY <1>1, <2>1, <2>2, WriteHolds
  <2> QED BY <2>3, <2>4, <2>5
<1> HIDE DEF t2
<1>5. Holds(t3, b, None, q, None) /\ SameTree(t3, t2)
  <2>1. Holds(t2, b, None, q, p)
    BY <1>4, HoldsAny
  <2> QED BY <2>1, ReleaseHolds
<1> HIDE DEF t3
<1>6. Holds(t, b, None, None, None) /\ SameTree(t, t3)
  <2>1. Holds(t3, b, None, None, q)
    BY <1>5, HoldsAny
  <2> QED BY <1>2, <2>1, ReleaseHolds
<1>7. Wrote(t.pages, t1.pages, q, r)
  BY <1>4, <1>5, <1>6 DEF SameTree
<1>8. SameRoot(t, c)
  BY <1>3, <1>4, <1>5, <1>6 DEF SameTree, SameRoot
<1> QED BY <1>3, <1>6, <1>7, <1>8 DEF BothWritten

\* The split r tells of: page q next to p, with a key between them.
SplitOf(r, M, p) ==
  \E key \in Nat, q \in PageIds :
     /\ r.split = <<key, q>>
     /\ q < r.st.next /\ q # r.st.root /\ M[q] = M[p]
     /\ Len(r.st.pages[p].keys) >= min_keys
     /\ Len(r.st.pages[q].keys) >= min_keys
     /\ Orphan(r.st.pages, q)

\* What insert_recursive makes of the state s for page p.
Inserts(r, s, b, L, M, p) ==
  /\ Holds(r.st, b, None, None, None)
  /\ TreeOf(r.st, M)
  /\ \A q \in PageIds : q < s.next => M[q] = L[q]
  /\ r.st.root = s.root /\ r.st.merges = s.merges
  /\ Strict(s.pages, s.root, {}) => Strict(r.st.pages, r.st.root, {})
  /\ r.split = NoSplit \/ SplitOf(r, M, p)

LEMMA Middle ==
  ASSUME NEW n \in Nat, n = max_keys + 1
  PROVE  /\ n \div 2 \in 1 .. n - 1
         /\ n \div 2 >= min_keys /\ n \div 2 <= max_keys
         /\ n - n \div 2 - 1 >= min_keys /\ n - n \div 2 <= max_keys
         /\ n - n \div 2 - 1 >= 1
<1>1. Order \in Nat /\ Order >= 3 /\ n = Order
  BY PageFacts DEF max_keys
<1>2. PICK h \in Nat, e \in {0, 1} : Order = 2 * h + e /\ h = Order \div 2
  <2> DEFINE h == Order \div 2
  <2>1. h \in Nat /\ Order - 2 * h \in {0, 1}
    BY <1>1
  <2>2. Order = 2 * h + (Order - 2 * h)
    BY <1>1, <2>1
  <2> QED BY <2>1, <2>2
<1>3. (Order + 1) \div 2 = h + e
  BY <1>1, <1>2
<1> QED BY <1>1, <1>2, <1>3 DEF min_keys, max_keys

LEMMA OrphanKept ==
  ASSUME NEW pg \in [PageIds -> Nodes], NEW c, Orphan(pg, c), NEW p \in PageIds, NEW node,
         LeafNode(node), NEW pg2, Wrote(pg2, pg, p, node)
  PROVE  Orphan(pg2, c)
<1>1. /\ pg2[p] = node /\ Len(node.children) = 0
      /\ \A q \in PageIds : q # p => pg2[q] = pg[q]
  BY DEF Wrote, LeafNode
<1> QED BY <1>1 DEF Orphan

LEMMA SplitLeafHolds ==
  ASSUME NEW s, NEW b, NEW L, NEW p \in PageIds,
         Holds(s, b, None, p, None), TreeOf(s, L), s.next \in PageIds,
         p < s.next, s.pages[p].node_type = "Leaf",
         NEW node, LeafNode(node), Len(node.keys) = max_keys + 1,
         node.parent = s.pages[p].parent,
         NEW r, r = split_leaf(s, p, node)
  PROVE  Inserts(r, s, b, L, L, p) /\ r.st.next = s.next + 1
<1> DEFINE mid == Len(node.keys) \div 2
           right == s.next
           n == Len(node.keys)
           ks == SubSeq(node.keys, 1, mid)
           vs == SubSeq(node.values, 1, mid)
           kt == Tail_(node.keys, mid)
           vt == Tail_(node.values, mid)
           rnode == [node EXCEPT !.keys = kt, !.values = vt]
           lnode == [node EXCEPT !.keys = ks, !.values = vs, !.next_leaf = s.next]
           c == create_page(s)
           t == r.st
<1>1. /\ node \in Nodes /\ node.keys \in Seq(Nat) /\ node.values \in Seq(Nat) /\ n \in Nat
      /\ Len(node.values) = n /\ n = max_keys + 1 /\ s.next \in PageOrNone
  BY DEF LeafNode, Nodes, PageOrNone
<1>2. /\ mid \in 1 .. n - 1 /\ mid >= min_keys /\ mid <= max_keys
      /\ n - mid >= min_keys /\ n - mid <= max_keys
  <2>1. /\ n \div 2 \in 1 .. n - 1
        /\ n \div 2 >= min_keys /\ n \div 2 <= max_keys
        /\ n - n \div 2 - 1 >= min_keys /\ n - n \div 2 <= max_keys
    BY <1>1, Middle
  <2> HIDE DEF n
  <2> QED BY <1>1, <2>1, PageFacts DEF n
<1>3. /\ r.st = release_node(release_node(write_node(write_node(c, p, lnode), right, rnode), p), right)
      /\ r.split = <<node.keys[mid + 1], right>>
  BY DEF split_leaf, SplitLeaf
<1>4. /\ ks \in Seq(Nat) /\ Len(ks) = mid /\ vs \in Seq(Nat) /\ Len(vs) = mid
      /\ kt \in Seq(Nat) /\ Len(kt) = n - mid /\ vt \in Seq(Nat) /\ Len(vt) = n - mid
      /\ node.keys[mid + 1] \in Nat
  <2> HIDE DEF mid
  <2>1. mid \in 0 .. Len(node.keys) /\ mid \in 0 .. Len(node.values) /\ mid + 1 \in 1 .. Len(node.keys)
    <3> HIDE DEF n
    <3>1. n \in Nat /\ mid \in 1 .. n - 1
      BY <1>1, <1>2
    <3>2. mid \in 0 .. n /\ mid + 1 \in 1 .. n
      BY <3>1
    <3> QED BY <1>1, <3>2 DEF n
  <2>2. ks \in Seq(Nat) /\ Len(ks) = mid /\ vs \in Seq(Nat) /\ Len(vs) = mid
    BY <1>1, <2>1, Prefix
  <2>3. kt \in Seq(Nat) /\ Len(kt) = n - mid /\ vt \in Seq(Nat) /\ Len(vt) = n - mid
    BY <1>1, <2>1, TailSpec
  <2>4. node.keys[mid + 1] \in Nat
    BY <1>1, <2>1
  <2> QED BY <2>2, <2>3, <2>4
<1> HIDE DEF ks, kt, vs, vt, mid, right
<1>5. /\ LeafNode(lnode) /\ Len(lnode.keys) = mid /\ lnode.parent = s.pages[p].parent
      /\ LeafNode(rnode) /\ Len(rnode.keys) = n - mid
  BY <1>1, <1>4 DEF LeafNode, Nodes
<1> HIDE DEF lnode, rnode
<1>6. lnode \in Nodes /\ Whole(lnode) /\ rnode \in Nodes /\ Whole(rnode)
  BY <1>5 DEF LeafNode, Whole
<1>7. Holds(c, b, None, p, right) /\ Created(c, s)
  <2>1. Holds(create_page(s), b, None, p, s.next) /\ Created(create_page(s), s)
    BY CreateHolds
  <2> QED BY <2>1 DEF right
<1>8. /\ TreeOf(c, L) /\ Orphan(c.pages, right) /\ c.root # right
      /\ c.pages[right].node_type = "Leaf"
      /\ L[right] = 0
      /\ Strict(s.pages, s.root, {}) => Strict(c.pages, c.root, {})
  BY <1>7, CreatedTree DEF right
<1>9. /\ c.next = s.next + 1 /\ c.root = s.root /\ c.merges = s.merges
      /\ c.pages[p] = s.pages[p] /\ p # right /\ right \in PageIds
      /\ right < c.next /\ p < c.next
  <2>1. s.pages \in [PageIds -> Nodes] /\ s.next \in Nat /\ p \in Nat
    BY PageFacts DEF TreeOf, Tree
  <2> QED BY <1>7, <2>1 DEF Created, right
<1> HIDE DEF c, t
<1>10. /\ Holds(t, b, None, None, None) /\ SameRoot(t, c)
       /\ BothWritten(t, c, p, lnode, right, rnode)
  <2>1. t = release_node(release_node(write_node(write_node(c, p, lnode), right, rnode), p), right)
    BY <1>3 DEF t, c
  <2>2. Holds(t, b, None, None, None)
    BY <1>6, <1>7, <1>9, <2>1, HalvesHold
  <2>3. SameRoot(t, c)
    BY <1>6, <1>7, <1>9, <2>1, HalvesHold
  <2>4. BothWritten(t, c, p, lnode, right, rnode)
    BY <1>6, <1>7, <1>9, <2>1, HalvesHold
  <2> QED BY <2>2, <2>3, <2>4
<1>11. PICK g : Wrote(g, c.pages, p, lnode) /\ Wrote(t.pages, g, right, rnode)
  BY <1>10 DEF BothWritten
<1>12. c.pages \in [PageIds -> Nodes] /\ Tree(c.pages, c.next, c.root, L)
  BY <1>8 DEF TreeOf, Tree
<1>13. /\ g \in [PageIds -> Nodes] /\ g[right] = c.pages[right] /\ g[p] = lnode
       /\ \A q \in PageIds : q # p => g[q] = c.pages[q]
       /\ t.pages[right] = rnode /\ t.pages[p] = lnode
       /\ \A q \in PageIds : q # right => t.pages[q] = g[q]
  BY <1>6, <1>9, <1>11, <1>12 DEF Wrote
<1>14. Len(lnode.keys) <= max_keys /\ Len(rnode.keys) <= max_keys
       /\ Len(lnode.keys) >= min_keys /\ Len(rnode.keys) >= min_keys
  BY <1>2, <1>5
<1>15. c.pages[p].node_type = "Leaf" /\ lnode.parent = c.pages[p].parent
  BY <1>5, <1>9
<1>16. Tree(g, c.next, c.root, L)
  BY <1>5, <1>9, <1>11, <1>12, <1>14, <1>15, LeafWritten
<1>17. Tree(t.pages, c.next, c.root, L)
  <2>1. g[right].node_type = "Leaf"
    BY <1>8, <1>13
  <2> QED BY <1>5, <1>8, <1>9, <1>11, <1>14, <1>16, <2>1, LeafWritten
<1>18. ASSUME Strict(s.pages, s.root, {}) PROVE Strict(t.pages, c.root, {})
  <2> DEFINE E == {}
  <2>1. Strict(c.pages, c.root, E) /\ \A q \in E : q \in E \/ q = p
    BY <1>8, <1>18
  <2> HIDE DEF E
  <2>2. Strict(g, c.root, E)
    BY <1>5, <1>11, <1>12, <1>14, <1>15, <2>1, LeafStrict
  <2>3. Orphan(g, right) /\ g[right].node_type = "Leaf"
    BY <1>5, <1>8, <1>11, <1>12, <1>13, OrphanKept
  <2>4. \A q \in E : q \in E \/ q = right
    BY <2>1
  <2>5. Strict(t.pages, c.root, E)
    BY <1>5, <1>8, <1>9, <1>11, <1>13, <1>14, <2>2, <2>3, <2>4, LeafStrict
  <2> QED BY <2>5 DEF E
<1>19. Orphan(t.pages, right)
  <2>1. Orphan(g, right)
    BY <1>5, <1>8, <1>11, <1>12, OrphanKept
  <2> QED BY <1>5, <1>9, <1>11, <1>13, <2>1, OrphanKept
<1>20. L[p] = 0
  <2>1. NodeOK(c.pages, c.next, c.root, L, p)
    BY <1>12 DEF Tree
  <2> QED BY <1>15, <2>1 DEF NodeOK
<1>21. t.next = s.next + 1 /\ t.root = s.root /\ t.merges = s.merges /\ t.root = c.root /\ t.next = c.next
  BY <1>9, <1>10 DEF SameRoot
<1>22. SplitOf(r, L, p)
  <2>1. r.split = <<node.keys[mid + 1], right>> /\ right < r.st.next /\ right # r.st.root
    BY <1>3, <1>8, <1>9, <1>21 DEF t
  <2>2. Len(r.st.pages[p].keys) >= min_keys /\ Len(r.st.pages[right].keys) >= min_keys
    BY <1>13, <1>14 DEF t
  <2> QED BY <1>4, <1>8, <1>9, <1>19, <1>20, <2>1, <2>2 DEF SplitOf, t
<1> QED BY <1>10, <1>17, <1>18, <1>21, <1>22 DEF Inserts, TreeOf, t

LEMMA LeafFacts ==
  ASSUME NEW pg, NEW nx, NEW rt, NEW L, Tree(pg, nx, rt, L),
         NEW p \in PageIds, pg[p].node_type = "Leaf"
  PROVE  LeafNode(pg[p]) /\ Len(pg[p].keys) <= max_keys /\ L[p] = 0
<1>1. pg[p] \in Nodes /\ NodeOK(pg, nx, rt, L, p)
  BY DEF Tree
<1> QED BY <1>1 DEF NodeOK, LeafNode

\* A leaf that takes in key k without a split.
Takes(leaf, k) == k \in Range(leaf.keys) \/ Len(leaf.keys) < max_keys

Unsplit(r, leaf, k) == Takes(leaf, k) => r.split = NoSplit

\* At most one page is created, and none without a split.
Grown(r, s) == /\ r.st.next \in {s.next, s.next + 1}
               /\ r.split = NoSplit => r.st.next = s.next

LEMMA PutInLeafHolds ==
  ASSUME NEW s, NEW b, NEW L, NEW p \in PageIds,
         Holds(s, b, None, None, None), TreeOf(s, L), p < s.next,
         s.pages[p].node_type = "Leaf", NEW k \in Nat, NEW v \in Nat,
         s.next \in PageIds \/ Takes(s.pages[p], k),
         NEW r, r = PutInLeaf(s, p, k, v)
  PROVE  /\ Inserts(r, s, b, L, L, p)
         /\ Grown(r, s)
         /\ Unsplit(r, s.pages[p], k)
<1> DEFINE leaf == s.pages[p]
           fuller == WithEntry(leaf, k, v)
           m == fetch(s, p)
<1>1. Tree(s.pages, s.next, s.root, L)
  BY DEF TreeOf
<1>2. LeafNode(leaf) /\ Len(leaf.keys) <= max_keys
  BY <1>1, LeafFacts
<1>3. /\ LeafNode(fuller)
      /\ fuller.parent = leaf.parent
      /\ Len(fuller.keys) = Len(leaf.keys) + IF k \in Range(leaf.keys) THEN 0 ELSE 1
  BY <1>2, WithEntryLeaf
<1>4. max_keys \in Nat /\ Len(leaf.keys) \in Nat /\ Len(fuller.keys) \in Nat
  <2> HIDE DEF leaf, fuller
  <2>1. leaf.keys \in Seq(Nat) /\ fuller.keys \in Seq(Nat)
    BY <1>2, <1>3 DEF LeafNode, Nodes
  <2> QED BY <2>1, PageFacts
<1> DEFINE n == Len(leaf.keys)
           f == Len(fuller.keys)
<1>9. /\ n \in Nat /\ f \in Nat /\ max_keys \in Nat /\ n <= max_keys
      /\ f = n \/ f = n + 1
      /\ k \in Range(leaf.keys) => f = n
  <2>1. f = n + IF k \in Range(leaf.keys) THEN 0 ELSE 1
    BY <1>3
  <2>2. n \in Nat /\ f \in Nat /\ max_keys \in Nat /\ n <= max_keys
    BY <1>2, <1>4
  <2> HIDE DEF n, f, leaf, fuller
  <2> QED BY <2>1, <2>2
<1>5. Holds(m, b, None, None, p) /\ SameTree(m, s)
  BY FetchHolds
<1>6. /\ m.pages = s.pages /\ m.next = s.next /\ m.root = s.root /\ m.merges = s.merges
      /\ TreeOf(m, L)
  BY <1>1, <1>5 DEF SameTree, TreeOf
<1>7. CASE Len(fuller.keys) > max_keys
  <2>1. r = split_leaf(m, p, fuller)
    BY <1>7 DEF PutInLeaf, read_node
  <2>2. k \notin Range(leaf.keys) /\ ~(Len(leaf.keys) < max_keys) /\ Len(fuller.keys) = max_keys + 1
    <3>1. f > max_keys
      BY <1>7
    <3> HIDE DEF n, f
    <3>2. f = n + 1 /\ n = max_keys /\ k \notin Range(leaf.keys)
      BY <1>9, <3>1
    <3> QED BY <1>9, <3>2 DEF n, f
  <2> HIDE DEF m, fuller, leaf
  <2>3. Holds(m, b, None, p, None) /\ m.next \in PageIds
    BY <1>5, <1>6, <2>2, HoldsAny DEF leaf, Takes
  <2>4. p < m.next /\ m.pages[p].node_type = "Leaf" /\ fuller.parent = m.pages[p].parent
    BY <1>3, <1>6 DEF leaf
  <2>5. Inserts(r, m, b, L, L, p)
    BY <1>3, <1>6, <2>1, <2>2, <2>3, <2>4, SplitLeafHolds
  <2>6. r.st.next = m.next + 1
    BY <1>3, <1>6, <2>1, <2>2, <2>3, <2>4, SplitLeafHolds
  <2>7. r.split # NoSplit
    BY <2>5, <2>1 DEF Inserts, split_leaf, SplitLeaf, NoSplit
  <2> QED BY <1>6, <2>2, <2>5, <2>6, <2>7 DEF Inserts, leaf, Takes, Grown, Unsplit
<1>8. CASE ~(Len(fuller.keys) > max_keys)
  <2> DEFINE t == Done(m, p, fuller)
  <2>1. r = [st |-> t, split |-> NoSplit]
    BY <1>8 DEF PutInLeaf, read_node
  <2> HIDE DEF m, fuller, leaf
  <2>2. deserialize(fuller) = fuller /\ fuller \in Nodes
    <3>1. fuller \in Nodes /\ Whole(fuller)
      BY <1>3 DEF LeafNode, Whole
    <3> QED BY <3>1, ReadsBack
  <2>3. /\ Holds(t, b, None, None, None)
        /\ Wrote(t.pages, m.pages, p, fuller)
        /\ SameRoot(t, m)
    <3> HIDE DEF t
    <3>0. t = Done(m, p, fuller)
      BY DEF t
    <3>1. Holds(t, b, None, None, None)
      BY <1>5, <2>2, <3>0, DoneHolds
    <3>2. Wrote(t.pages, m.pages, p, fuller)
      BY <1>5, <2>2, <3>0, DoneHolds
    <3>3. SameRoot(t, m)
      BY <1>5, <2>2, <3>0, DoneHolds
    <3> QED BY <3>1, <3>2, <3>3
  <2> HIDE DEF t
  <2>4. Len(fuller.keys) <= max_keys /\ Len(fuller.keys) >= Len(leaf.keys)
    <3>1. ~(f > max_keys)
      BY <1>8
    <3> HIDE DEF n, f
    <3>2. f <= max_keys /\ f >= n
      BY <1>9, <3>1
    <3> QED BY <3>2 DEF n, f
  <2>5. Wrote(t.pages, s.pages, p, fuller) /\ fuller.parent = s.pages[p].parent
    BY <1>3, <1>6, <2>3 DEF leaf
  <2>6. Tree(t.pages, s.next, s.root, L)
    BY <1>1, <1>3, <2>4, <2>5, LeafWritten
  <2>7. ASSUME Strict(s.pages, s.root, {}) PROVE Strict(t.pages, s.root, {})
    <3> DEFINE E == {}
    <3>1. Strict(s.pages, s.root, E) /\ (\A q \in E : q \in E \/ q = p) /\ p \notin E
      BY <2>7
    <3> HIDE DEF E
    <3>2. s.pages \in [PageIds -> Nodes] /\ Len(fuller.keys) >= Len(s.pages[p].keys)
      BY <1>1, <2>4 DEF Tree, leaf
    <3>3. Strict(t.pages, s.root, E)
      BY <1>3, <2>5, <3>1, <3>2, LeafStrict
    <3> QED BY <3>3 DEF E
  <2>8. t.next = s.next /\ t.root = s.root /\ t.merges = s.merges
    BY <1>6, <2>3 DEF SameRoot
  <2> QED BY <2>1, <2>3, <2>6, <2>7, <2>8 DEF Inserts, TreeOf, Grown, Unsplit
<1> QED BY <1>7, <1>8
---------------------------------------------------------------------------
(* Internal nodes.                                                         *)

\* A node that can stand on page p, but for the number of its keys.
Wide(pg, nx, rt, L, p, node) ==
  /\ node \in Nodes
  /\ node.node_type = "Internal"
  /\ node.parent = pg[p].parent
  /\ Len(node.children) = Len(node.keys) + 1
  /\ \A i \in 1 .. Len(node.children) :
       LET c == node.children[i]
       IN  c < nx /\ c # rt /\ L[c] = L[p] - 1

WideStrict(pg, p, node) ==
  /\ \A i, j \in 1 .. Len(node.children) : node.children[i] = node.children[j] => i = j
  /\ \A i \in 1 .. Len(node.children) :
       LET c == node.children[i]
       IN  pg[c].parent = p /\ Len(pg[c].keys) >= min_keys

LEMMA InternalFacts ==
  ASSUME NEW pg, NEW nx, NEW rt, NEW L, Tree(pg, nx, rt, L),
         NEW p \in PageIds, pg[p].node_type # "Leaf"
  PROVE  /\ Wide(pg, nx, rt, L, p, pg[p])
         /\ p < nx /\ 0 < L[p] /\ L[p] < nx
         /\ rt \in PageIds /\ rt < nx /\ pg[rt].node_type = "Internal"
         /\ Len(pg[p].keys) <= max_keys /\ Len(pg[p].keys) >= 1
         /\ p # rt => Len(pg[p].keys) >= min_keys
         /\ \A S : Strict(pg, rt, S) => StrictAt(pg, p, S)
<1>1. pg \in [PageIds -> Nodes] /\ pg[p] \in Nodes /\ NodeOK(pg, nx, rt, L, p)
      /\ rt \in PageOrNone /\ RootOK(pg, nx, rt)
  BY DEF Tree
<1>2. pg[p].node_type = "Internal"
  BY <1>1 DEF Nodes
<1>3. rt \in PageIds /\ rt < nx /\ pg[rt].node_type = "Internal"
  BY <1>1, <1>2 DEF NodeOK, RootOK, PageOrNone
<1>4. Len(pg[p].keys) \in Nat /\ min_keys \in Nat /\ min_keys >= 1
  BY <1>1, NodeFacts, PageFacts
<1> QED BY <1>1, <1>2, <1>3, <1>4 DEF NodeOK, Wide, Strict

LEMMA NodeWritten ==
  ASSUME NEW pg, NEW nx, NEW rt, NEW L, Tree(pg, nx, rt, L),
         NEW p \in PageIds, pg[p].node_type # "Leaf",
         NEW node, Wide(pg, nx, rt, L, p, node),
         Len(node.keys) >= Len(pg[p].keys), Len(node.keys) <= max_keys,
         NEW pg2, Wrote(pg2, pg, p, node)
  PROVE  /\ Tree(pg2, nx, rt, L)
         /\ \A S : Strict(pg, rt, S) /\ WideStrict(pg, p, node) => Strict(pg2, rt, S)
<1> DEFINE W == {p}
<1>1. /\ pg \in [PageIds -> Nodes] /\ L \in [PageIds -> Nat] /\ nx \in 0 .. MaxPages
      /\ NodeOK(pg, nx, rt, L, p) /\ rt \in PageOrNone
  BY DEF Tree
<1>2. /\ p < nx /\ 0 < L[p] /\ L[p] < nx
      /\ rt \in PageIds /\ rt < nx /\ pg[rt].node_type = "Internal"
      /\ Len(pg[p].keys) <= max_keys /\ Len(pg[p].keys) >= 1
      /\ p # rt => Len(pg[p].keys) >= min_keys
      /\ \A S : Strict(pg, rt, S) => StrictAt(pg, p, S)
      /\ pg[p].node_type = "Internal"
  BY InternalFacts DEF Wide
<1>3. node \in Nodes /\ node.node_type = "Internal" /\ node.parent = pg[p].parent
  BY DEF Wide
<1>4. /\ pg2 \in [PageIds -> Nodes] /\ pg2[p] = node
      /\ \A q \in PageIds : q # p => pg2[q] = pg[q]
  BY <1>1, <1>3 DEF Wrote
<1>5. Len(node.keys) \in Nat /\ Len(pg[p].keys) \in Nat /\ min_keys \in Nat
  BY <1>1, <1>4, NodeFacts, PageFacts
<1>6. NodeOK(pg2, nx, rt, L, p)
  <2>1. Len(node.keys) >= 1 /\ (p # rt => Len(node.keys) >= min_keys)
    BY <1>2, <1>5
  <2>2. pg2[rt].node_type = "Internal"
    BY <1>2, <1>3, <1>4
  <2>3. rt # None
    BY <1>2, PageFacts
  <2> QED BY <1>2, <1>3, <1>4, <2>1, <2>2, <2>3 DEF NodeOK, Wide
<1>7. \A q \in PageIds \ W : Akin(pg2[q], pg[q]) /\ L[q] = L[q]
  BY <1>4 DEF Akin
<1>8. \A q \in PageIds : q < nx => L[q] = L[q] /\ pg2[q].node_type = pg[q].node_type
  BY <1>2, <1>3, <1>4
<1>9. rt # None => pg2[rt].parent = pg[rt].parent
  BY <1>2, <1>3, <1>4
<1>10. nx = 0 => 0 \notin W
  BY <1>2, PageFacts
<1>11. nx \in nx .. MaxPages
  BY <1>1, PageFacts
<1>12. \A q \in W : q \in PageIds /\ NodeOK(pg2, nx, rt, L, q)
  BY <1>6
<1>13. Tree(pg2, nx, rt, L)
  <2> HIDE DEF W
  <2> QED BY <1>1, <1>4, <1>7, <1>8, <1>9, <1>10, <1>11, <1>12, TreeStep
<1>14. ASSUME NEW S, Strict(pg, rt, S), WideStrict(pg, p, node)
       PROVE  Strict(pg2, rt, S)
  <2>1. \A q \in PageIds \ W : Akin(pg2[q], pg[q])
    BY <1>7
  <2>2. \A c \in PageIds : \/ pg2[c].parent = pg[c].parent
                           \/ pg[c].parent \in W
                           \/ Orphan(pg, c)
    BY <1>3, <1>4
  <2>3. \A c \in PageIds : \/ c \in S \/ Len(pg2[c].keys) >= min_keys
                           \/ c \notin S /\ Len(pg2[c].keys) >= Len(pg[c].keys)
                           \/ Orphan(pg, c)
    <3>1. \A c \in PageIds : Len(pg[c].keys) \in Nat
      BY <1>1, NodeFacts
    <3> QED BY <1>4, <3>1
  <2>4. StrictAt(pg2, p, S)
    <3>1. \A i, j \in 1 .. Len(node.children) : node.children[i] = node.children[j] => i = j
      BY <1>14 DEF WideStrict
    <3>2. ASSUME NEW i \in 1 .. Len(node.children)
          PROVE  LET c == node.children[i]
                 IN  pg2[c].parent = p /\ Len(pg2[c].keys) >= min_keys
      <4> DEFINE c == node.children[i]
      <4>1. pg[c].parent = p /\ Len(pg[c].keys) >= min_keys /\ L[c] = L[p] - 1
        BY <1>14 DEF WideStrict, Wide
      <4>2. c \in PageIds
        BY <1>4, NodeFacts
      <4>3. c # p
        BY <1>1, <4>1
      <4> HIDE DEF c
      <4>4. pg2[c] = pg[c]
        BY <1>4, <4>2, <4>3
      <4> QED BY <4>1, <4>4 DEF c
    <3> QED BY <1>4, <3>1, <3>2 DEF StrictAt
  <2>5. \A q \in W : StrictAt(pg2, q, S)
    BY <2>4
  <2> HIDE DEF W
  <2> QED BY <1>1, <1>4, <1>9, <1>14, <2>1, <2>2, <2>3, <2>5, StrictStep
<1> QED BY <1>13, <1>14

LeftHalf(node, mid) ==
  [node EXCEPT !.keys = SubSeq(@, 1, mid), !.children = SubSeq(@, 1, mid + 1)]
RightHalf(node, mid) ==
  [node EXCEPT !.keys = Tail_(@, mid + 1), !.children = Tail_(@, mid + 1)]

\* The halves l and r of an internal node, the key between them left out.
Halves(node, l, r, mid) ==
  LET n == Len(node.keys)
  IN  /\ l \in Nodes /\ l.node_type = "Internal" /\ l.parent = node.parent
      /\ r \in Nodes /\ r.node_type = "Internal" /\ r.parent = node.parent
      /\ mid \in Nat /\ n \in Nat
      /\ Len(l.keys) = mid /\ Len(l.children) = mid + 1
      /\ Len(r.keys) = n - mid - 1 /\ Len(r.children) = n - mid
      /\ \A i \in 1 .. mid + 1 : l.children[i] = node.children[i]
      /\ \A i \in 1 .. n - mid : r.children[i] = node.children[mid + 1 + i]
      /\ mid >= min_keys /\ mid <= max_keys /\ mid >= 1
      /\ n - mid - 1 >= min_keys /\ n - mid - 1 <= max_keys /\ n - mid - 1 >= 1

LEMMA NodeHalves ==
  ASSUME NEW node \in Nodes, node.node_type = "Internal",
         Len(node.children) = Len(node.keys) + 1, Len(node.keys) = max_keys + 1,
         NEW mid, mid = Len(node.keys) \div 2
  PROVE  Halves(node, LeftHalf(node, mid), RightHalf(node, mid), mid) /\ node.keys[mid + 1] \in Nat
<1> DEFINE n == Len(node.keys)
           l == LeftHalf(node, mid)
           r == RightHalf(node, mid)
           ks == SubSeq(node.keys, 1, mid)
           cs == SubSeq(node.children, 1, mid + 1)
           kt == Tail_(node.keys, mid + 1)
           ct == Tail_(node.children, mid + 1)
<1>1. /\ node.keys \in Seq(Nat) /\ node.children \in Seq(PageIds) /\ n \in Nat
      /\ Len(node.children) = n + 1 /\ n = max_keys + 1 /\ max_keys \in Nat /\ min_keys \in Nat
      /\ min_keys >= 1
  BY PageFacts DEF Nodes
<1>2. mid = n \div 2
  OBVIOUS
<1>3. /\ n \div 2 \in 1 .. n - 1
      /\ n \div 2 >= min_keys /\ n \div 2 <= max_keys
      /\ n - n \div 2 - 1 >= min_keys /\ n - n \div 2 <= max_keys
      /\ n - n \div 2 - 1 >= 1
  <2> HIDE DEF n
  <2> QED BY <1>1, Middle
<1>4. l = [node EXCEPT !.keys = ks, !.children = cs] /\ r = [node EXCEPT !.keys = kt, !.children = ct]
  BY DEF LeftHalf, RightHalf
<1> HIDE DEF l, r, ks, cs, kt, ct
<1>5. /\ mid \in Nat /\ n \in Nat /\ mid \in 0 .. n /\ mid + 1 \in 0 .. n /\ mid + 1 \in 0 .. n + 1
      /\ mid + 1 \in 1 .. n
      /\ mid >= min_keys /\ mid <= max_keys /\ mid >= 1
      /\ n - mid - 1 >= min_keys /\ n - mid - 1 <= max_keys /\ n - mid - 1 >= 1
      /\ n - (mid + 1) = n - mid - 1 /\ (n + 1) - (mid + 1) = n - mid
  <2> HIDE DEF n
  <2>1. mid \in 1 .. n - 1 /\ mid >= min_keys /\ mid <= max_keys
        /\ n - mid - 1 >= min_keys /\ n - mid <= max_keys /\ n - mid - 1 >= 1
    BY <1>2, <1>3
  <2> QED BY <1>1, <2>1
<1>6. /\ ks \in Seq(Nat) /\ Len(ks) = mid
      /\ cs \in Seq(PageIds) /\ Len(cs) = mid + 1
      /\ \A i \in 1 .. mid + 1 : cs[i] = node.children[i]
  <2>1. mid \in 0 .. Len(node.keys) /\ mid + 1 \in 0 .. Len(node.children)
    BY <1>1, <1>5
  <2>2. ks \in Seq(Nat) /\ Len(ks) = mid
    BY <1>1, <2>1, Prefix DEF ks
  <2>3. cs \in Seq(PageIds) /\ Len(cs) = mid + 1 /\ \A i \in 1 .. mid + 1 : cs[i] = node.children[i]
    BY <1>1, <2>1, Prefix DEF cs
  <2> QED BY <2>2, <2>3
<1>7. /\ kt \in Seq(Nat) /\ Len(kt) = n - mid - 1
      /\ ct \in Seq(PageIds) /\ Len(ct) = n - mid
      /\ \A i \in 1 .. n - mid : ct[i] = node.children[mid + 1 + i]
  <2>1. mid + 1 \in 0 .. Len(node.keys) /\ mid + 1 \in 0 .. Len(node.children)
    BY <1>1, <1>5
  <2>2. kt \in Seq(Nat) /\ Len(kt) = n - (mid + 1)
    BY <1>1, <2>1, TailSpec DEF kt
  <2>3. /\ ct \in Seq(PageIds) /\ Len(ct) = (n + 1) - (mid + 1)
        /\ \A i \in 1 .. (n + 1) - (mid + 1) : ct[i] = node.children[mid + 1 + i]
    <3>1. /\ ct \in Seq(PageIds) /\ Len(ct) = Len(node.children) - (mid + 1)
          /\ \A i \in 1 .. Len(node.children) - (mid + 1) : ct[i] = node.children[mid + 1 + i]
      BY <1>1, <2>1, TailSpec DEF ct
    <3> QED BY <1>1, <3>1
  <2> QED BY <1>5, <2>2, <2>3
<1>8. node.keys[mid + 1] \in Nat
  BY <1>1, <1>5
<1>9. /\ l \in Nodes /\ l.node_type = "Internal" /\ l.parent = node.parent
      /\ l.keys = ks /\ l.children = cs
      /\ r \in Nodes /\ r.node_type = "Internal" /\ r.parent = node.parent
      /\ r.keys = kt /\ r.children = ct
  BY <1>4, <1>6, <1>7 DEF Nodes
<1>10. Halves(node, l, r, mid)
  BY <1>5, <1>6, <1>7, <1>9 DEF Halves
<1> QED BY <1>8, <1>10 DEF l, r

Kids(node) == {node.children[i] : i \in 1 .. Len(node.children)}

\* The levels with page q on that of p.
Beside(L, q, p) == [L EXCEPT ![q] = L[p]]

LEMMA NodeSplit ==
  ASSUME NEW pg, NEW nx, NEW rt, NEW L, Tree(pg, nx, rt, L), nx \in PageIds,
         NEW p \in PageIds, pg[p].node_type # "Leaf",
         NEW node, Wide(pg, nx, rt, L, p, node), 
         NEW l, NEW r, NEW mid, Halves(node, l, r, mid),
         NEW pgc, Wrote(pgc, pg, nx, Zeroed), NEW pgm, Reparented(pgm, pgc, Kids(r), nx),
         NEW g, Wrote(g, pgm, p, l), NEW pg2, Wrote(pg2, g, nx, r)
  PROVE  /\ Tree(pg2, nx + 1, rt, Beside(L, nx, p))
         /\ Orphan(pg2, nx)
         /\ Len(pg2[p].keys) >= min_keys /\ Len(pg2[nx].keys) >= min_keys
         /\ Beside(L, nx, p)[nx] = Beside(L, nx, p)[p]
         /\ \A q \in PageIds : q < nx => Beside(L, nx, p)[q] = L[q]
         /\ Strict(pg, rt, {}) /\ WideStrict(pg, p, node) => Strict(pg2, rt, {})
<1> DEFINE n == Len(node.keys)
           W == {p, nx}
           S == Kids(r)
           M == Beside(L, nx, p)
<1>1. /\ pg \in [PageIds -> Nodes] /\ L \in [PageIds -> Nat] /\ nx \in 0 .. MaxPages /\ nx \in Nat
      /\ \A q \in PageIds : q \in Nat
  BY PageFacts DEF Tree
<1>2. /\ p < nx /\ 0 < L[p] /\ L[p] < nx
      /\ rt \in PageIds /\ rt < nx /\ pg[rt].node_type = "Internal"
      /\ pg[p].node_type = "Internal" /\ p # nx
  <2>1. /\ p < nx /\ 0 < L[p] /\ L[p] < nx
        /\ rt \in PageIds /\ rt < nx /\ pg[rt].node_type = "Internal"
        /\ Wide(pg, nx, rt, L, p, pg[p])
    BY InternalFacts
  <2>2. p # nx
    BY <1>1, <2>1
  <2> QED BY <2>1, <2>2 DEF Wide
<1>3. pg[nx].node_type = "Leaf" /\ L[nx] = 0 /\ rt # nx /\ Orphan(pg, nx)
  BY Fresh
<1>4. /\ node.node_type = "Internal" /\ node.parent = pg[p].parent /\ Len(node.children) = n + 1
      /\ \A i \in 1 .. n + 1 :
           LET c == node.children[i]
           IN  c \in PageIds /\ c < nx /\ c # rt /\ L[c] = L[p] - 1
  BY DEF Wide, Nodes
<1>5. /\ l \in Nodes /\ l.node_type = "Internal" /\ l.parent = pg[p].parent
      /\ r \in Nodes /\ r.node_type = "Internal"
      /\ mid \in Nat /\ n \in Nat /\ mid + 1 <= n
      /\ Len(l.keys) = mid /\ Len(l.children) = mid + 1
      /\ Len(r.keys) = n - mid - 1 /\ Len(r.children) = n - mid
      /\ \A i \in 1 .. mid + 1 : l.children[i] = node.children[i]
      /\ \A i \in 1 .. n - mid : r.children[i] = node.children[mid + 1 + i]
      /\ mid >= min_keys /\ mid <= max_keys /\ mid >= 1
      /\ n - mid - 1 >= min_keys /\ n - mid - 1 <= max_keys /\ n - mid - 1 >= 1
  <2> HIDE DEF M, S
  <2>1. /\ Len(l.keys) = mid /\ Len(l.children) = mid + 1
        /\ Len(r.keys) = n - mid - 1 /\ Len(r.children) = n - mid
        /\ \A i \in 1 .. mid + 1 : l.children[i] = node.children[i]
        /\ \A i \in 1 .. n - mid : r.children[i] = node.children[mid + 1 + i]
        /\ l \in Nodes /\ l.node_type = "Internal" /\ l.parent = pg[p].parent
        /\ r \in Nodes /\ r.node_type = "Internal"
        /\ mid \in Nat /\ n \in Nat
    BY <1>4 DEF Halves
  <2>2. /\ mid >= min_keys /\ mid <= max_keys /\ mid >= 1
        /\ n - mid - 1 >= min_keys /\ n - mid - 1 <= max_keys /\ n - mid - 1 >= 1
    BY DEF Halves
  <2> HIDE DEF n
  <2>3. mid + 1 <= n
    BY <2>1, <2>2
  <2> QED BY <2>1, <2>2, <2>3
<1> HIDE DEF n, S, M, W
<1>6. \A i \in 1 .. n - mid : mid + 1 + i \in 1 .. n + 1
  BY <1>5
<1>7. \A i \in 1 .. mid + 1 : i \in 1 .. n + 1
  BY <1>5
<1>8. S = {node.children[mid + 1 + i] : i \in 1 .. n - mid}
  <2>1. \A c : c \in S <=> \E i \in 1 .. n - mid : c = r.children[i]
    BY <1>5 DEF S, Kids
  <2>2. \A c : c \in S <=> \E i \in 1 .. n - mid : c = node.children[mid + 1 + i]
    <3>1. \A i \in 1 .. n - mid : r.children[i] = node.children[mid + 1 + i]
      BY <1>5
    <3> QED BY <2>1, <3>1
  <2> QED BY <2>2
<1>9. \A c \in S : c \in PageIds /\ c < nx /\ c # rt /\ c # p /\ c # nx
  <2>1. \A c \in S : c \in PageIds /\ c < nx /\ c # rt /\ L[c] = L[p] - 1
    BY <1>4, <1>6, <1>8
  <2>2. L[p] # L[p] - 1 /\ ~(nx < nx)
    BY <1>1
  <2> QED BY <2>1, <2>2
<1>10. /\ pg2 \in [PageIds -> Nodes]
       /\ pg2[p] = l /\ pg2[nx] = r
       /\ \A q \in PageIds : q # p /\ q # nx =>
            pg2[q] = IF q \in S THEN [pg[q] EXCEPT !.parent = nx] ELSE pg[q]
  <2>1. /\ pgc \in [PageIds -> Nodes]
        /\ \A q \in PageIds : q # nx => pgc[q] = pg[q]
    BY <1>1, ZeroedLeaf DEF Wrote, LeafNode
  <2>2. /\ pgm \in [PageIds -> Nodes]
        /\ \A q \in PageIds : pgm[q] = IF q \in S THEN [pgc[q] EXCEPT !.parent = nx] ELSE pgc[q]
    <3>1. \A q \in PageIds : [pgc[q] EXCEPT !.parent = nx] \in Nodes
      BY <2>1 DEF Nodes, PageOrNone
    <3> QED BY <2>1, <3>1 DEF Reparented, S
  <2>3. g \in [PageIds -> Nodes] /\ g[p] = l /\ \A q \in PageIds : q # p => g[q] = pgm[q]
    BY <1>5, <2>2 DEF Wrote
  <2>4. pg2 \in [PageIds -> Nodes] /\ pg2[nx] = r /\ \A q \in PageIds : q # nx => pg2[q] = g[q]
    BY <1>5, <2>3 DEF Wrote
  <2> QED BY <1>2, <2>1, <2>2, <2>3, <2>4
<1>11. \A q \in PageIds \ W : /\ Akin(pg2[q], pg[q])
                              /\ pg2[q].parent = IF q \in S THEN nx ELSE pg[q].parent
  BY <1>1, <1>10 DEF Akin, Nodes, W
<1>12. /\ M \in [PageIds -> Nat] /\ M[nx] = L[p] /\ M[p] = L[p]
       /\ \A q \in PageIds : q # nx => M[q] = L[q]
  BY <1>1, <1>2 DEF M, Beside
<1>13. \A q \in PageIds : q < nx => q # nx /\ q < nx + 1 /\ M[q] = L[q]
  BY <1>1, <1>12
<1>14. L[p] < nx + 1 /\ nx < nx + 1 /\ p < nx + 1
  BY <1>1, <1>2
<1>15. pg2[rt].node_type = "Internal" /\ rt # None /\ pg2[rt].parent = pg[rt].parent
  <2>1. rt # None
    BY <1>2, PageFacts
  <2>2. CASE rt = p
    BY <1>5, <1>10, <2>1, <2>2
  <2>3. CASE rt # p
    BY <1>2, <1>3, <1>9, <1>11, <2>1, <2>3 DEF Akin, W
  <2> QED BY <2>2, <2>3
<1>16. NodeOK(pg2, nx + 1, rt, M, p)
  <2>1. \A i \in 1 .. mid + 1 :
          LET c == l.children[i]
          IN  c < nx + 1 /\ c # rt /\ M[c] = M[p] - 1
    <3> SUFFICES ASSUME NEW i \in 1 .. mid + 1
                 PROVE  LET c == l.children[i]
                        IN  c < nx + 1 /\ c # rt /\ M[c] = M[p] - 1
      OBVIOUS
    <3> DEFINE c == node.children[i]
    <3>1. c \in PageIds /\ c < nx /\ c # rt /\ L[c] = L[p] - 1 /\ l.children[i] = c
      BY <1>4, <1>5, <1>7
    <3> HIDE DEF c
    <3> QED BY <1>12, <1>13, <3>1
  <2>2. Len(l.keys) >= IF p = rt THEN 1 ELSE min_keys
    BY <1>5
  <2> QED BY <1>2, <1>5, <1>10, <1>12, <1>14, <1>15, <2>1, <2>2 DEF NodeOK
<1>17. NodeOK(pg2, nx + 1, rt, M, nx)
  <2>1. \A i \in 1 .. n - mid :
          LET c == r.children[i]
          IN  c < nx + 1 /\ c # rt /\ M[c] = M[nx] - 1
    <3> SUFFICES ASSUME NEW i \in 1 .. n - mid
                 PROVE  LET c == r.children[i]
                        IN  c < nx + 1 /\ c # rt /\ M[c] = M[nx] - 1
      OBVIOUS
    <3> DEFINE c == node.children[mid + 1 + i]
    <3>1. c \in PageIds /\ c < nx /\ c # rt /\ L[c] = L[p] - 1 /\ r.children[i] = c
      BY <1>4, <1>5, <1>6
    <3> HIDE DEF c
    <3> QED BY <1>12, <1>13, <3>1
  <2>2. Len(r.keys) >= IF nx = rt THEN 1 ELSE min_keys
    BY <1>5
  <2>3. Len(r.children) = Len(r.keys) + 1
    BY <1>5
  <2> QED BY <1>2, <1>5, <1>10, <1>12, <1>14, <1>15, <2>1, <2>2, <2>3 DEF NodeOK
<1>18. Tree(pg2, nx + 1, rt, M)
  <2>1. \A q \in PageIds : q < nx => M[q] = L[q] /\ pg2[q].node_type = pg[q].node_type
    <3>1. \A q \in PageIds \ W : pg2[q].node_type = pg[q].node_type
      BY <1>11 DEF Akin
    <3>2. pg2[p].node_type = pg[p].node_type
      BY <1>2, <1>5, <1>10
    <3> QED BY <1>13, <3>1, <3>2 DEF W
  <2>2. \A q \in PageIds \ W : Akin(pg2[q], pg[q]) /\ M[q] = L[q]
    BY <1>11, <1>12 DEF W
  <2>3. \A q \in W : q \in PageIds /\ NodeOK(pg2, nx + 1, rt, M, q)
    BY <1>16, <1>17 DEF W
  <2>4. nx # 0 /\ nx + 1 \in nx .. MaxPages
    BY <1>1, <1>2, PageFacts
  <2>5. nx = 0 => 0 \notin W
    BY <2>4
  <2>6. rt # None => pg2[rt].parent = pg[rt].parent
    BY <1>15
  <2> QED BY <1>10, <1>12, <2>1, <2>2, <2>3, <2>4, <2>5, <2>6, TreeStep
<1>19. Orphan(pg2, nx)
  <2> SUFFICES ASSUME NEW q \in PageIds, NEW i \in 1 .. Len(pg2[q].children)
               PROVE  pg2[q].children[i] # nx
    BY DEF Orphan
  <2>1. CASE q = p
    <3>1. i \in 1 .. mid + 1 /\ pg2[q].children[i] = node.children[i]
      BY <1>5, <1>10, <2>1
    <3>2. node.children[i] \in PageIds /\ node.children[i] < nx
      BY <1>4, <1>7, <3>1
    <3> QED BY <1>13, <3>1, <3>2
  <2>2. CASE q = nx
    <3>1. i \in 1 .. n - mid /\ pg2[q].children[i] = node.children[mid + 1 + i]
      BY <1>5, <1>10, <2>2
    <3>2. node.children[mid + 1 + i] \in PageIds /\ node.children[mid + 1 + i] < nx
      BY <1>4, <1>6, <3>1
    <3> QED BY <1>13, <3>1, <3>2
  <2>3. CASE q # p /\ q # nx
    BY <1>3, <1>11, <2>3 DEF Akin, Orphan, W
  <2> QED BY <2>1, <2>2, <2>3
<1>20. Len(pg2[p].keys) >= min_keys /\ Len(pg2[nx].keys) >= min_keys
  BY <1>5, <1>10
<1>21. ASSUME Strict(pg, rt, {}), WideStrict(pg, p, node) PROVE Strict(pg2, rt, {})
  <2>1. /\ \A i, j \in 1 .. n + 1 : node.children[i] = node.children[j] => i = j
        /\ \A i \in 1 .. n + 1 :
             LET c == node.children[i] IN  pg[c].parent = p /\ Len(pg[c].keys) >= min_keys
    BY <1>4, <1>21 DEF WideStrict
  <2>2. \A c \in PageIds : \/ pg2[c].parent = pg[c].parent
                           \/ pg[c].parent \in W
                           \/ Orphan(pg, c)
    <3>1. \A c \in S : pg[c].parent = p
      BY <1>6, <1>8, <2>1
    <3> QED BY <1>3, <1>5, <1>10, <1>11, <3>1 DEF W
  <2>3. \A c \in PageIds : \/ Len(pg2[c].keys) >= min_keys
                           \/ Len(pg2[c].keys) >= Len(pg[c].keys)
    <3>1. \A c \in PageIds : Len(pg[c].keys) \in Nat
      BY <1>1, NodeFacts
    <3>2. \A c \in PageIds \ W : pg2[c].keys = pg[c].keys
      BY <1>11 DEF Akin
    <3> QED BY <1>20, <3>1, <3>2 DEF W
  <2>4. \A i \in 1 .. n + 1 : LET c == node.children[i]
                              IN  c \notin W /\ c \in PageIds /\ Len(pg2[c].keys) >= min_keys
    <3>1. L[p] # L[p] - 1 /\ ~(nx < nx)
      BY <1>1
    <3>2. \A i \in 1 .. n + 1 : LET c == node.children[i] IN c \notin W /\ c \in PageIds
      BY <1>4, <3>1 DEF W
    <3>3. \A c \in PageIds \ W : pg2[c].keys = pg[c].keys
      BY <1>11 DEF Akin
    <3> QED BY <2>1, <3>2, <3>3
  <2>5. StrictAt(pg2, p, {})
    <3>1. ASSUME NEW i \in 1 .. mid + 1 PROVE pg2[node.children[i]].parent = p
      <4>1. node.children[i] \notin S
        <5>1. \A j \in 1 .. n - mid : i # mid + 1 + j
          BY <1>5
        <5>2. \A j \in 1 .. n - mid : node.children[i] # node.children[mid + 1 + j]
          BY <1>6, <1>7, <2>1, <5>1
        <5> QED BY <1>8, <5>2
      <4> QED BY <1>7, <1>11, <2>1, <2>4, <4>1
    <3>2. \A i, j \in 1 .. mid + 1 : l.children[i] = l.children[j] => i = j
      BY <1>5, <1>7, <2>1
    <3>3. \A i \in 1 .. mid + 1 :
            LET c == l.children[i] IN  pg2[c].parent = p /\ Len(pg2[c].keys) >= min_keys
      BY <1>5, <1>7, <2>4, <3>1
    <3> QED BY <1>5, <1>10, <3>2, <3>3 DEF StrictAt
  <2>6. StrictAt(pg2, nx, {})
    <3>1. ASSUME NEW i \in 1 .. n - mid PROVE pg2[node.children[mid + 1 + i]].parent = nx
      <4>1. node.children[mid + 1 + i] \in S
        BY <1>8
      <4> QED BY <1>6, <1>11, <2>4, <4>1
    <3>2. \A i, j \in 1 .. n - mid : r.children[i] = r.children[j] => i = j
      <4>1. \A i, j \in 1 .. n - mid : mid + 1 + i = mid + 1 + j => i = j
        BY <1>5
      <4>2. \A i, j \in 1 .. n - mid :
               node.children[mid + 1 + i] = node.children[mid + 1 + j] => i = j
        BY <1>6, <2>1, <4>1
      <4> QED BY <1>5, <4>2
    <3>3. \A i \in 1 .. n - mid :
            LET c == r.children[i] IN  pg2[c].parent = nx /\ Len(pg2[c].keys) >= min_keys
      BY <1>5, <1>6, <2>4, <3>1
    <3> QED BY <1>5, <1>10, <3>2, <3>3 DEF StrictAt
  <2> DEFINE E == {}
  <2>7. \A q \in W : StrictAt(pg2, q, E)
    BY <2>5, <2>6 DEF W
  <2>8. \A q \in PageIds \ W : Akin(pg2[q], pg[q])
    BY <1>11
  <2>9. Strict(pg, rt, E)
    BY <1>21
  <2>10. \A c \in PageIds : \/ c \in E \/ Len(pg2[c].keys) >= min_keys
                            \/ c \notin E /\ Len(pg2[c].keys) >= Len(pg[c].keys)
                            \/ Orphan(pg, c)
    BY <2>3
  <2> HIDE DEF E
  <2>11. Strict(pg2, rt, E)
    BY <1>1, <1>10, <1>15, <2>2, <2>7, <2>8, <2>9, <2>10, StrictStep
  <2> QED BY <2>11 DEF E
<1> QED BY <1>12, <1>13, <1>18, <1>19, <1>20, <1>21 DEF M

LEMMA SplitInternalHolds ==
  ASSUME NEW s, NEW b, NEW L, NEW p \in PageIds,
         Holds(s, b, None, p, None), TreeOf(s, L), s.next \in PageIds,
         s.pages[p].node_type # "Leaf",
         NEW node, Wide(s.pages, s.next, s.root, L, p, node), Len(node.keys) = max_keys + 1,
         NEW r, r = split_internal(s, p, node)
  PROVE  /\ Holds(r.st, b, None, None, None)
         /\ TreeOf(r.st, Beside(L, s.next, p))
         /\ \A q \in PageIds : q < s.next => Beside(L, s.next, p)[q] = L[q]
         /\ r.st.root = s.root /\ r.st.merges = s.merges /\ r.st.next = s.next + 1
         /\ Strict(s.pages, s.root, {}) /\ WideStrict(s.pages, p, node)
              => Strict(r.st.pages, r.st.root, {})
         /\ SplitOf(r, Beside(L, s.next, p), p)
<1> DEFINE mid == Len(node.keys) \div 2
           right == s.next
           rnode == RightHalf(node, mid)
           lnode == LeftHalf(node, mid)
           c == create_page(s)
           m == update_parents(c, rnode.children, right)
           t == r.st
           M == Beside(L, right, p)
<1>1. /\ t = release_node(release_node(write_node(write_node(m, p, lnode), right, rnode), p), right)
      /\ r.split = <<node.keys[mid + 1], right>>
  BY DEF split_internal, SplitInternal, RightHalf, LeftHalf
<1>2. /\ node \in Nodes /\ node.node_type = "Internal" /\ node.parent = s.pages[p].parent
      /\ Len(node.children) = Len(node.keys) + 1
      /\ \A i \in 1 .. Len(node.children) : node.children[i] # s.root
  BY DEF Wide
<1>3. Halves(node, lnode, rnode, mid) /\ node.keys[mid + 1] \in Nat
  <2> HIDE DEF lnode, rnode, mid
  <2>1. mid = Len(node.keys) \div 2
    BY DEF mid
  <2>2. Halves(node, LeftHalf(node, mid), RightHalf(node, mid), mid) /\ node.keys[mid + 1] \in Nat
    BY <1>2, <2>1, NodeHalves
  <2> QED BY <2>2 DEF lnode, rnode
<1> HIDE DEF lnode, rnode, mid
<1>4. /\ lnode \in Nodes /\ Whole(lnode) /\ rnode \in Nodes /\ Whole(rnode)
      /\ rnode.children \in Seq(PageIds)
      /\ \A i \in 1 .. Len(rnode.children) : rnode.children[i] # s.root
  <2> DEFINE n == Len(node.keys)
  <2>1. /\ lnode \in Nodes /\ rnode \in Nodes /\ mid \in Nat /\ n \in Nat
        /\ Len(lnode.keys) = mid /\ Len(lnode.children) = mid + 1 /\ mid >= 1
        /\ Len(rnode.keys) = n - mid - 1 /\ Len(rnode.children) = n - mid /\ n - mid - 1 >= 1
        /\ \A i \in 1 .. n - mid : rnode.children[i] = node.children[mid + 1 + i]
        /\ Len(node.children) = n + 1
    BY <1>2, <1>3 DEF Halves
  <2> HIDE DEF n
  <2>2. Len(rnode.children) = Len(rnode.keys) + 1 /\ rnode.children \in Seq(PageIds)
    BY <2>1 DEF Nodes
  <2>3. \A i \in 1 .. n - mid : mid + 1 + i \in 1 .. n + 1
    BY <2>1
  <2>4. \A i \in 1 .. n - mid : rnode.children[i] # s.root
    BY <1>2, <2>1, <2>3
  <2>5. Whole(lnode) /\ Whole(rnode)
    BY <2>1, <2>2 DEF Whole
  <2> QED BY <2>1, <2>2, <2>4, <2>5
<1>5. Holds(c, b, None, p, right) /\ Created(c, s)
  <2>1. Holds(create_page(s), b, None, p, s.next) /\ Created(create_page(s), s)
    BY CreateHolds
  <2> QED BY <2>1 DEF right
<1>6. /\ TreeOf(c, L) /\ c.pages[right].node_type = "Leaf"
  BY <1>5, CreatedTree DEF right
<1>7. /\ Wrote(c.pages, s.pages, right, Zeroed)
      /\ c.next = s.next + 1 /\ c.root = s.root /\ c.merges = s.merges /\ right \in PageIds
      /\ right \in PageOrNone /\ right < c.next
  <2>1. s.next \in Nat
    BY PageFacts
  <2> QED BY <1>5, <2>1 DEF Created, Wrote, right, PageOrNone
<1> HIDE DEF right, c
<1>8. /\ Holds(m, b, None, p, right)
      /\ Reparented(m.pages, c.pages, Kids(rnode), right)
      /\ SameRoot(m, c)
  <2> DEFINE ps == rnode.children
  <2>1. m = update_parents(c, ps, right)
    OBVIOUS
  <2>2. \A i \in 1 .. Len(ps) : ps[i] # c.root
    BY <1>4, <1>7
  <2>3. ps \in Seq(PageIds) /\ Holds(c, b, p, right, None)
    <3>1. Holds(c, b, p, None, right)
      BY <1>5, HoldsAny
    <3> QED BY <1>4, <3>1, HoldsAny
  <2> HIDE DEF m, ps
  <2>4. Holds(m, b, p, right, None)
    BY <1>6, <1>7, <2>1, <2>2, <2>3, UpdateParentsHolds
  <2>5. Reparented(m.pages, c.pages, {ps[i] : i \in 1 .. Len(ps)}, right)
    BY <1>6, <1>7, <2>1, <2>2, <2>3, UpdateParentsHolds
  <2>6. SameRoot(m, c)
    BY <1>6, <1>7, <2>1, <2>2, <2>3, UpdateParentsHolds
  <2>7. Holds(m, b, None, p, right)
    <3>1. Holds(m, b, p, None, right)
      BY <2>4, HoldsAny
    <3> QED BY <3>1, HoldsAny
  <2> QED BY <2>5, <2>6, <2>7 DEF Kids, ps
<1> HIDE DEF m, t
<1>9. /\ Holds(t, b, None, None, None)
      /\ SameRoot(t, m)
      /\ BothWritten(t, m, p, lnode, right, rnode)
  <2>1. t = release_node(release_node(write_node(write_node(m, p, lnode), right, rnode), p), right)
    BY <1>1 DEF m, c, t
  <2>2. Holds(t, b, None, None, None)
    BY <1>4, <1>7, <1>8, <2>1, HalvesHold
  <2>3. SameRoot(t, m)
    BY <1>4, <1>7, <1>8, <2>1, HalvesHold
  <2>4. BothWritten(t, m, p, lnode, right, rnode)
    BY <1>4, <1>7, <1>8, <2>1, HalvesHold
  <2> QED BY <2>2, <2>3, <2>4
<1>10. PICK g : Wrote(g, m.pages, p, lnode) /\ Wrote(t.pages, g, right, rnode)
  BY <1>9 DEF BothWritten
<1>11. Tree(s.pages, right, s.root, L) /\ Wide(s.pages, right, s.root, L, p, node)
  BY DEF TreeOf, right
<1>12. t.root = s.root /\ t.merges = s.merges /\ t.next = s.next + 1 /\ right < t.next
  BY <1>7, <1>8, <1>9 DEF SameRoot
<1>13. /\ Tree(t.pages, right + 1, s.root, M)
       /\ Orphan(t.pages, right)
       /\ Len(t.pages[p].keys) >= min_keys /\ Len(t.pages[right].keys) >= min_keys
       /\ M[right] = M[p]
       /\ \A q \in PageIds : q < right => M[q] = L[q]
       /\ Strict(s.pages, s.root, {}) /\ WideStrict(s.pages, p, node) => Strict(t.pages, s.root, {})
  <2> DEFINE pg == s.pages
             rt == s.root
             pgc == c.pages
             pgm == m.pages
             pgt == t.pages
  <2>1. /\ Tree(pg, right, rt, L) /\ right \in PageIds /\ pg[p].node_type # "Leaf"
        /\ Wide(pg, right, rt, L, p, node) /\ Halves(node, lnode, rnode, mid)
        /\ Wrote(pgc, pg, right, Zeroed) /\ Reparented(pgm, pgc, Kids(rnode), right)
        /\ Wrote(g, pgm, p, lnode) /\ Wrote(pgt, g, right, rnode)
    BY <1>3, <1>7, <1>8, <1>10, <1>11
  <2> HIDE DEF pg, rt, pgc, pgm, pgt, M
  <2>2. Tree(pgt, right + 1, rt, M)
    BY <2>1, NodeSplit DEF M
  <2>3. Orphan(pgt, right)
    BY <2>1, NodeSplit
  <2>4. Len(pgt[p].keys) >= min_keys /\ Len(pgt[right].keys) >= min_keys
    BY <2>1, NodeSplit
  <2>5. M[right] = M[p] /\ \A q \in PageIds : q < right => M[q] = L[q]
    BY <2>1, NodeSplit DEF M
  <2>6. Strict(pg, rt, {}) /\ WideStrict(pg, p, node) => Strict(pgt, rt, {})
    BY <2>1, NodeSplit
  <2> QED BY <2>2, <2>3, <2>4, <2>5, <2>6 DEF pg, rt, pgt
<1>14. right # s.root
  BY <1>6, <1>5, CreatedTree, <1>7 DEF right
<1>15. SplitOf(r, M, p)
  BY <1>1, <1>3, <1>7, <1>12, <1>13, <1>14 DEF SplitOf, t
<1>16. TreeOf(t, M)
  BY <1>12, <1>13 DEF TreeOf, right
<1> QED BY <1>9, <1>12, <1>13, <1>15, <1>16 DEF M, t, right

\* The node with page q as a child, behind the key.
Wider(node, key, q) ==
  LET i == find_position(node.keys, key)
  IN  [node EXCEPT !.keys = InsertAt(@, i, key), !.children = InsertAt(@, i + 1, q)]

LEMMA WiderFacts ==
  ASSUME NEW pg, NEW nx, NEW rt, NEW L, Tree(pg, nx, rt, L),
         NEW p \in PageIds, pg[p].node_type # "Leaf",
         NEW q \in PageIds, q < nx, q # rt, L[q] = L[p] - 1, NEW key \in Nat
  PROVE  /\ Wide(pg, nx, rt, L, p, Wider(pg[p], key, q))
         /\ Len(Wider(pg[p], key, q).keys) = Len(pg[p].keys) + 1
         /\ \A pg2 : /\ StrictAt(pg, p, {}) /\ Orphan(pg, q) /\ Len(pg[q].keys) >= min_keys
                     /\ Reparented(pg2, pg, {q}, p)
              => WideStrict(pg2, p, Wider(pg[p], key, q))
<1> DEFINE node == pg[p]
           w == Wider(node, key, q)
           i == find_position(node.keys, key)
           ks == InsertAt(node.keys, i, key)
           cs == InsertAt(node.children, i + 1, q)
           n == Len(node.keys)
           Level(c) == c \in PageIds /\ c < nx /\ c # rt /\ L[c] = L[p] - 1
<1>1. pg \in [PageIds -> Nodes] /\ Wide(pg, nx, rt, L, p, node)
  BY InternalFacts DEF Tree
<1>2. /\ node \in Nodes /\ node.keys \in Seq(Nat) /\ node.children \in Seq(PageIds)
      /\ node.node_type = "Internal" /\ n \in Nat /\ Len(node.children) = n + 1
      /\ \A j \in 1 .. n + 1 : Level(node.children[j])
  BY <1>1 DEF Wide, Nodes
<1>3. i \in 1 .. n + 1
  BY <1>2, PositionFound
<1>4. w = [node EXCEPT !.keys = ks, !.children = cs]
  BY DEF Wider
<1> HIDE DEF w, i, node
<1>5. ks \in Seq(Nat) /\ Len(ks) = n + 1
  <2>1. ks \in Seq(Nat) /\ InsertedAt(ks, node.keys, i, key)
    BY <1>2, <1>3, InsertAtSpec
  <2> QED BY <2>1 DEF InsertedAt
<1>6. /\ cs \in Seq(PageIds) /\ Len(cs) = n + 2
      /\ \A j \in 1 .. n + 2 : cs[j] = IF j < i + 1 THEN node.children[j]
                                       ELSE IF j = i + 1 THEN q ELSE node.children[j - 1]
  <2> HIDE DEF n, cs
  <2>1. i + 1 \in 1 .. Len(node.children) + 1
    BY <1>2, <1>3
  <2>2. cs \in Seq(PageIds) /\ InsertedAt(cs, node.children, i + 1, q)
    BY <1>2, <2>1, InsertAtSpec DEF cs
  <2>3. n + 1 + 1 = n + 2
    BY <1>2
  <2> QED BY <1>2, <2>2, <2>3 DEF InsertedAt
<1> HIDE DEF ks, cs, n
<1>7. w \in Nodes /\ w.keys = ks /\ w.children = cs /\ w.node_type = "Internal"
      /\ w.parent = node.parent
  BY <1>2, <1>4, <1>5, <1>6 DEF Nodes
<1>8. \A j \in 1 .. n + 2 : \/ j < i + 1 /\ j \in 1 .. n + 1
                            \/ j = i + 1
                            \/ j > i + 1 /\ j - 1 \in 1 .. n + 1
  BY <1>2, <1>3
<1>9. \A j \in 1 .. n + 2 : Level(cs[j])
  <2>1. Level(q)
    OBVIOUS
  <2> HIDE DEF Level
  <2>2. ASSUME NEW j \in 1 .. n + 2 PROVE Level(cs[j])
    <3>1. CASE j < i + 1 /\ j \in 1 .. n + 1
      BY <1>2, <1>6, <3>1
    <3>2. CASE j = i + 1
      BY <1>3, <1>6, <2>1, <3>2
    <3>3. CASE j > i + 1 /\ j - 1 \in 1 .. n + 1
      <4>1. ~(j < i + 1) /\ j # i + 1
        BY <1>3, <3>3
      <4>2. cs[j] = node.children[j - 1]
        BY <1>6, <4>1
      <4> QED BY <1>2, <3>3, <4>2
    <3> QED BY <1>8, <3>1, <3>2, <3>3
  <2> QED BY <2>2
<1>10. Wide(pg, nx, rt, L, p, w)
  <2>1. Len(w.children) = Len(w.keys) + 1
    BY <1>2, <1>5, <1>6, <1>7
  <2> QED BY <1>6, <1>7, <1>9, <2>1 DEF Wide, node
<1>11. Len(w.keys) = n + 1
  BY <1>5, <1>7
<1>12. ASSUME NEW pg2, StrictAt(pg, p, {}), Orphan(pg, q), Len(pg[q].keys) >= min_keys,
              Reparented(pg2, pg, {q}, p)
       PROVE  WideStrict(pg2, p, w)
  <2>1. /\ \A j, l \in 1 .. n + 1 : node.children[j] = node.children[l] => j = l
        /\ \A j \in 1 .. n + 1 : LET c == node.children[j]
                                 IN  pg[c].parent = p /\ Len(pg[c].keys) >= min_keys /\ c # q
    BY <1>2, <1>12 DEF StrictAt, Orphan, node
  <2>2. \A c \in PageIds : /\ pg2[c].keys = pg[c].keys
                           /\ pg2[c].parent = IF c = q THEN p ELSE pg[c].parent
    <3>1. \A c \in PageIds : pg[c] \in Nodes
      BY <1>1
    <3> QED BY <1>12, <3>1 DEF Reparented, Nodes
  <2>3. ASSUME NEW j \in 1 .. n + 2, NEW l \in 1 .. n + 2, cs[j] = cs[l] PROVE j = l
    <3>1. (j < i + 1 /\ j \in 1 .. n + 1 /\ cs[j] = node.children[j])
          \/ (j = i + 1 /\ cs[j] = q)
          \/ (j > i + 1 /\ j - 1 \in 1 .. n + 1 /\ cs[j] = node.children[j - 1])
      BY <1>3, <1>6, <1>8
    <3>2. (l < i + 1 /\ l \in 1 .. n + 1 /\ cs[l] = node.children[l])
          \/ (l = i + 1 /\ cs[l] = q)
          \/ (l > i + 1 /\ l - 1 \in 1 .. n + 1 /\ cs[l] = node.children[l - 1])
      BY <1>3, <1>6, <1>8
    <3>3. j \in Int /\ l \in Int /\ i \in Int
      BY <1>3
    <3> QED BY <2>1, <2>3, <3>1, <3>2, <3>3
  <2>4. ASSUME NEW j \in 1 .. n + 2
        PROVE  pg2[cs[j]].parent = p /\ Len(pg2[cs[j]].keys) >= min_keys
    <3>1. cs[j] = q \/ \E l \in 1 .. n + 1 : cs[j] = node.children[l]
      <4>1. cs[j] = IF j < i + 1 THEN node.children[j]
                    ELSE IF j = i + 1 THEN q ELSE node.children[j - 1]
        BY <1>6
      <4> QED BY <1>3, <1>8, <4>1
    <3>2. cs[j] \in PageIds
      BY <1>9
    <3> QED BY <1>12, <2>1, <2>2, <3>1, <3>2
  <2> QED BY <1>6, <1>7, <2>3, <2>4 DEF WideStrict
<1> QED BY <1>10, <1>11, <1>12 DEF w, node, n

\* The levels once p took in a child: a page nx beside it where p was split.
After(L, r, nx, p) == IF r.split = NoSplit THEN L ELSE Beside(L, nx, p)

LEMMA AddChildHolds ==
  ASSUME NEW s, NEW b, NEW L, NEW p \in PageIds, NEW q \in PageIds, NEW key \in Nat,
         Holds(s, b, None, None, None), TreeOf(s, L), s.next \in PageIds,
         s.pages[p].node_type # "Leaf",
         q < s.next, q # s.root, L[q] = L[p] - 1, Len(s.pages[q].keys) >= min_keys,
         Orphan(s.pages, q),
         NEW r, r = TakeIn(fetch(s, p), p, <<key, q>>)
  PROVE  /\ Inserts(r, s, b, L, After(L, r, s.next, p), p)
         /\ r.st.next \in {s.next, s.next + 1}
<1> DEFINE m == fetch(s, p)
           node == s.pages[p]
           w == Wider(node, key, q)
           st1 == update_parent(m, q, p)
<1>1. Holds(m, b, None, None, p) /\ SameTree(m, s)
  BY FetchHolds
<1>2. Tree(s.pages, s.next, s.root, L) /\ s.pages \in [PageIds -> Nodes]
  BY DEF TreeOf, Tree
<1>3. /\ Wide(s.pages, s.next, s.root, L, p, w)
      /\ Len(w.keys) = Len(node.keys) + 1
      /\ \A pg2 : /\ StrictAt(s.pages, p, {}) /\ Orphan(s.pages, q)
                  /\ Len(s.pages[q].keys) >= min_keys
                  /\ Reparented(pg2, s.pages, {q}, p)
           => WideStrict(pg2, p, w)
  BY <1>2, WiderFacts
<1>4. m.pages = s.pages /\ m.next = s.next /\ m.root = s.root /\ m.merges = s.merges /\ TreeOf(m, L)
  BY <1>1, <1>2 DEF SameTree, TreeOf
<1>5. r = IF Len(w.keys) > max_keys THEN split_internal(st1, p, w)
          ELSE [st |-> Done(st1, p, w), split |-> NoSplit]
  BY <1>4 DEF TakeIn, read_node, Wider
<1>6. /\ p < s.next
      /\ Len(node.keys) <= max_keys
      /\ Len(node.keys) \in Nat /\ max_keys \in Nat
      /\ Strict(s.pages, s.root, {}) => StrictAt(s.pages, p, {})
      /\ p \in PageOrNone /\ p # q
  <2>1. L[p] \in Nat
    BY <1>2 DEF Tree
  <2>2. p # q
    BY <2>1
  <2> QED BY <1>2, <2>2, InternalFacts, NodeFacts, PageFacts DEF PageOrNone
<1> HIDE DEF m, w
<1>7. /\ Holds(st1, b, None, p, None)
      /\ Reparented(st1.pages, m.pages, {q}, p)
      /\ SameRoot(st1, m)
  <2>1. Holds(m, b, None, p, None)
    BY <1>1, HoldsAny
  <2> HIDE DEF st1
  <2>2. st1 = update_parent(m, q, p)
    BY DEF st1
  <2>3. Holds(st1, b, None, p, None)
    BY <1>4, <1>6, <2>1, <2>2, UpdateParentHolds
  <2>4. Reparented(st1.pages, m.pages, {q}, p)
    BY <1>4, <1>6, <2>1, <2>2, UpdateParentHolds
  <2>5. SameRoot(st1, m)
    BY <1>4, <1>6, <2>1, <2>2, <2>3, <2>4, UpdateParentHolds
  <2> QED BY <2>3, <2>4, <2>5
<1> HIDE DEF st1
<1>8. /\ st1.next = s.next /\ st1.root = s.root /\ st1.merges = s.merges
      /\ Reparented(st1.pages, s.pages, {q}, p)
  BY <1>4, <1>7 DEF SameRoot
<1>9. /\ st1.pages \in [PageIds -> Nodes]
      /\ \A c \in PageIds : /\ Akin(st1.pages[c], s.pages[c])
                            /\ c # q => st1.pages[c] = s.pages[c]
  <2>1. \A c \in PageIds : [s.pages[c] EXCEPT !.parent = p] \in Nodes
    BY <1>2, <1>6 DEF Nodes
  <2>2. \A c \in PageIds : Akin([s.pages[c] EXCEPT !.parent = p], s.pages[c])
                           /\ Akin(s.pages[c], s.pages[c])
    BY <1>2 DEF Akin, Nodes
  <2> QED BY <1>2, <1>8, <2>1, <2>2 DEF Reparented
<1>10. Tree(st1.pages, s.next, s.root, L) /\ TreeOf(st1, L)
  <2>1. s.root \notin {q}
    OBVIOUS
  <2>2. Tree(st1.pages, s.next, s.root, L)
    <3> DEFINE S == {q}
    <3>1. Reparented(st1.pages, s.pages, S, p) /\ s.root \notin S
      BY <1>8
    <3> HIDE DEF S
    <3> QED BY <1>6, <3>1, ReparentedTree
  <2> QED BY <1>8, <2>2 DEF TreeOf
<1>11. /\ Wide(st1.pages, s.next, s.root, L, p, w)
       /\ st1.pages[p].node_type # "Leaf"
       /\ Len(st1.pages[p].keys) = Len(node.keys)
  BY <1>3, <1>6, <1>9 DEF Wide
<1>12. ASSUME Strict(s.pages, s.root, {})
       PROVE  Strict(st1.pages, s.root, {}) /\ WideStrict(st1.pages, p, w)
  <2>1. WideStrict(st1.pages, p, w)
    BY <1>3, <1>6, <1>8, <1>12
  <2> DEFINE E == {}
             W == {}
  <2>2. Strict(s.pages, s.root, E)
    BY <1>12
  <2>3. \A c \in PageIds \ W : Akin(st1.pages[c], s.pages[c])
    BY <1>9
  <2>4. \A c \in PageIds : \/ st1.pages[c].parent = s.pages[c].parent
                           \/ s.pages[c].parent \in W
                           \/ Orphan(s.pages, c)
    BY <1>9
  <2>5. \A c \in PageIds : \/ c \in E \/ Len(st1.pages[c].keys) >= min_keys
                           \/ c \notin E /\ Len(st1.pages[c].keys) >= Len(s.pages[c].keys)
                           \/ Orphan(s.pages, c)
    <3>1. \A c \in PageIds : Len(s.pages[c].keys) \in Nat /\ st1.pages[c].keys = s.pages[c].keys
      BY <1>2, <1>9, NodeFacts DEF Akin
    <3> QED BY <3>1
  <2>6. \A c \in W : StrictAt(st1.pages, c, E)
    OBVIOUS
  <2>7. s.root # None => st1.pages[s.root].parent = s.pages[s.root].parent
    <3>1. s.root \in PageOrNone
      BY <1>2 DEF Tree
    <3> QED BY <1>9, <3>1 DEF PageOrNone
  <2> HIDE DEF E, W
  <2>8. Strict(st1.pages, s.root, E)
    BY <1>2, <1>9, <2>2, <2>3, <2>4, <2>5, <2>6, <2>7, StrictStep
  <2> QED BY <2>1, <2>8 DEF E
<1>13. CASE Len(w.keys) > max_keys
  <2>1. r = split_internal(st1, p, w)
    BY <1>5, <1>13
  <2>2. Len(w.keys) = max_keys + 1
    <3> DEFINE n == Len(node.keys)
               k == Len(w.keys)
    <3>1. n \in Nat /\ n <= max_keys /\ k = n + 1 /\ max_keys \in Nat /\ k > max_keys
      BY <1>3, <1>6, <1>13
    <3> HIDE DEF n, k
    <3>2. k = max_keys + 1
      BY <3>1
    <3> QED BY <3>2 DEF k
  <2> DEFINE M == Beside(L, st1.next, p)
  <2>3. st1.next \in PageIds /\ Wide(st1.pages, st1.next, st1.root, L, p, w)
    BY <1>8, <1>11
  <2>4. /\ Holds(r.st, b, None, None, None)
        /\ TreeOf(r.st, M)
        /\ \A c \in PageIds : c < st1.next => M[c] = L[c]
        /\ r.st.root = st1.root /\ r.st.merges = st1.merges /\ r.st.next = st1.next + 1
        /\ Strict(st1.pages, st1.root, {}) /\ WideStrict(st1.pages, p, w)
             => Strict(r.st.pages, r.st.root, {})
        /\ SplitOf(r, M, p)
    <3>1. Holds(r.st, b, None, None, None)
      BY <1>7, <1>10, <1>11, <2>1, <2>2, <2>3, SplitInternalHolds
    <3>2. TreeOf(r.st, M)
      BY <1>7, <1>10, <1>11, <2>1, <2>2, <2>3, SplitInternalHolds
    <3>3. /\ \A c \in PageIds : c < st1.next => M[c] = L[c]
          /\ r.st.root = st1.root /\ r.st.merges = st1.merges /\ r.st.next = st1.next + 1
          /\ Strict(st1.pages, st1.root, {}) /\ WideStrict(st1.pages, p, w)
               => Strict(r.st.pages, r.st.root, {})
      BY <1>7, <1>10, <1>11, <2>1, <2>2, <2>3, <3>1, SplitInternalHolds
    <3>4. SplitOf(r, M, p)
      BY <1>7, <1>10, <1>11, <2>1, <2>2, <2>3, SplitInternalHolds
    <3> QED BY <3>1, <3>2, <3>3, <3>4
  <2>5. r.split # NoSplit
    <3>1. PICK c \in Nat, d \in PageIds : r.split = <<c, d>>
      BY <2>4 DEF SplitOf
    <3> DEFINE y == <<c, d>>
    <3>2. Len(y) # Len(<<>>)
      OBVIOUS
    <3> HIDE DEF y
    <3>3. y # <<>>
      BY <3>2
    <3> QED BY <3>1, <3>3 DEF NoSplit, y
  <2>6. M = After(L, r, s.next, p)
    BY <1>8, <2>5 DEF After
  <2> HIDE DEF M
  <2>7. Inserts(r, s, b, L, M, p)
    BY <1>8, <1>12, <2>4 DEF Inserts
  <2> QED BY <1>8, <2>4, <2>6, <2>7
<1>14. CASE ~(Len(w.keys) > max_keys)
  <2> DEFINE t == Done(st1, p, w)
  <2>1. r = [st |-> t, split |-> NoSplit]
    BY <1>5, <1>14
  <2>2. w \in Nodes /\ Whole(w) /\ deserialize(w) = w
        /\ Len(w.keys) >= Len(st1.pages[p].keys) /\ Len(w.keys) <= max_keys
    <3> DEFINE n == Len(node.keys)
               k == Len(w.keys)
    <3>1. n \in Nat /\ k = n + 1 /\ max_keys \in Nat /\ ~(k > max_keys)
          /\ Len(st1.pages[p].keys) = n /\ w \in Nodes /\ Len(w.children) = k + 1
      BY <1>3, <1>6, <1>11, <1>14 DEF Wide
    <3> HIDE DEF n, k
    <3>2. k >= 1 /\ k >= n /\ k <= max_keys
      BY <3>1
    <3>3. Whole(w)
      BY <3>1, <3>2 DEF Whole, k
    <3> QED BY <3>1, <3>2, <3>3, ReadsBack DEF k
  <2>3. Holds(st1, b, None, None, p)
    BY <1>7, HoldsAny
  <2> HIDE DEF t
  <2>4. t = Done(st1, p, w)
    BY DEF t
  <2>5. Holds(t, b, None, None, None)
    BY <2>2, <2>3, <2>4, DoneHolds
  <2>6. Wrote(t.pages, st1.pages, p, w)
    BY <2>2, <2>3, <2>4, DoneHolds
  <2>7. SameRoot(t, st1)
    BY <2>2, <2>3, <2>4, DoneHolds
  <2>8. Tree(t.pages, s.next, s.root, L)
    BY <1>10, <1>11, <2>2, <2>6, NodeWritten
  <2> DEFINE E == {}
  <2>9. Strict(st1.pages, s.root, E) /\ WideStrict(st1.pages, p, w) => Strict(t.pages, s.root, E)
    <3> HIDE DEF E
    <3> QED BY <1>10, <1>11, <2>2, <2>6, NodeWritten
  <2>10. t.next = s.next /\ t.root = s.root /\ t.merges = s.merges
    BY <1>8, <2>7 DEF SameRoot
  <2>11. Inserts(r, s, b, L, L, p)
    BY <1>12, <2>1, <2>5, <2>8, <2>9, <2>10 DEF Inserts, TreeOf
  <2>12. After(L, r, s.next, p) = L
    BY <2>1 DEF After
  <2> QED BY <2>1, <2>10, <2>11, <2>12
<1> QED BY <1>13, <1>14

---------------------------------------------------------------------------
(* Functions that are defined by recursion: the n-th step of each.         *)

\* The path one page longer, where it has not come to a leaf.
Further(st, k, path) ==
  LET node == read_node(st, Last(path))
  IN  IF node.node_type = "Leaf" THEN path
      ELSE Append(path, node.children[find_position(node.keys, k)])

Again(x) == IF x.again = <<>> THEN x ELSE RebalanceOnce(x.st, x.again[1], x.again[2])

\* The children of the pages in X.
ChildrenOf(X) == UNION {Range(Node(p).children) : p \in X}

Step(op, a, n, x) ==
  CASE op = "Path"   -> Further(a[1], a[2], x)
    [] op = "Insert" -> AddChild(x, a[1][a[2] + 1 - n])
    [] op = "Remove" -> Repaired(x, a[1][a[2] + 1 - n])
    [] op = "Round"  -> Again(x)
    [] op = "Layer"  -> ChildrenOf(x)

Steps(f, N, op, a, first) ==
  f = [n \in 0 .. N |-> IF n = 0 THEN first ELSE Step(op, a, n, f[n - 1])]

LEMMA StepsExist ==
  ASSUME NEW op, NEW a, NEW first, NEW N \in Nat
  PROVE  \E f : Steps(f, N, op, a, first)
<1> DEFINE T == {m \in Nat : \E f : Steps(f, m, op, a, first)}
<1>1. 0 \in T
  <2> DEFINE f == [n \in 0 .. 0 |-> first]
  <2>1. f = [n \in 0 .. 0 |-> IF n = 0 THEN first ELSE Step(op, a, n, f[n - 1])]
    OBVIOUS
  <2> QED BY <2>1 DEF Steps
<1>2. ASSUME NEW m \in 1 .. N, m - 1 \in T PROVE m \in T
  <2>1. PICK f : Steps(f, m - 1, op, a, first)
    BY <1>2
  <2> DEFINE g == [n \in 0 .. m |-> IF n = m THEN Step(op, a, m, f[m - 1]) ELSE f[n]]
  <2>2. /\ g[m] = Step(op, a, m, f[m - 1]) /\ m # 0
        /\ \A n \in 0 .. m - 1 : g[n] = f[n]
        /\ \A n \in 0 .. m : n = m \/ n \in 0 .. m - 1
        /\ \A n \in 0 .. m : n # 0 => g[n - 1] = f[n - 1]
        /\ g = [n \in 0 .. m |-> g[n]]
    OBVIOUS
  <2> HIDE DEF g
  <2>3. \A n \in 0 .. m - 1 : f[n] = IF n = 0 THEN first ELSE Step(op, a, n, f[n - 1])
    BY <2>1 DEF Steps
  <2>4. ASSUME NEW n \in 0 .. m
        PROVE  g[n] = IF n = 0 THEN first ELSE Step(op, a, n, g[n - 1])
    <3>1. n # 0 => g[n - 1] = f[n - 1]
      BY <2>2
    <3>2. n # m => g[n] = IF n = 0 THEN first ELSE Step(op, a, n, f[n - 1])
      BY <2>2, <2>3
    <3> QED BY <2>2, <3>1, <3>2
  <2>5. g = [n \in 0 .. m |-> IF n = 0 THEN first ELSE Step(op, a, n, g[n - 1])]
    BY <2>2, <2>4
  <2> QED BY <2>5 DEF Steps
<1>3. N \in T
  <2> HIDE DEF T
  <2> QED BY <1>1, <1>2, UpTo
<1> QED BY <1>3

LEMMA LastOf ==
  ASSUME NEW S, NEW s \in Seq(S), Len(s) > 0
  PROVE  Last(s) = s[Len(s)] /\ Last(s) \in S
<1>1. Len(s) \in 1 .. Len(s)
  OBVIOUS
<1> QED BY <1>1 DEF Last

\* The page below p on the way to a key is a child of p.
LEMMA ChildFound ==
  ASSUME NEW s, NEW L, TreeOf(s, L), NEW p \in PageIds, s.pages[p].node_type # "Leaf",
         NEW k \in Nat, NEW c, c = s.pages[p].children[find_position(s.pages[p].keys, k)]
  PROVE  /\ c \in PageIds /\ c < s.next /\ L[c] = L[p] - 1
         /\ c \in Kids(s.pages[p])
<1> DEFINE node == s.pages[p]
           i == find_position(node.keys, k)
<1>1. Tree(s.pages, s.next, s.root, L)
  BY DEF TreeOf
<1>2. Wide(s.pages, s.next, s.root, L, p, node)
  BY <1>1, InternalFacts
<1>3. node.keys \in Seq(Nat) /\ node.children \in Seq(PageIds)
  BY <1>2 DEF Wide, Nodes
<1>4. i \in 1 .. Len(node.keys) + 1
  BY <1>3, PositionFound
<1> HIDE DEF i
<1>5. i \in 1 .. Len(node.children) /\ c = node.children[i]
  BY <1>2, <1>4 DEF Wide, i
<1> HIDE DEF node
<1>6. c \in PageIds /\ c \in Kids(node)
  BY <1>3, <1>5 DEF Kids
<1> QED BY <1>2, <1>5, <1>6 DEF Wide, node

\* The pages from the root towards a leaf.
Descends(path, s, L, root) ==
  /\ path \in Seq(PageIds) /\ Len(path) >= 1 /\ path[1] = root
  /\ \A i \in 1 .. Len(path) : path[i] < s.next /\ L[path[i]] = L[root] + 1 - i
  /\ \A i \in 1 .. Len(path) - 1 : /\ s.pages[path[i]].node_type # "Leaf"
                                   /\ path[i + 1] \in Kids(s.pages[path[i]])

LEMMA FurtherDescends ==
  ASSUME NEW s, NEW L, TreeOf(s, L), NEW root \in PageIds, NEW k \in Nat,
         NEW path, Descends(path, s, L, root), NEW t, t = Further(s, k, path)
  PROVE  /\ Descends(t, s, L, root)
         /\ s.pages[path[Len(path)]].node_type = "Leaf" => t = path
         /\ s.pages[path[Len(path)]].node_type # "Leaf" => Len(t) = Len(path) + 1
<1> DEFINE n == Len(path)
           p == path[n]
           c == s.pages[p].children[find_position(s.pages[p].keys, k)]
<1>1. path \in Seq(PageIds) /\ n \in Nat /\ n >= 1 /\ p \in PageIds /\ Last(path) = p
  BY LastOf DEF Descends
<1>2. CASE s.pages[p].node_type = "Leaf"
  BY <1>1, <1>2 DEF Further, read_node
<1>3. CASE s.pages[p].node_type # "Leaf"
  <2>1. t = Append(path, c)
    BY <1>1, <1>3 DEF Further, read_node
  <2>2. c \in PageIds /\ c < s.next /\ L[c] = L[p] - 1 /\ c \in Kids(s.pages[p])
    BY <1>1, <1>3, ChildFound
  <2>3. /\ t \in Seq(PageIds) /\ Len(t) = n + 1 /\ t[n + 1] = c
        /\ \A i \in 1 .. n : t[i] = path[i]
    <3> HIDE DEF c
    <3> QED BY <1>1, <2>1, <2>2
  <2> HIDE DEF c
  <2>4. L[root] \in Nat /\ L[p] = L[root] + 1 - n
    BY <1>1 DEF TreeOf, Tree, Descends
  <2> HIDE DEF p
  <2>5. p = path[n]
    BY DEF p
  <2> HIDE DEF n
  <2>6. /\ \A i \in 1 .. n : path[i] < s.next /\ L[path[i]] = L[root] + 1 - i
        /\ \A i \in 1 .. n - 1 : /\ s.pages[path[i]].node_type # "Leaf"
                                 /\ path[i + 1] \in Kids(s.pages[path[i]])
        /\ path[1] = root
    BY DEF Descends, n
  <2>7. ASSUME NEW i \in 1 .. n + 1 PROVE t[i] < s.next /\ L[t[i]] = L[root] + 1 - i
    <3>1. CASE i = n + 1
      <4>1. L[c] = L[root] + 1 - (n + 1)
        BY <1>1, <2>2, <2>4
      <4> QED BY <2>2, <2>3, <3>1, <4>1
    <3>2. CASE i \in 1 .. n
      BY <2>3, <2>6, <3>2
    <3> QED BY <1>1, <3>1, <3>2
  <2>8. ASSUME NEW i \in 1 .. n PROVE /\ s.pages[t[i]].node_type # "Leaf"
                                      /\ t[i + 1] \in Kids(s.pages[t[i]])
    <3>1. CASE i = n
      BY <1>3, <2>2, <2>3, <2>5, <3>1
    <3>2. CASE i \in 1 .. n - 1
      <4>1. i + 1 \in 1 .. n
        BY <1>1, <3>2
      <4> QED BY <2>3, <2>6, <3>2, <4>1
    <3> QED BY <1>1, <3>1, <3>2
  <2>9. Len(t) >= 1 /\ t[1] = root /\ Len(t) - 1 = n
    BY <1>1, <2>3, <2>6
  <2>10. Descends(t, s, L, root)
    BY <2>3, <2>7, <2>8, <2>9 DEF Descends
  <2> QED BY <1>3, <2>3, <2>5, <2>10 DEF n
<1> QED BY <1>2, <1>3

\* Path ends in a leaf.
LEMMA PathDescends ==
  ASSUME NEW s, NEW L, TreeOf(s, L), NEW root \in PageIds, root < s.next, NEW k \in Nat,
         NEW path, path = Path(s, root, k)
  PROVE  /\ Descends(path, s, L, root)
         /\ Len(path) = L[root] + 1
         /\ s.pages[path[Len(path)]].node_type = "Leaf"
<1> DEFINE N == MaxPages
           f == CHOOSE f : f = [n \in 0 .. N |->
                  IF n = 0 THEN <<root>>
                  ELSE LET above == f[n - 1]
                           node  == read_node(s, Last(above))
                       IN  IF node.node_type = "Leaf" THEN above
                           ELSE Append(above, node.children[find_position(node.keys, k)])]
           Ends(q) == s.pages[q[Len(q)]].node_type = "Leaf"
           T == {n \in 0 .. N : Descends(f[n], s, L, root) /\ (Ends(f[n]) \/ Len(f[n]) = n + 1)}
<1>1. path = f[N]
  BY DEF Path
<1>2. N \in Nat
  BY PageFacts
<1>3. /\ f[0] = <<root>>
      /\ \A n \in 1 .. N : f[n] = Further(s, k, f[n - 1])
  <2> HIDE DEF f, N
  <2>1. PICK g : Steps(g, N, "Path", <<s, k>>, <<root>>)
    BY <1>2, StepsExist
  <2>2. g = [n \in 0 .. N |-> IF n = 0 THEN <<root>> ELSE Step("Path", <<s, k>>, n, g[n - 1])]
    BY <2>1 DEF Steps
  <2>3. \A n : Step("Path", <<s, k>>, n, g[n - 1]) = Further(s, k, g[n - 1])
    BY DEF Step
  <2>4. g = [n \in 0 .. N |-> IF n = 0 THEN <<root>> ELSE Further(s, k, g[n - 1])]
    BY <2>2, <2>3
  <2>5. f = [n \in 0 .. N |-> IF n = 0 THEN <<root>> ELSE Further(s, k, f[n - 1])]
    BY <2>4 DEF f, Further
  <2> QED BY <1>2, <2>5
<1> HIDE DEF f, Ends
<1>4. 0 \in T
  <2>1. Descends(<<root>>, s, L, root)
    <3>1. <<root>> \in Seq(PageIds) /\ Len(<<root>>) = 1 /\ <<root>>[1] = root /\ L[root] \in Nat
      BY DEF TreeOf, Tree
    <3>2. L[root] + 1 - 1 = L[root]
      BY <3>1
    <3> DEFINE path1 == <<root>>
    <3>3. /\ path1 \in Seq(PageIds) /\ Len(path1) = 1 /\ path1[1] = root /\ root < s.next
          /\ L[path1[1]] = L[root] + 1 - 1
      BY <3>1, <3>2
    <3> HIDE DEF path1
    <3>4. 1 .. Len(path1) = {1} /\ 1 .. Len(path1) - 1 = {}
      BY <3>3
    <3>5. Descends(path1, s, L, root)
      <4>1. \A i \in 1 .. Len(path1) : path1[i] < s.next /\ L[path1[i]] = L[root] + 1 - i
        BY <3>3, <3>4
      <4>2. \A i \in 1 .. Len(path1) - 1 : /\ s.pages[path1[i]].node_type # "Leaf"
                                           /\ path1[i + 1] \in Kids(s.pages[path1[i]])
        BY <3>4
      <4> QED BY <3>3, <4>1, <4>2 DEF Descends
    <3> QED BY <3>5 DEF path1
  <2> QED BY <1>2, <1>3, <2>1
<1>5. ASSUME NEW n \in 1 .. N, n - 1 \in T PROVE n \in T
  <2>1. Descends(f[n - 1], s, L, root) /\ (Ends(f[n - 1]) \/ Len(f[n - 1]) = n - 1 + 1)
    BY <1>5
  <2>2. f[n] = Further(s, k, f[n - 1])
    BY <1>3
  <2>3. /\ Descends(f[n], s, L, root)
        /\ Ends(f[n - 1]) => f[n] = f[n - 1]
        /\ ~Ends(f[n - 1]) => Len(f[n]) = Len(f[n - 1]) + 1
    BY <2>1, <2>2, FurtherDescends DEF Ends
  <2>4. Ends(f[n]) \/ Len(f[n]) = n + 1
    BY <2>1, <2>3
  <2> QED BY <1>2, <2>3, <2>4
<1>6. Descends(path, s, L, root) /\ (Ends(path) \/ Len(path) = N + 1)
  <2>1. N \in 0 .. N
    BY <1>2
  <2> HIDE DEF T, N
  <2>2. N \in T
    BY <1>2, <1>4, <1>5, <2>1, UpTo
  <2> QED BY <1>1, <2>2 DEF T
<1> HIDE DEF N
<1> DEFINE n == Len(path)
<1>7. /\ n \in Nat /\ n >= 1 /\ path[n] \in PageIds /\ L[path[n]] = L[root] + 1 - n
      /\ L[path[n]] \in Nat /\ L[root] \in Nat
  BY <1>6 DEF Descends, TreeOf, Tree
<1>8. L[root] < N
  <2>1. NodeOK(s.pages, s.next, s.root, L, root) /\ s.next \in 0 .. N /\ N > 0
    BY PageFacts DEF TreeOf, Tree, N
  <2> QED BY <1>2, <1>7, <2>1 DEF NodeOK
<1>9. Ends(path)
  <2> SUFFICES ASSUME n = N + 1 PROVE FALSE
    BY <1>6
  <2> HIDE DEF n
  <2> QED BY <1>2, <1>7, <1>8
<1>10. L[path[n]] = 0
  <2>1. NodeOK(s.pages, s.next, s.root, L, path[n])
    BY <1>7 DEF TreeOf, Tree
  <2> QED BY <1>9, <2>1 DEF NodeOK, Ends
<1>11. n = L[root] + 1
  <2> HIDE DEF n
  <2> QED BY <1>7, <1>10
<1> QED BY <1>6, <1>9, <1>11 DEF Ends
---------------------------------------------------------------------------
(* Inserting.                                                              *)

\* At most a page more, and nothing to do above without a split.
Higher(u, r) == /\ u.st.next = r.st.next \/ u.st.next = r.st.next + 1
                /\ r.split = NoSplit => u.split = NoSplit /\ u.st.next = r.st.next

\* The parent p takes in what became of its child.
LEMMA InsertsAbove ==
  ASSUME NEW s, NEW b, NEW L, NEW M, TreeOf(s, L), NEW below \in PageIds, NEW p \in PageIds,
         below < s.next, p < s.next, L[below] = L[p] - 1,
         NEW r, Inserts(r, s, b, L, M, below), r.split = NoSplit \/ r.st.next \in PageIds,
         s.next <= r.st.next,
         NEW u, u = AddChild(r, p)
  PROVE  /\ Inserts(u, s, b, L, After(M, u, r.st.next, p), p)
         /\ Higher(u, r)
<1>1. CASE r.split = NoSplit
  BY <1>1 DEF AddChild, Inserts, Higher, After
<1>2. CASE r.split # NoSplit
  <2> DEFINE t == r.st
  <2>1. /\ Holds(t, b, None, None, None) /\ TreeOf(t, M)
        /\ \A q \in PageIds : q < s.next => M[q] = L[q]
        /\ t.root = s.root /\ t.merges = s.merges
        /\ Strict(s.pages, s.root, {}) => Strict(t.pages, t.root, {})
        /\ SplitOf(r, M, below)
    BY <1>2 DEF Inserts
  <2>2. PICK key \in Nat, q \in PageIds :
          /\ r.split = <<key, q>>
          /\ q < t.next /\ q # t.root /\ M[q] = M[below]
          /\ Len(t.pages[q].keys) >= min_keys
          /\ Orphan(t.pages, q)
    BY <2>1 DEF SplitOf
  <2>3. u = TakeIn(fetch(t, p), p, <<key, q>>)
    BY <1>2, <2>2 DEF AddChild
  <2> HIDE DEF t
  <2>4. M[q] = M[p] - 1
    BY <2>1, <2>2
  <2>5. t.pages[p].node_type # "Leaf" /\ t.next \in Nat
    <3>1. M[p] - 1 \in Nat /\ M[p] \in Nat
      BY <2>1, <2>4 DEF TreeOf, Tree
    <3>2. M[p] # 0
      BY <3>1
    <3>3. Tree(t.pages, t.next, t.root, M)
      BY <2>1 DEF TreeOf
    <3> QED BY <3>2, <3>3, LeafFacts DEF Tree
  <2> DEFINE M2 == After(M, u, t.next, p)
  <2>6. Inserts(u, t, b, M, M2, p) /\ u.st.next \in {t.next, t.next + 1}
    <3>1. t.next \in PageIds
      BY <1>2 DEF t
    <3>2. Inserts(u, t, b, M, M2, p)
      BY <2>1, <2>2, <2>3, <2>4, <2>5, <3>1, AddChildHolds
    <3>3. u.st.next \in {t.next, t.next + 1}
      BY <2>1, <2>2, <2>3, <2>4, <2>5, <3>1, AddChildHolds
    <3> QED BY <3>2, <3>3
  <2>7. M2 = After(M, u, r.st.next, p)
    BY DEF t
  <2> HIDE DEF M2
  <2>8. \A g \in PageIds : g < s.next => g < t.next /\ M2[g] = L[g]
    <3>1. \A g \in PageIds : g < s.next => g < t.next
      <4>1. s.next \in Nat /\ t.next \in Nat /\ s.next <= t.next
        BY <2>5, PageFacts DEF TreeOf, Tree, t
      <4> QED BY <4>1, PageFacts
    <3> QED BY <2>1, <2>6, <3>1 DEF Inserts
  <2>9. Inserts(u, s, b, L, M2, p)
    BY <2>1, <2>6, <2>8 DEF Inserts
  <2>10. u.st.next = t.next \/ u.st.next = t.next + 1
    BY <2>6
  <2> QED BY <1>2, <2>7, <2>9, <2>10 DEF t, Higher
<1> QED BY <1>1, <1>2
\* The front of a sequence of pages, and its last.
LEMMA FrontOf ==
  ASSUME NEW S, NEW s \in Seq(S), Len(s) > 0
  PROVE  Front(s) \in Seq(S)
<1>1. Len(s) - 1 \in 0 .. Len(s)
  OBVIOUS
<1> QED BY <1>1, Prefix DEF Front

\* A split at most on each level, and none where the leaf takes the key.
LEMMA InsertRecursiveHolds ==
  ASSUME NEW s, NEW b, NEW L, Holds(s, b, None, None, None), TreeOf(s, L),
         NEW root \in PageIds, root = s.root, NEW k \in Nat, NEW v \in Nat,
         NEW path, path = Path(s, root, k), NEW leaf, leaf = path[Len(path)],
         s.next + 1 + Len(path) <= MaxPages \/ Takes(s.pages[leaf], k),
         NEW r, r = insert_recursive(s, root, k, v)
  PROVE  /\ \E M : Inserts(r, s, b, L, M, root)
         /\ s.next <= r.st.next
         /\ r.split = NoSplit \/ r.st.next \in PageIds
<1> DEFINE h == Len(path) - 1
           m == visit_each(s, Front(path))
           f == CHOOSE f : f = [n \in 0 .. h |->
                  IF n = 0 THEN PutInLeaf(visit_each(s, Front(path)), Last(path), k, v)
                  ELSE AddChild(f[n - 1], path[h + 1 - n])]
           Good(n) == /\ \E M : Inserts(f[n], s, b, L, M, path[h + 1 - n])
                      /\ s.next <= f[n].st.next /\ f[n].st.next <= s.next + n + 1
                      /\ f[n].split = NoSplit \/ s.next + h + 2 <= MaxPages
           T == {n \in 0 .. h : Good(n)}
<1>1. /\ s.next \in Nat /\ s.next <= MaxPages /\ MaxPages \in Nat
      /\ root \in PageIds /\ root < s.next
  <2>1. s.next \in 0 .. MaxPages /\ RootOK(s.pages, s.next, s.root) /\ s.root # None
    BY PageFacts DEF TreeOf, Tree
  <2> QED BY <2>1, PageFacts DEF RootOK
<1>2. /\ Descends(path, s, L, root)
      /\ Len(path) = L[root] + 1
      /\ s.pages[leaf].node_type = "Leaf"
  BY <1>1, PathDescends
<1>3. /\ path \in Seq(PageIds) /\ Len(path) \in Nat /\ Len(path) >= 1
      /\ path[1] = root /\ Last(path) = leaf /\ leaf \in PageIds /\ leaf < s.next
      /\ Front(path) \in Seq(PageIds)
  <2>1. path \in Seq(PageIds) /\ Len(path) \in Nat /\ Len(path) >= 1 /\ path[1] = root
    BY <1>2 DEF Descends
  <2>2. Last(path) = leaf /\ leaf \in PageIds
    BY <2>1, LastOf
  <2>3. leaf < s.next
    BY <1>2, <2>1 DEF Descends
  <2> QED BY <2>1, <2>2, <2>3, FrontOf
<1>4. /\ h \in Nat /\ h + 1 = Len(path) /\ h + 1 - 0 = Len(path) /\ h + 1 - h = 1
      /\ \A n \in 1 .. h : /\ h + 1 - n \in 1 .. Len(path) - 1 /\ h + 1 - n \in 1 .. Len(path)
                           /\ h + 1 - (n - 1) = (h + 1 - n) + 1
                           /\ h + 1 - (n - 1) \in 1 .. Len(path)
  BY <1>3
<1>5. Holds(m, b, None, None, None) /\ SameTree(m, s) /\ TreeOf(m, L)
  <2>1. Holds(m, b, None, None, None) /\ SameTree(m, s)
    BY <1>3, VisitEachHolds, PageFacts DEF PageOrNone
  <2> QED BY <2>1, SameTreeOf
<1>6. r = f[h]
  BY DEF insert_recursive
<1> HIDE DEF h, m
<1>7. /\ f[0] = PutInLeaf(m, leaf, k, v)
      /\ \A n \in 1 .. h : f[n] = AddChild(f[n - 1], path[h + 1 - n])
  <2> HIDE DEF f
  <2>1. PICK g : Steps(g, h, "Insert", <<path, h>>, PutInLeaf(m, leaf, k, v))
    BY <1>4, StepsExist
  <2>2. g = [n \in 0 .. h |-> IF n = 0 THEN PutInLeaf(m, leaf, k, v)
                              ELSE Step("Insert", <<path, h>>, n, g[n - 1])]
    BY <2>1 DEF Steps
  <2>3. \A n : Step("Insert", <<path, h>>, n, g[n - 1]) = AddChild(g[n - 1], path[h + 1 - n])
    BY DEF Step
  <2>4. g = [n \in 0 .. h |-> IF n = 0 THEN PutInLeaf(m, leaf, k, v)
                              ELSE AddChild(g[n - 1], path[h + 1 - n])]
    BY <2>2, <2>3
  <2>5. f = [n \in 0 .. h |-> IF n = 0 THEN PutInLeaf(m, leaf, k, v)
                              ELSE AddChild(f[n - 1], path[h + 1 - n])]
    BY <1>3, <2>4 DEF f, m
  <2> QED BY <1>4, <2>5
<1> HIDE DEF f
<1>8. 0 \in T
  <2>1. m.pages = s.pages /\ m.next = s.next /\ m.root = s.root /\ m.merges = s.merges
    BY <1>5 DEF SameTree
  <2>2. Len(path) = h + 1
    BY <1>4
  <2>3. m.next \in PageIds \/ Takes(m.pages[leaf], k)
    <3>1. s.next + 1 + Len(path) <= MaxPages => s.next \in PageIds
      BY <1>1, <1>3 DEF PageIds
    <3> QED BY <2>1, <3>1
  <2>4. /\ leaf < m.next /\ m.pages[leaf].node_type = "Leaf"
    BY <1>2, <1>3, <2>1
  <2> DEFINE r0 == f[0]
  <2>5. r0 = PutInLeaf(m, leaf, k, v)
    BY <1>7
  <2> HIDE DEF T, Good, r0
  <2>10. Inserts(r0, m, b, L, L, leaf)
    BY <1>3, <1>5, <2>3, <2>4, <2>5, PutInLeafHolds
  <2>6. /\ r0.st.next \in {m.next, m.next + 1}
        /\ Takes(m.pages[leaf], k) => r0.split = NoSplit
    <3>1. Grown(r0, m)
      BY <1>3, <1>5, <2>3, <2>4, <2>5, <2>10, PutInLeafHolds
    <3>2. Unsplit(r0, m.pages[leaf], k)
      BY <1>3, <1>5, <2>3, <2>4, <2>5, <2>10, PutInLeafHolds
    <3> QED BY <3>1, <3>2 DEF Grown, Unsplit
  <2>7. Inserts(f[0], s, b, L, L, path[h + 1 - 0])
    BY <1>4, <2>1, <2>10 DEF Inserts, r0
  <2>8. s.next <= r0.st.next /\ r0.st.next <= s.next + 0 + 1
    BY <1>1, <2>1, <2>6
  <2>9. r0.split = NoSplit \/ s.next + h + 2 <= MaxPages
    <3>1. s.next + 1 + Len(path) = s.next + h + 2
      BY <1>1, <1>4, <2>2
    <3> QED BY <2>1, <2>6, <3>1
  <2> QED BY <1>4, <2>7, <2>8, <2>9 DEF T, Good, r0
<1>9. ASSUME NEW n \in 1 .. h, n - 1 \in T PROVE n \in T
  <2> DEFINE below == path[h + 1 - (n - 1)]
             p == path[h + 1 - n]
             g == f[n - 1]
  <2>1. /\ below \in PageIds /\ p \in PageIds /\ below < s.next /\ p < s.next
        /\ L[below] = L[p] - 1
    <3> DEFINE i == h + 1 - n
    <3>1. i \in 1 .. Len(path) /\ i + 1 \in 1 .. Len(path) /\ below = path[i + 1] /\ p = path[i]
      BY <1>4
    <3>2. L[path[i]] = L[root] + 1 - i /\ L[path[i + 1]] = L[root] + 1 - (i + 1)
          /\ path[i] < s.next /\ path[i + 1] < s.next /\ L[root] \in Nat
      BY <1>2, <3>1 DEF Descends, TreeOf, Tree
    <3>3. i \in Int
      BY <3>1
    <3> HIDE DEF i, p, below
    <3>4. L[below] = L[p] - 1
      BY <3>1, <3>2, <3>3
    <3> QED BY <1>3, <3>1, <3>2, <3>4
  <2>2. PICK M : Inserts(g, s, b, L, M, below)
    BY <1>9
  <2>3. /\ s.next <= g.st.next /\ g.st.next <= s.next + (n - 1) + 1
        /\ g.split = NoSplit \/ s.next + h + 2 <= MaxPages
    BY <1>9
  <2>4. f[n] = AddChild(g, p)
    BY <1>7
  <2> HIDE DEF g, p, below
  <2>5. g.st.next \in Nat
    BY <2>2, PageFacts DEF Inserts, TreeOf, Tree
  <2>6. g.split = NoSplit \/ g.st.next \in PageIds
    <3> SUFFICES ASSUME s.next + h + 2 <= MaxPages PROVE g.st.next \in PageIds
      BY <2>3
    <3> DEFINE x == g.st.next
               y == s.next
    <3>1. x \in Nat /\ y \in Nat /\ h \in Nat /\ n \in Nat /\ n <= h /\ MaxPages \in Nat
          /\ x <= y + (n - 1) + 1 /\ y + h + 2 <= MaxPages
      BY <1>1, <1>4, <2>3, <2>5
    <3> HIDE DEF x, y
    <3>2. x <= MaxPages - 1
      BY <3>1
    <3> QED BY <3>1, <3>2 DEF PageIds, x
  <2>7. /\ \E M2 : Inserts(f[n], s, b, L, M2, p)
        /\ f[n].st.next = g.st.next \/ f[n].st.next = g.st.next + 1
        /\ g.split = NoSplit => f[n].split = NoSplit /\ f[n].st.next = g.st.next
    <3> DEFINE u == f[n]
    <3> HIDE DEF T, Good, u
    <3>0. u = AddChild(g, p)
      BY <2>4 DEF u
    <3>1. \E M2 : Inserts(u, s, b, L, M2, p)
      BY <2>1, <2>2, <2>3, <3>0, <2>6, InsertsAbove
    <3>2. Higher(u, g)
      BY <2>1, <2>2, <2>3, <3>0, <2>6, InsertsAbove
    <3> QED BY <3>1, <3>2 DEF u, Higher
  <2>8. s.next <= f[n].st.next /\ f[n].st.next <= s.next + n + 1
    BY <1>1, <2>3, <2>5, <2>7
  <2>9. f[n].split = NoSplit \/ s.next + h + 2 <= MaxPages
    BY <2>3, <2>7
  <2> QED BY <1>4, <2>7, <2>8, <2>9 DEF p
<1>10. h \in T
  <2>1. h \in 0 .. h
    BY <1>4
  <2> HIDE DEF T
  <2> QED BY <1>4, <1>8, <1>9, <2>1, UpTo
<1>11. /\ \E M : Inserts(r, s, b, L, M, root)
       /\ s.next <= r.st.next /\ r.st.next <= s.next + h + 1
       /\ r.split = NoSplit \/ s.next + h + 2 <= MaxPages
  BY <1>3, <1>4, <1>6, <1>10
<1>12. r.st.next \in Nat
  BY <1>11, PageFacts DEF Inserts, TreeOf, Tree
<1>13. ASSUME s.next + h + 2 <= MaxPages PROVE r.st.next \in PageIds
  <2> DEFINE x == r.st.next
             y == s.next
  <2>1. x \in Nat /\ y \in Nat /\ h \in Nat /\ MaxPages \in Nat
        /\ x <= y + h + 1 /\ y + h + 2 <= MaxPages
    BY <1>1, <1>4, <1>11, <1>12, <1>13
  <2> HIDE DEF x, y
  <2>2. x <= MaxPages - 1
    BY <2>1
  <2> QED BY <2>1, <2>2 DEF PageIds, x
<1> QED BY <1>11, <1>13
\* A root over rt and q.
RootNode(node, rt, q) ==
  /\ node \in Nodes /\ node.node_type = "Internal" /\ node.parent = None
  /\ Len(node.keys) = 1 /\ Len(node.children) = 2
  /\ node.children[1] = rt /\ node.children[2] = q

Raised(L, new, rt) == [L EXCEPT ![new] = L[rt] + 1]

LEMMA RaisedTree ==
  ASSUME NEW pg, NEW nx, NEW rt, NEW L, Tree(pg, nx, rt, L), nx \in PageIds,
         rt \in PageIds, NEW q \in PageIds, q < nx, q # rt, L[q] = L[rt],
         Len(pg[rt].keys) >= min_keys, Len(pg[q].keys) >= min_keys, Orphan(pg, q),
         NEW node, RootNode(node, rt, q),
         NEW pgc, Wrote(pgc, pg, nx, Zeroed), NEW pgm, Reparented(pgm, pgc, Kids(node), nx),
         NEW pg2, Wrote(pg2, pgm, nx, node)
  PROVE  /\ Tree(pg2, nx + 1, nx, Raised(L, nx, rt))
         /\ Strict(pg, rt, {}) => Strict(pg2, nx, {})
<1> DEFINE M == Raised(L, nx, rt)
<1>1. /\ pg \in [PageIds -> Nodes] /\ L \in [PageIds -> Nat] /\ nx \in Nat /\ nx + 1 \in 0 .. MaxPages
      /\ RootOK(pg, nx, rt) /\ rt < nx /\ rt # None
      /\ 0 \in PageIds => pg[0].node_type = "Leaf"
      /\ \A p \in PageIds : NodeOK(pg, nx, rt, L, p)
      /\ PageIds \subseteq Nat /\ None \notin PageIds
      /\ 1 <= max_keys /\ min_keys \in Nat
  <2>1. /\ Tree(pg, nx, rt, L) /\ rt # None /\ rt \in PageIds
    BY PageFacts
  <2>2. nx + 1 \in 0 .. MaxPages
    BY PageFacts
  <2>3. 1 <= max_keys /\ min_keys \in Nat
    BY PageFacts
  <2> QED BY <2>1, <2>2, <2>3, PageFacts DEF Tree, RootOK
<1>2. /\ node \in Nodes /\ node.node_type = "Internal" /\ node.parent = None
      /\ Len(node.keys) = 1 /\ Len(node.children) = 2
      /\ node.children[1] = rt /\ node.children[2] = q
      /\ \A i \in 1 .. Len(node.children) : i = 1 \/ i = 2
      /\ Kids(node) = {rt, q}
  BY DEF RootNode, Kids
<1>3. /\ M \in [PageIds -> Nat]
      /\ M[nx] = L[rt] + 1
      /\ \A p \in PageIds : p # nx => M[p] = L[p]
  <2>1. L[rt] + 1 \in Nat
    BY <1>1
  <2> QED BY <1>1, <2>1 DEF Raised
<1> HIDE DEF M
<1>4. /\ pg2 \in [PageIds -> Nodes]
      /\ pg2[nx] = node
      /\ \A p \in PageIds : p # nx => /\ Akin(pg2[p], pg[p])
                                      /\ pg2[p].parent = IF p \in {rt, q} THEN nx ELSE pg[p].parent
  <2>1. Zeroed \in Nodes
    BY ZeroedLeaf DEF LeafNode
  <2>2. pgc \in [PageIds -> Nodes] /\ \A p \in PageIds : p # nx => pgc[p] = pg[p]
    BY <1>1, <2>1 DEF Wrote
  <2>3. nx \in PageOrNone
    BY DEF PageOrNone
  <2>4. /\ pgm \in [PageIds -> Nodes]
        /\ \A p \in PageIds : /\ Akin(pgm[p], pgc[p])
                              /\ pgm[p].parent = IF p \in {rt, q} THEN nx ELSE pgc[p].parent
    <3>1. \A p \in PageIds : /\ [pgc[p] EXCEPT !.parent = nx] \in Nodes
                             /\ Akin([pgc[p] EXCEPT !.parent = nx], pgc[p])
                             /\ [pgc[p] EXCEPT !.parent = nx].parent = nx
                             /\ Akin(pgc[p], pgc[p])
      BY <2>2, <2>3 DEF Nodes, Akin
    <3> QED BY <1>2, <2>2, <3>1 DEF Reparented
  <2> QED BY <1>2, <2>2, <2>4 DEF Wrote
<1>5. \A p \in PageIds : \A i \in 1 .. Len(pg[p].children) :
        /\ pg[p].node_type # "Leaf"
        /\ pg[p].children[i] \in PageIds /\ pg[p].children[i] < nx
        /\ pg[p].children[i] # rt /\ pg[p].children[i] # nx /\ pg[p].children[i] # q
        /\ L[pg[p].children[i]] = L[p] - 1
  <2> SUFFICES ASSUME NEW p \in PageIds, NEW i \in 1 .. Len(pg[p].children)
               PROVE  /\ pg[p].node_type # "Leaf"
                      /\ pg[p].children[i] \in PageIds /\ pg[p].children[i] < nx
                      /\ pg[p].children[i] # rt /\ pg[p].children[i] # nx /\ pg[p].children[i] # q
                      /\ L[pg[p].children[i]] = L[p] - 1
    OBVIOUS
  <2>1. pg[p].children[i] \in PageIds
    BY <1>1, NodeFacts
  <2>2. pg[p].children[i] # q
    BY DEF Orphan
  <2>3. NodeOK(pg, nx, rt, L, p)
    BY <1>1
  <2>4. pg[p].node_type # "Leaf"
    BY <2>3 DEF NodeOK
  <2>5. pg[p].children[i] < nx /\ pg[p].children[i] # rt /\ L[pg[p].children[i]] = L[p] - 1
    BY <2>3, <2>4 DEF NodeOK
  <2>6. pg[p].children[i] # nx
    BY <1>1, <2>1, <2>5
  <2> QED BY <2>1, <2>2, <2>4, <2>5, <2>6
<1>6. Tree(pg2, nx + 1, nx, M)
  <2>1. RootOK(pg2, nx + 1, nx)
    BY <1>1, <1>2, <1>4 DEF RootOK
  <2>2. 0 \in PageIds => pg2[0].node_type = "Leaf"
    <3>1. nx # 0
      BY <1>1
    <3> QED BY <1>1, <1>4, <3>1 DEF Akin
  <2>3. NodeOK(pg2, nx + 1, nx, M, nx)
    <3>1. L[rt] < nx /\ L[rt] \in Nat
      <4>1. NodeOK(pg, nx, rt, L, rt) /\ rt \in Nat /\ 0 < nx
        BY <1>1
      <4> QED BY <1>1, <4>1 DEF NodeOK
    <3>2. nx < nx + 1 /\ 0 < M[nx] /\ M[nx] < nx + 1
      BY <1>1, <1>3, <3>1
    <3>3. /\ rt < nx + 1 /\ rt # nx /\ q < nx + 1 /\ q # nx
          /\ M[rt] = L[rt] /\ M[q] = L[rt] /\ M[nx] - 1 = L[rt]
      BY <1>1, <1>3, <3>1
    <3>4. \A i \in 1 .. Len(node.children) :
            LET c == node.children[i] IN c < nx + 1 /\ c # nx /\ M[c] = M[nx] - 1
      BY <1>2, <3>3
    <3>5. /\ Len(node.keys) <= max_keys /\ Len(node.children) = Len(node.keys) + 1
          /\ Len(node.keys) >= IF nx = nx THEN 1 ELSE min_keys
          /\ node.node_type # "Leaf" /\ nx # None
      BY <1>1, <1>2
    <3> QED BY <1>2, <1>4, <3>2, <3>4, <3>5 DEF NodeOK
  <2>4. ASSUME NEW p \in PageIds, p # nx PROVE NodeOK(pg2, nx + 1, nx, M, p)
    <3>1. NodeOK(pg, nx, rt, L, p) /\ Akin(pg2[p], pg[p]) /\ M[p] = L[p]
      BY <1>1, <1>3, <1>4, <2>4
    <3>2. CASE pg[p].node_type = "Leaf"
      BY <3>1, <3>2 DEF NodeOK, Akin
    <3>3. CASE pg[p].node_type # "Leaf"
      <4>1. Len(pg[p].keys) >= min_keys
        BY <3>1, <3>3 DEF NodeOK
      <4>2. p < nx + 1 /\ 0 < L[p] /\ L[p] < nx + 1
        <5>1. p < nx /\ 0 < L[p] /\ L[p] < nx /\ p \in Nat /\ L[p] \in Nat
          BY <1>1, <3>1, <3>3 DEF NodeOK
        <5> QED BY <1>1, <5>1
      <4>3. \A i \in 1 .. Len(pg[p].children) :
              LET c == pg[p].children[i] IN c < nx + 1 /\ c # nx /\ M[c] = L[p] - 1
        <5>1. \A c \in PageIds : c < nx => c < nx + 1
          BY <1>1
        <5> QED BY <1>3, <1>5, <5>1
      <4>4. Len(pg[p].keys) <= max_keys /\ Len(pg[p].children) = Len(pg[p].keys) + 1
        BY <3>1, <3>3 DEF NodeOK
      <4>5. nx # None /\ pg2[nx].node_type = "Internal"
        BY <1>1, <1>2, <1>4
      <4> QED BY <2>4, <3>1, <3>3, <4>1, <4>2, <4>3, <4>4, <4>5 DEF NodeOK, Akin
    <3> QED BY <3>2, <3>3
  <2> QED BY <1>1, <1>3, <1>4, <2>1, <2>2, <2>3, <2>4 DEF Tree, PageOrNone
<1>7. ASSUME Strict(pg, rt, {}) PROVE Strict(pg2, nx, {})
  <2>1. StrictAt(pg2, nx, {})
    <3>1. pg2[rt].parent = nx /\ pg2[q].parent = nx /\ rt # nx /\ q # nx
      BY <1>1, <1>4
    <3>2. Len(pg2[rt].keys) >= min_keys /\ Len(pg2[q].keys) >= min_keys
      BY <1>4, <3>1 DEF Akin
    <3> QED BY <1>2, <1>4, <3>1, <3>2 DEF StrictAt
  <2>2. ASSUME NEW p \in PageIds, p # nx PROVE StrictAt(pg2, p, {})
    <3>1. StrictAt(pg, p, {}) /\ Akin(pg2[p], pg[p])
      BY <1>4, <1>7, <2>2 DEF Strict
    <3>2. \A i \in 1 .. Len(pg[p].children) :
            LET c == pg[p].children[i] IN pg2[c].parent = pg[c].parent /\ pg2[c].keys = pg[c].keys
      BY <1>4, <1>5 DEF Akin
    <3> QED BY <3>1, <3>2 DEF StrictAt, Akin
  <2>3. pg2[nx].parent = None
    BY <1>2, <1>4
  <2> QED BY <2>1, <2>2, <2>3 DEF Strict
<1> QED BY <1>6, <1>7 DEF M

\* The first leaf.
LEMMA FirstTree ==
  ASSUME NEW pg, NEW nx, NEW L, Tree(pg, nx, None, L), nx \in PageIds,
         NEW node, LeafNode(node), Len(node.keys) <= max_keys, node.parent = None,
         NEW pgc, Wrote(pgc, pg, nx, Zeroed), NEW pg2, Wrote(pg2, pgc, nx, node)
  PROVE  /\ Tree(pg2, nx + 1, nx, L)
         /\ Strict(pg2, nx, {})
<1>1. /\ pg \in [PageIds -> Nodes] /\ L \in [PageIds -> Nat] /\ nx \in Nat /\ nx + 1 \in 0 .. MaxPages
      /\ \A p \in PageIds : NodeOK(pg, nx, None, L, p)
      /\ PageIds \subseteq Nat /\ None \notin PageIds /\ nx < nx + 1
  <2>1. nx \in Nat /\ nx + 1 \in 0 .. MaxPages /\ nx < nx + 1
    BY PageFacts
  <2> QED BY <2>1, PageFacts DEF Tree
<1>2. \A p \in PageIds : pg[p].node_type = "Leaf"
  BY <1>1 DEF NodeOK
<1>3. /\ pg2 \in [PageIds -> Nodes] /\ pg2[nx] = node
      /\ \A p \in PageIds : p # nx => pg2[p] = pg[p]
  <2>1. Zeroed \in Nodes /\ node \in Nodes
    BY ZeroedLeaf DEF LeafNode
  <2> QED BY <1>1, <2>1 DEF Wrote
<1>4. \A p \in PageIds : pg2[p].node_type = "Leaf" /\ NodeOK(pg2, nx + 1, nx, L, p)
  <2>1. NodeOK(pg, nx, None, L, nx) /\ pg[nx].node_type = "Leaf"
    BY <1>1, <1>2
  <2>2. pg2[nx].node_type = "Leaf" /\ NodeOK(pg2, nx + 1, nx, L, nx)
    BY <1>3, <2>1 DEF NodeOK, LeafNode
  <2>3. ASSUME NEW p \in PageIds, p # nx
        PROVE  pg2[p].node_type = "Leaf" /\ NodeOK(pg2, nx + 1, nx, L, p)
    BY <1>1, <1>2, <1>3, <2>3 DEF NodeOK
  <2> QED BY <2>2, <2>3
<1>5. RootOK(pg2, nx + 1, nx)
  BY <1>1, <1>3 DEF RootOK
<1>6. Strict(pg2, nx, {})
  BY <1>3, <1>4 DEF Strict, StrictAt
<1> QED BY <1>1, <1>3, <1>4, <1>5, <1>6 DEF Tree, PageOrNone
Rooted(pg2, pg, nx, node) ==
  \E pgc, pgm : /\ Wrote(pgc, pg, nx, Zeroed)
                /\ Reparented(pgm, pgc, Kids(node), nx)
                /\ Wrote(pg2, pgm, nx, node)

LEMMA NewRootHolds ==
  ASSUME NEW s, NEW b, NEW L, Holds(s, b, None, None, None), TreeOf(s, L), s.next \in PageIds,
         NEW node \in Nodes, Whole(node),
         NEW M, \A pg2 : Rooted(pg2, s.pages, s.next, node) => Tree(pg2, s.next + 1, s.next, M),
         NEW t, t = NewRoot(s, node)
  PROVE  /\ Holds(t, b, None, None, None)
         /\ TreeOf(t, M)
         /\ Rooted(t.pages, s.pages, s.next, node)
         /\ t.root = s.next /\ t.merges = s.merges
<1> DEFINE new == s.next
           c == create_page(s)
           u == update_parents(c, node.children, new)
           d == Done(u, new, node)
           e == [d EXCEPT !.root = new]
<1>1. new \in PageIds /\ node.children \in Seq(PageIds) /\ deserialize(node) = node /\ new \in PageOrNone
  BY ReadsBack DEF Nodes, PageOrNone
<1>2. t = save_metadata(e)
  BY DEF NewRoot
<1>3. Holds(c, b, None, None, new) /\ Created(c, s)
  <2> HIDE DEF c
  <2>0. c = create_page(s)
    BY DEF c
  <2>1. Holds(c, b, None, None, new)
    BY <2>0, CreateHolds
  <2>2. Created(c, s)
    BY <2>0, <2>1, CreateHolds
  <2> QED BY <2>1, <2>2
<1> HIDE DEF c
<1>4. TreeOf(c, L) /\ c.pages[new].node_type = "Leaf"
  BY <1>3, CreatedTree
<1>5. /\ Wrote(c.pages, s.pages, new, Zeroed) /\ c.next = new + 1 /\ c.root = s.root
      /\ c.merges = s.merges /\ new < c.next
  <2>1. new < new + 1
    BY <1>1, PageFacts
  <2> QED BY <1>3, <2>1 DEF Created, Wrote
<1>6. /\ Holds(u, b, None, new, None)
      /\ Reparented(u.pages, c.pages, Kids(node), new)
      /\ SameRoot(u, c)
  <2>1. Holds(c, b, None, new, None)
    BY <1>3, HoldsAny
  <2>2. new < c.next /\ c.pages[new].node_type = "Leaf"
    BY <1>4, <1>5
  <2> DEFINE cs == node.children
  <2>3. cs \in Seq(PageIds)
    BY <1>1
  <2>4. u = update_parents(c, cs, new)
    OBVIOUS
  <2> HIDE DEF u, cs, new
  <2>5. Holds(u, b, None, new, None)
    BY <1>1, <1>4, <2>1, <2>2, <2>3, <2>4, UpdateParentsHolds
  <2>6. Reparented(u.pages, c.pages, {cs[i] : i \in 1 .. Len(cs)}, new)
    BY <1>1, <1>4, <2>1, <2>2, <2>3, <2>4, UpdateParentsHolds
  <2>7. SameRoot(u, c)
    BY <1>1, <1>4, <2>1, <2>2, <2>3, <2>4, <2>5, UpdateParentsHolds
  <2> QED BY <2>5, <2>6, <2>7 DEF Kids, cs
<1> HIDE DEF u
<1>7. /\ Holds(d, b, None, None, None)
      /\ Wrote(d.pages, u.pages, new, node)
      /\ SameRoot(d, u)
  <2>1. Holds(u, b, None, None, new)
    BY <1>6, HoldsAny
  <2>2. d = Done(u, new, node)
    OBVIOUS
  <2> HIDE DEF d, new
  <2>3. Holds(d, b, None, None, None)
    BY <1>1, <2>1, <2>2, DoneHolds
  <2>4. Wrote(d.pages, u.pages, new, node)
    BY <1>1, <2>1, <2>2, DoneHolds
  <2>5. SameRoot(d, u)
    BY <1>1, <2>1, <2>2, <2>3, <2>4, DoneHolds
  <2> QED BY <2>3, <2>4, <2>5
<1> HIDE DEF d
<1>8. /\ e.pages = d.pages /\ e.next = d.next /\ e.root = new /\ e.merges = d.merges
      /\ e \in States /\ e.pins = d.pins /\ e.held = d.held /\ e.four = d.four
      /\ e.stray = d.stray /\ e.cuts = d.cuts
  <2>1. d \in States
    BY <1>7 DEF Holds
  <2> HIDE DEF new
  <2> QED BY <1>1, <2>1 DEF States
<1> HIDE DEF e
<1>9. Holds(e, b, None, None, None)
  BY <1>7, <1>8 DEF Holds
<1>10. Rooted(e.pages, s.pages, s.next, node)
  BY <1>5, <1>6, <1>7, <1>8 DEF Rooted
<1>11. TreeOf(e, M) /\ e.merges = s.merges
  <2>1. Tree(e.pages, s.next + 1, s.next, M)
    BY <1>10
  <2>2. e.next = s.next + 1 /\ e.root = s.next /\ e.merges = s.merges
    BY <1>5, <1>6, <1>7, <1>8 DEF SameRoot
  <2> QED BY <2>1, <2>2 DEF TreeOf
<1>12. Holds(t, b, None, None, None) /\ SameTree(t, e)
  BY <1>2, <1>9, <1>11, SaveHolds
<1> QED BY <1>8, <1>10, <1>11, <1>12, SameTreeOf DEF SameTree

\* What a call makes of a tree.
Kept(t, s, b) ==
  /\ Holds(t, b, None, None, None)
  /\ \E M : TreeOf(t, M)
  /\ t.merges \in Nat /\ t.merges >= s.merges
  /\ t.merges = 0 /\ Strict(s.pages, s.root, {}) => Strict(t.pages, t.root, {})

LEMMA RootOverKept ==
  ASSUME NEW s, NEW b, NEW L, NEW M, Holds(s, b, None, None, None), TreeOf(s, L),
         NEW root \in PageIds, root = s.root, root < s.next,
         NEW r, Inserts(r, s, b, L, M, root), r.split = NoSplit \/ r.st.next \in PageIds,
         NEW t, t = RootOver(root, r)
  PROVE  Kept(t, s, b)
<1>1. s.merges \in Nat
  BY DEF Holds, States
<1>2. CASE r.split = NoSplit
  BY <1>1, <1>2 DEF RootOver, Inserts, Kept
<1>3. CASE r.split # NoSplit
  <2> DEFINE u == r.st
  <2>1. /\ Holds(u, b, None, None, None) /\ TreeOf(u, M)
        /\ u.root = root /\ u.merges = s.merges
        /\ Strict(s.pages, s.root, {}) => Strict(u.pages, u.root, {})
        /\ SplitOf(r, M, root) /\ u.next \in PageIds
    BY <1>3 DEF Inserts
  <2>2. PICK key \in Nat, q \in PageIds :
          /\ r.split = <<key, q>>
          /\ q < u.next /\ q # u.root /\ M[q] = M[root]
          /\ Len(u.pages[root].keys) >= min_keys
          /\ Len(u.pages[q].keys) >= min_keys
          /\ Orphan(u.pages, q)
    BY <2>1 DEF SplitOf
  <2> DEFINE node == [new_internal EXCEPT !.keys = <<key>>, !.children = <<root, q>>]
  <2>3. t = NewRoot(u, node)
    BY <1>3, <2>2 DEF RootOver
  <2>4. RootNode(node, root, q)
    <3>1. new_leaf \in Nodes /\ DOMAIN new_leaf = {"node_type", "keys", "values", "children", "next_leaf", "parent"}
      BY ZeroedLeaf DEF LeafNode, new_leaf
    <3> DEFINE ks == <<key>>
               cs == <<root, q>>
    <3>2. ks \in Seq(Nat) /\ Len(ks) = 1 /\ cs \in Seq(PageIds) /\ Len(cs) = 2 /\ cs[1] = root /\ cs[2] = q
      OBVIOUS
    <3>3. node = [new_internal EXCEPT !.keys = ks, !.children = cs]
      OBVIOUS
    <3>4. new_leaf.parent = None
      BY DEF new_leaf
    <3> HIDE DEF ks, cs, node
    <3>5. node \in Nodes /\ node.node_type = "Internal" /\ node.parent = None
          /\ node.keys = ks /\ node.children = cs
      BY <3>1, <3>2, <3>3, <3>4 DEF new_internal, Nodes
    <3> QED BY <3>2, <3>5 DEF RootNode
  <2> HIDE DEF u, node
  <2> DEFINE nx == u.next
             pg == u.pages
             N == Raised(M, nx, root)
  <2>5. ASSUME NEW pg2, Rooted(pg2, pg, nx, node)
        PROVE  Tree(pg2, nx + 1, nx, N) /\ (Strict(pg, root, {}) => Strict(pg2, nx, {}))
    <3>1. PICK pgc, pgm : /\ Wrote(pgc, pg, nx, Zeroed)
                          /\ Reparented(pgm, pgc, Kids(node), nx)
                          /\ Wrote(pg2, pgm, nx, node)
      BY <2>5 DEF Rooted
    <3>2. Tree(pg, nx, root, M) /\ nx \in PageIds
      BY <2>1 DEF TreeOf
    <3>3. /\ q < nx /\ q # root /\ M[q] = M[root]
          /\ Len(pg[root].keys) >= min_keys
          /\ Len(pg[q].keys) >= min_keys
          /\ Orphan(pg, q)
      BY <2>1, <2>2
    <3> HIDE DEF pg, nx, N
    <3>4. Tree(pg2, nx + 1, nx, N)
      BY <2>4, <3>1, <3>2, <3>3, RaisedTree DEF N
    <3>5. Strict(pg, root, {}) => Strict(pg2, nx, {})
      BY <2>4, <3>1, <3>2, <3>3, RaisedTree
    <3> QED BY <3>4, <3>5
  <2>6. node \in Nodes /\ Whole(node)
    BY <2>4 DEF RootNode, Whole
  <2>7. \A pg2 : Rooted(pg2, u.pages, u.next, node) => Tree(pg2, u.next + 1, u.next, N)
    BY <2>5
  <2> HIDE DEF N
  <2>8. Holds(t, b, None, None, None)
    BY <2>1, <2>3, <2>6, <2>7, NewRootHolds
  <2>9. TreeOf(t, N)
    BY <2>1, <2>3, <2>6, <2>7, NewRootHolds
  <2>10. Rooted(t.pages, u.pages, u.next, node)
    BY <2>1, <2>3, <2>6, <2>7, NewRootHolds
  <2>11. t.root = u.next /\ t.merges = u.merges
    BY <2>1, <2>3, <2>6, <2>7, <2>8, <2>9, <2>10, NewRootHolds
  <2>12. Strict(s.pages, s.root, {}) => Strict(t.pages, t.root, {})
    BY <2>1, <2>5, <2>10, <2>11
  <2> QED BY <1>1, <2>1, <2>8, <2>9, <2>11, <2>12 DEF Kept
<1> QED BY <1>2, <1>3
RoomFor(s, k) ==
  \/ s.next + 1 + (IF s.root = None THEN 0 ELSE Len(Path(s, s.root, k))) <= MaxPages
  \/ s.root # None /\ Takes(s.pages[find_leaf(s, s.root, k)], k)

LEMMA InsertKept ==
  ASSUME NEW s, NEW b, NEW L, Holds(s, b, None, None, None), TreeOf(s, L),
         NEW k \in Nat, NEW v \in Nat, RoomFor(s, k), NEW t, t = insert(s, k, v)
  PROVE  Kept(t, s, b)
<1>1. s.next \in Nat /\ s.merges \in Nat /\ s.root \in PageOrNone /\ MaxPages \in Nat
  BY PageFacts DEF TreeOf, Tree, Holds, States
<1>2. CASE s.root = None
  <2> DEFINE node == [new_leaf EXCEPT !.keys = <<k>>, !.values = <<v>>]
  <2>1. t = NewRoot(s, node)
    BY <1>2 DEF insert
  <2>2. s.next \in PageIds
    BY <1>1, <1>2 DEF RoomFor, PageIds
  <2>3. LeafNode(node) /\ Len(node.keys) = 1 /\ node.parent = None
    <3> DEFINE ks == <<k>>
               vs == <<v>>
    <3>1. ks \in Seq(Nat) /\ Len(ks) = 1 /\ vs \in Seq(Nat) /\ Len(vs) = 1
      OBVIOUS
    <3>2. LeafNode(new_leaf) /\ new_leaf.parent = None
      BY <2>2, ZeroedLeaf DEF new_leaf
    <3>3. node = [new_leaf EXCEPT !.keys = ks, !.values = vs]
      OBVIOUS
    <3> HIDE DEF node, ks, vs
    <3>4. new_leaf \in Nodes
      BY <3>2 DEF LeafNode
    <3>5. /\ node \in Nodes /\ node.keys = ks /\ node.values = vs /\ node.parent = new_leaf.parent
          /\ node.node_type = new_leaf.node_type /\ node.children = new_leaf.children
      BY <3>1, <3>3, <3>4 DEF Nodes
    <3> QED BY <3>1, <3>2, <3>5 DEF LeafNode
  <2> HIDE DEF node
  <2>4. node \in Nodes /\ Whole(node) /\ Len(node.keys) <= max_keys /\ Kids(node) = {}
    <3>1. node \in Nodes /\ Whole(node) /\ Len(node.children) = 0
      BY <2>3 DEF LeafNode, Whole
    <3> QED BY <2>3, <3>1, PageFacts DEF Kids
  <2> DEFINE nx == s.next
             pg == s.pages
  <2>5. ASSUME NEW pg2, Rooted(pg2, pg, nx, node)
        PROVE  Tree(pg2, nx + 1, nx, L) /\ Strict(pg2, nx, {})
    <3>1. PICK pgc, pgm : /\ Wrote(pgc, pg, nx, Zeroed)
                          /\ Reparented(pgm, pgc, Kids(node), nx)
                          /\ Wrote(pg2, pgm, nx, node)
      BY <2>5 DEF Rooted
    <3>2. Tree(pg, nx, None, L)
      BY <1>2 DEF TreeOf
    <3>3. pgm = pgc
      <4>1. pgc \in [PageIds -> Nodes]
        BY <2>2, <3>1, <3>2, ZeroedLeaf DEF Wrote, LeafNode, Tree
      <4> QED BY <2>4, <3>1, <4>1 DEF Reparented
    <3> HIDE DEF pg, nx
    <3>4. nx \in PageIds
      BY <2>2 DEF nx
    <3>5. Wrote(pg2, pgc, nx, node)
      BY <3>1, <3>3
    <3>6. Tree(pg2, nx + 1, nx, L)
      BY <2>3, <2>4, <3>1, <3>2, <3>4, <3>5, FirstTree
    <3>7. Strict(pg2, nx, {})
      BY <2>3, <2>4, <3>1, <3>2, <3>4, <3>5, FirstTree
    <3> QED BY <3>6, <3>7
  <2>6. \A pg2 : Rooted(pg2, s.pages, s.next, node) => Tree(pg2, s.next + 1, s.next, L)
    BY <2>5
  <2>7. Holds(t, b, None, None, None)
    BY <2>1, <2>2, <2>4, <2>6, NewRootHolds
  <2>8. TreeOf(t, L)
    BY <2>1, <2>2, <2>4, <2>6, NewRootHolds
  <2>9. Rooted(t.pages, s.pages, s.next, node)
    BY <2>1, <2>2, <2>4, <2>6, NewRootHolds
  <2>10. t.root = s.next /\ t.merges = s.merges
    BY <2>1, <2>2, <2>4, <2>6, <2>7, <2>8, <2>9, NewRootHolds
  <2>11. Strict(t.pages, t.root, {})
    BY <2>5, <2>9, <2>10
  <2> QED BY <1>1, <2>7, <2>8, <2>10, <2>11 DEF Kept
<1>3. CASE s.root # None
  <2> DEFINE root == s.root
             path == Path(s, root, k)
             leaf == path[Len(path)]
             r == insert_recursive(s, root, k, v)
  <2>1. root \in PageIds /\ root < s.next
    BY <1>1, <1>3 DEF PageOrNone, TreeOf, Tree, RootOK
  <2>2. t = RootOver(root, r)
    BY <1>3 DEF insert
  <2>3. Last(path) = leaf
    <3> DEFINE q == Path(s, root, k)
    <3>1. q = Path(s, root, k)
      OBVIOUS
    <3> HIDE DEF q, root
    <3>2. Descends(q, s, L, root)
      BY <2>1, <3>1, PathDescends
    <3>3. q \in Seq(PageIds) /\ Len(q) > 0
      BY <3>2 DEF Descends
    <3> QED BY <3>1, <3>3, LastOf
  <2>4. s.next + 1 + Len(path) <= MaxPages \/ Takes(s.pages[leaf], k)
    BY <1>3, <2>3 DEF RoomFor, find_leaf
  <2> HIDE DEF root, path, r, leaf
  <2>5. /\ path = Path(s, root, k) /\ leaf = path[Len(path)] /\ root = s.root
        /\ r = insert_recursive(s, root, k, v)
    BY DEF root, path, r, leaf
  <2>6. \E M : Inserts(r, s, b, L, M, root)
    BY <2>1, <2>4, <2>5, InsertRecursiveHolds
  <2>7. r.split = NoSplit \/ r.st.next \in PageIds
    BY <2>1, <2>4, <2>5, InsertRecursiveHolds
  <2> QED BY <2>1, <2>2, <2>5, <2>6, <2>7, RootOverKept
<1> QED BY <1>2, <1>3
---------------------------------------------------------------------------
(* Removing.                                                               *)

\* Only leaves run short of keys, and their siblings are leaves.
LEMMA ShortLeaf ==
  ASSUME NEW pg, NEW nx, NEW rt, NEW L, Tree(pg, nx, rt, L),
         NEW p \in PageIds, pg[p].node_type # "Leaf",
         NEW c, c \in Kids(pg[p]), Len(pg[c].keys) < min_keys
  PROVE  \A q \in Kids(pg[p]) :
           q \in PageIds /\ q < nx /\ q # rt /\ q # p /\ pg[q].node_type = "Leaf"
<1>1. Wide(pg, nx, rt, L, p, pg[p]) /\ pg \in [PageIds -> Nodes] /\ L \in [PageIds -> Nat]
  BY InternalFacts DEF Tree
<1>2. \A q \in Kids(pg[p]) : q \in PageIds /\ q < nx /\ q # rt /\ L[q] = L[p] - 1
  <2>1. \A i \in 1 .. Len(pg[p].children) : pg[p].children[i] \in PageIds
    BY <1>1, NodeFacts
  <2> QED BY <1>1, <2>1 DEF Wide, Kids
<1>3. \A q \in PageIds : NodeOK(pg, nx, rt, L, q)
  BY DEF Tree
<1>4. pg[c].node_type = "Leaf"
  <2> SUFFICES ASSUME pg[c].node_type # "Leaf" PROVE FALSE
    OBVIOUS
  <2>1. c \in PageIds /\ c # rt /\ NodeOK(pg, nx, rt, L, c)
    BY <1>2, <1>3
  <2>2. Len(pg[c].keys) >= min_keys
    BY <2>1 DEF NodeOK
  <2>3. Len(pg[c].keys) \in Nat /\ min_keys \in Nat
    BY <1>1, <2>1, NodeFacts, PageFacts
  <2> QED BY <2>2, <2>3
<1>5. L[p] = 1
  <2>1. c \in PageIds /\ NodeOK(pg, nx, rt, L, c) /\ L[c] = L[p] - 1
    BY <1>2, <1>3
  <2>2. L[c] = 0 /\ L[p] \in Nat
    BY <1>1, <1>4, <2>1 DEF NodeOK
  <2> QED BY <2>1, <2>2
<1>6. ASSUME NEW q \in Kids(pg[p]) PROVE pg[q].node_type = "Leaf" /\ q # p
  <2>1. q \in PageIds /\ NodeOK(pg, nx, rt, L, q) /\ L[q] = 0
    BY <1>2, <1>3, <1>5
  <2> QED BY <1>5, <2>1 DEF NodeOK
<1> QED BY <1>2, <1>6

\* A node with other keys, as many.
Rekeyed(node, old) == /\ node \in Nodes
                      /\ node.node_type = old.node_type
                      /\ node.children = old.children
                      /\ node.parent = old.parent
                      /\ Len(node.keys) = Len(old.keys)

LEMMA RekeyedTree ==
  ASSUME NEW pg, NEW nx, NEW rt, NEW L, Tree(pg, nx, rt, L),
         NEW p \in PageIds, pg[p].node_type # "Leaf",
         NEW node, Rekeyed(node, pg[p]), NEW pg2, Wrote(pg2, pg, p, node)
  PROVE  /\ Tree(pg2, nx, rt, L)
         /\ \A S : Strict(pg, rt, S) => Strict(pg2, rt, S)
<1>1. /\ pg \in [PageIds -> Nodes] /\ L \in [PageIds -> Nat] /\ nx \in 0 .. MaxPages
      /\ rt \in PageOrNone /\ RootOK(pg, nx, rt)
      /\ 0 \in PageIds => pg[0].node_type = "Leaf"
      /\ \A q \in PageIds : NodeOK(pg, nx, rt, L, q)
  BY DEF Tree
<1>2. /\ pg2 \in [PageIds -> Nodes]
      /\ pg2[p] = node
      /\ \A q \in PageIds : q # p => pg2[q] = pg[q]
  BY <1>1 DEF Wrote, Rekeyed
<1>3. \A q \in PageIds : /\ pg2[q].node_type = pg[q].node_type
                         /\ pg2[q].children = pg[q].children
                         /\ pg2[q].parent = pg[q].parent
                         /\ Len(pg2[q].keys) = Len(pg[q].keys)
  BY <1>2 DEF Rekeyed
<1>4. ASSUME NEW q \in PageIds PROVE NodeOK(pg2, nx, rt, L, q)
  <2>1. NodeOK(pg, nx, rt, L, q)
    BY <1>1
  <2>2. CASE pg[q].node_type = "Leaf"
    <3>1. q # p
      BY <2>2
    <3>2. pg2[q] = pg[q]
      BY <1>2, <3>1
    <3> QED BY <2>1, <2>2, <3>2 DEF NodeOK
  <2>3. CASE pg[q].node_type # "Leaf"
    <3>1. rt \in PageIds
      BY <1>1, <2>1, <2>3 DEF NodeOK, PageOrNone
    <3> QED BY <1>3, <2>1, <2>3, <3>1 DEF NodeOK
  <2> QED BY <2>2, <2>3
<1>5. RootOK(pg2, nx, rt)
  <2> SUFFICES ASSUME rt # None
               PROVE  /\ rt < nx
                      /\ \/ pg2[rt].parent = None
                         \/ pg2[rt].parent < nx /\ pg2[pg2[rt].parent].node_type = "Leaf"
    BY DEF RootOK
  <2>1. rt \in PageIds /\ pg[rt].parent \in PageOrNone
    BY <1>1, NodeFacts DEF PageOrNone
  <2> QED BY <1>1, <1>3, <2>1 DEF RootOK, PageOrNone
<1>6. ASSUME NEW S, Strict(pg, rt, S) PROVE Strict(pg2, rt, S)
  <2>1. ASSUME NEW q \in PageIds PROVE StrictAt(pg2, q, S)
    <3>1. StrictAt(pg, q, S)
      BY <1>6 DEF Strict
    <3>2. \A i \in 1 .. Len(pg[q].children) : pg[q].children[i] \in PageIds
      BY <1>1, NodeFacts
    <3> DEFINE cs == pg[q].children
    <3>3. \A i \in 1 .. Len(cs) : /\ pg2[cs[i]].parent = pg[cs[i]].parent
                                  /\ Len(pg2[cs[i]].keys) = Len(pg[cs[i]].keys)
      BY <1>3, <3>2
    <3>4. pg2[q].children = cs /\ pg2[q].node_type = pg[q].node_type
      BY <1>3
    <3> QED BY <3>1, <3>3, <3>4 DEF StrictAt
  <2>2. rt # None => pg2[rt].parent = None
    BY <1>1, <1>3, <1>6 DEF Strict, PageOrNone
  <2> QED BY <2>1, <2>2 DEF Strict
<1>7. 0 \in PageIds => pg2[0].node_type = "Leaf"
  BY <1>1, <1>3
<1> QED BY <1>1, <1>2, <1>4, <1>5, <1>6, <1>7 DEF Tree

\* Three pages that are written and given back.
ThreeWritten(pg2, pg, p, parent, c, child, x, sibling) ==
  \E g, h : /\ Wrote(g, pg, p, parent)
            /\ Wrote(h, g, c, child)
            /\ Wrote(pg2, h, x, sibling)

LEMMA WriteThreeHolds ==
  ASSUME NEW s, NEW b, NEW p \in PageIds, NEW c \in PageIds, NEW x \in PageIds,
         Holds(s, b, p, c, x),
         NEW parent \in Nodes, Whole(parent), NEW child \in Nodes, Whole(child),
         NEW sibling \in Nodes, Whole(sibling),
         NEW t, t = WriteThree(s, p, parent, c, child, x, sibling)
  PROVE  /\ Holds(t, b, None, None, None)
         /\ ThreeWritten(t.pages, s.pages, p, parent, c, child, x, sibling)
         /\ SameRoot(t, s)
<1>1. /\ deserialize(parent) = parent /\ deserialize(child) = child
      /\ deserialize(sibling) = sibling
  BY ReadsBack
<1> DEFINE d == Done(s, p, parent)
           e == Done(d, c, child)
<1>2. t = Done(e, x, sibling)
  BY DEF WriteThree
<1>3. /\ Holds(d, b, c, x, None)
      /\ Wrote(d.pages, s.pages, p, parent)
      /\ SameRoot(d, s)
  <2>1. Holds(s, b, c, p, x)
    BY HoldsAny
  <2>2. Holds(s, b, c, x, p)
    BY <2>1, HoldsAny
  <2>3. d = Done(s, p, parent)
    OBVIOUS
  <2> HIDE DEF d
  <2>4. Holds(d, b, c, x, None)
    BY <1>1, <2>2, <2>3, DoneHolds
  <2>5. Wrote(d.pages, s.pages, p, parent)
    BY <1>1, <2>2, <2>3, DoneHolds
  <2>6. SameRoot(d, s)
    BY <1>1, <2>2, <2>3, <2>4, <2>5, DoneHolds
  <2> QED BY <2>4, <2>5, <2>6
<1> HIDE DEF d
<1>4. /\ Holds(e, b, x, None, None)
      /\ Wrote(e.pages, d.pages, c, child)
      /\ SameRoot(e, d)
  <2>1. Holds(d, b, x, c, None)
    BY <1>3, HoldsAny
  <2>2. Holds(d, b, x, None, c)
    BY <2>1, HoldsAny
  <2>3. e = Done(d, c, child)
    OBVIOUS
  <2> HIDE DEF e
  <2>4. Holds(e, b, x, None, None)
    BY <1>1, <2>2, <2>3, DoneHolds
  <2>5. Wrote(e.pages, d.pages, c, child)
    BY <1>1, <2>2, <2>3, DoneHolds
  <2>6. SameRoot(e, d)
    BY <1>1, <2>2, <2>3, <2>4, <2>5, DoneHolds
  <2> QED BY <2>4, <2>5, <2>6
<1> HIDE DEF e
<1>5. /\ Holds(t, b, None, None, None)
      /\ Wrote(t.pages, e.pages, x, sibling)
      /\ SameRoot(t, e)
  <2>1. Holds(e, b, None, x, None)
    BY <1>4, HoldsAny
  <2>2. Holds(e, b, None, None, x)
    BY <2>1, HoldsAny
  <2>4. Holds(t, b, None, None, None)
    BY <1>1, <1>2, <2>2, DoneHolds
  <2>5. Wrote(t.pages, e.pages, x, sibling)
    BY <1>1, <1>2, <2>2, DoneHolds
  <2>6. SameRoot(t, e)
    BY <1>1, <1>2, <2>2, <2>4, <2>5, DoneHolds
  <2> QED BY <2>4, <2>5, <2>6
<1> QED BY <1>3, <1>4, <1>5 DEF ThreeWritten, SameRoot
\* A leaf that is written over another one.
LeafOver(node, old) == /\ LeafNode(node)
                       /\ node.parent = old.parent
                       /\ Len(node.keys) <= max_keys

LEMMA LeafOverTree ==
  ASSUME NEW pg, NEW nx, NEW rt, NEW L, Tree(pg, nx, rt, L),
         NEW p \in PageIds, p < nx, pg[p].node_type = "Leaf",
         NEW node, LeafOver(node, pg[p]), NEW pg2, Wrote(pg2, pg, p, node)
  PROVE  /\ Tree(pg2, nx, rt, L)
         /\ \A S : /\ Strict(pg, rt, S)
                   /\ S \subseteq {p}
                   /\ Len(node.keys) >= min_keys
              => Strict(pg2, rt, {})
<1>1. Tree(pg2, nx, rt, L)
  BY LeafWritten DEF LeafOver
<1>2. ASSUME NEW S, Strict(pg, rt, S), S \subseteq {p}, Len(node.keys) >= min_keys
      PROVE  Strict(pg2, rt, {})
  <2> DEFINE E == {}
  <2>1. /\ pg \in [PageIds -> Nodes]
        /\ LeafNode(node) /\ node.parent = pg[p].parent
        /\ \A q \in S : q \in E \/ q = p
    BY <1>2 DEF Tree, LeafOver
  <2> HIDE DEF E
  <2>2. Strict(pg2, rt, E)
    BY <1>2, <2>1, LeafStrict
  <2> QED BY <2>2 DEF E
<1> QED BY <1>1, <1>2

\* A child c that has borrowed a key from its sibling x.
LEMMA BorrowedTree ==
  ASSUME NEW pg, NEW nx, NEW rt, NEW L, Tree(pg, nx, rt, L),
         NEW p \in PageIds, pg[p].node_type # "Leaf",
         NEW c \in PageIds, c < nx, c # p, pg[c].node_type = "Leaf",
         NEW x \in PageIds, x < nx, x # p, x # c, pg[x].node_type = "Leaf",
         NEW parent, Rekeyed(parent, pg[p]), NEW child, LeafOver(child, pg[c]),
         NEW sibling, LeafOver(sibling, pg[x]),
         NEW pg2, ThreeWritten(pg2, pg, p, parent, c, child, x, sibling)
  PROVE  /\ Tree(pg2, nx, rt, L)
         /\ Strict(pg, rt, {c}) /\ Len(child.keys) >= min_keys /\ Len(sibling.keys) >= min_keys
              => Strict(pg2, rt, {})
<1>1. PICK g, h : /\ Wrote(g, pg, p, parent)
                  /\ Wrote(h, g, c, child)
                  /\ Wrote(pg2, h, x, sibling)
  BY DEF ThreeWritten
<1> DEFINE C == {c}
<1>2. Tree(g, nx, rt, L) /\ (Strict(pg, rt, C) => Strict(g, rt, C))
  <2> HIDE DEF C
  <2>1. Tree(g, nx, rt, L)
    BY <1>1, RekeyedTree
  <2>2. Strict(pg, rt, C) => Strict(g, rt, C)
    BY <1>1, RekeyedTree
  <2> QED BY <2>1, <2>2
<1>3. pg \in [PageIds -> Nodes] /\ g \in [PageIds -> Nodes]
  BY <1>2 DEF Tree
<1>4. g[c] = pg[c] /\ g[x] = pg[x]
  BY <1>1, <1>3 DEF Wrote
<1>5. Tree(h, nx, rt, L) /\ (Strict(g, rt, C) /\ Len(child.keys) >= min_keys => Strict(h, rt, {}))
  <2>0. g[c].node_type = "Leaf" /\ LeafOver(child, g[c]) /\ C \subseteq {c}
    BY <1>4
  <2> HIDE DEF C
  <2>1. Tree(h, nx, rt, L)
    BY <1>1, <1>2, <2>0, LeafOverTree
  <2>2. Strict(g, rt, C) /\ Len(child.keys) >= min_keys => Strict(h, rt, {})
    BY <1>1, <1>2, <2>0, LeafOverTree
  <2> QED BY <2>1, <2>2
<1>6. h[x] = pg[x]
  BY <1>1, <1>3, <1>4 DEF Wrote
<1>7. Tree(pg2, nx, rt, L) /\ (Strict(h, rt, {}) /\ Len(sibling.keys) >= min_keys => Strict(pg2, rt, {}))
  <2> DEFINE E == {}
  <2>0. h[x].node_type = "Leaf" /\ LeafOver(sibling, h[x]) /\ E \subseteq {x}
    BY <1>6
  <2> HIDE DEF E
  <2>1. Tree(pg2, nx, rt, L)
    BY <1>1, <1>5, <2>0, LeafOverTree
  <2>2. Strict(h, rt, E) /\ Len(sibling.keys) >= min_keys => Strict(pg2, rt, {})
    BY <1>1, <1>5, <2>0, LeafOverTree
  <2> QED BY <2>1, <2>2 DEF E
<1>8. ASSUME Strict(pg, rt, C), Len(child.keys) >= min_keys, Len(sibling.keys) >= min_keys
      PROVE  Strict(pg2, rt, {})
  <2> HIDE DEF C
  <2>1. Strict(h, rt, {})
    BY <1>2, <1>5, <1>8
  <2> QED BY <1>7, <1>8, <2>1
<1> QED BY <1>7, <1>8

\* What repairing child c, with a key too few at most, makes of the state s.
Mended(t, s, b, L, c) ==
  /\ Holds(t, b, None, None, None)
  /\ TreeOf(t, L)
  /\ t.root = s.root /\ t.next = s.next
  /\ t.merges \in Nat /\ t.merges >= s.merges
  /\ t.merges = 0 /\ Strict(s.pages, s.root, {c}) /\ Len(s.pages[c].keys) >= min_keys - 1
       => Strict(t.pages, t.root, {})

\* A key moves from the leaf x to the leaf c.
LEMMA MovedHolds ==
  ASSUME NEW s, NEW b, NEW L, NEW p \in PageIds, NEW c \in PageIds, NEW x \in PageIds,
         Holds(s, b, p, c, x), TreeOf(s, L),
         s.pages[p].node_type # "Leaf",
         c \in Kids(s.pages[p]), x \in Kids(s.pages[p]),
         Len(s.pages[c].keys) < min_keys, Len(s.pages[x].keys) > min_keys,
         NEW parent, Rekeyed(parent, s.pages[p]),
         NEW child, LeafNode(child), child.parent = s.pages[c].parent,
         Len(child.keys) = Len(s.pages[c].keys) + 1,
         NEW sibling, LeafNode(sibling), sibling.parent = s.pages[x].parent,
         Len(sibling.keys) = Len(s.pages[x].keys) - 1,
         NEW t, t = WriteThree(s, p, parent, c, child, x, sibling)
  PROVE  Mended(t, s, b, L, c)
<1>1. Tree(s.pages, s.next, s.root, L) /\ s.pages \in [PageIds -> Nodes] /\ s.merges \in Nat
  BY DEF TreeOf, Tree, Holds, States
<1>2. \A q \in Kids(s.pages[p]) :
        q \in PageIds /\ q < s.next /\ q # s.root /\ q # p /\ s.pages[q].node_type = "Leaf"
  BY <1>1, ShortLeaf
<1> DEFINE n == Len(s.pages[c].keys)
           m == Len(s.pages[x].keys)
           n2 == Len(child.keys)
           m2 == Len(sibling.keys)
<1>3. /\ n \in Nat /\ m \in Nat /\ min_keys \in Nat /\ max_keys \in Nat /\ min_keys <= max_keys
      /\ n2 = n + 1 /\ m2 = m - 1 /\ m <= max_keys /\ n < min_keys /\ m > min_keys
  <2>1. Len(s.pages[x].keys) <= max_keys
    BY <1>1 DEF Tree, NodeOK
  <2>2. min_keys <= max_keys
    BY PageFacts DEF min_keys, max_keys
  <2> QED BY <1>1, <2>1, <2>2, NodeFacts, PageFacts
<1>4. /\ x # c /\ n2 <= max_keys /\ m2 <= max_keys /\ m2 >= min_keys
      /\ n >= min_keys - 1 => n2 >= min_keys
  <2>1. n # m
    BY <1>3
  <2>2. x # c
    BY <2>1
  <2> HIDE DEF n, m, n2, m2
  <2> QED BY <1>3, <2>2
<1>5. LeafOver(child, s.pages[c]) /\ LeafOver(sibling, s.pages[x])
  BY <1>4 DEF LeafOver
<1>6. parent \in Nodes /\ Whole(parent) /\ child \in Nodes /\ Whole(child)
      /\ sibling \in Nodes /\ Whole(sibling)
  <2>1. Wide(s.pages, s.next, s.root, L, p, s.pages[p]) /\ Len(s.pages[p].keys) >= 1
    BY <1>1, InternalFacts
  <2> QED BY <2>1 DEF Rekeyed, Whole, LeafNode, Wide
<1>7. Holds(t, b, None, None, None)
  BY <1>6, WriteThreeHolds
<1>8. ThreeWritten(t.pages, s.pages, p, parent, c, child, x, sibling)
  BY <1>6, WriteThreeHolds
<1>9. SameRoot(t, s)
  BY <1>6, <1>7, <1>8, WriteThreeHolds
<1>10. Tree(t.pages, s.next, s.root, L)
  BY <1>1, <1>2, <1>4, <1>5, <1>8, BorrowedTree
<1>11. Strict(s.pages, s.root, {c}) /\ Len(child.keys) >= min_keys /\ Len(sibling.keys) >= min_keys
         => Strict(t.pages, s.root, {})
  BY <1>1, <1>2, <1>4, <1>5, <1>8, BorrowedTree
<1>12. t.merges \in Nat /\ t.merges >= s.merges
  BY <1>1, <1>9 DEF SameRoot
<1>13. TreeOf(t, L)
  BY <1>9, <1>10 DEF SameRoot, TreeOf
<1>14. t.root = s.root /\ t.next = s.next
  BY <1>9 DEF SameRoot
<1>15. ASSUME Strict(s.pages, s.root, {c}), n >= min_keys - 1 PROVE Strict(t.pages, t.root, {})
  <2>1. Len(child.keys) >= min_keys /\ Len(sibling.keys) >= min_keys
    BY <1>4, <1>15
  <2>2. Strict(t.pages, s.root, {})
    BY <1>11, <1>15, <2>1
  <2> QED BY <1>14, <2>2
<1> QED BY <1>7, <1>12, <1>13, <1>14, <1>15 DEF Mended
LEMMA ReplaceSpec ==
  ASSUME NEW S, NEW s \in Seq(S), NEW i \in 1 .. Len(s), NEW x \in S
  PROVE  Replace(s, i, x) \in Seq(S) /\ Len(Replace(s, i, x)) = Len(s)
BY DEF Replace

\* Sequences a little longer or shorter.
LEMMA Longer ==
  ASSUME NEW s \in Seq(Nat), NEW x \in Nat
  PROVE  /\ <<x>> \o s \in Seq(Nat) /\ Len(<<x>> \o s) = Len(s) + 1
         /\ Append(s, x) \in Seq(Nat) /\ Len(Append(s, x)) = Len(s) + 1
<1>1. <<x>> \in Seq(Nat) /\ Len(<<x>>) = 1
  OBVIOUS
<1> DEFINE a == <<x>>
<1> HIDE DEF a
<1>2. a \o s \in Seq(Nat) /\ Len(a \o s) = Len(a) + Len(s)
  BY <1>1, ConcatProperties DEF a
<1>3. Len(s) \in Nat
  OBVIOUS
<1>4. Len(a) = 1
  BY <1>1 DEF a
<1>5. Len(a \o s) = Len(s) + 1
  BY <1>2, <1>3, <1>4
<1> QED BY <1>2, <1>5 DEF a

LEMMA Shorter ==
  ASSUME NEW s \in Seq(Nat), Len(s) > 0
  PROVE  /\ Front(s) \in Seq(Nat) /\ Len(Front(s)) = Len(s) - 1
         /\ Tail(s) \in Seq(Nat) /\ Len(Tail(s)) = Len(s) - 1
         /\ Last(s) \in Nat /\ Head(s) \in Nat
<1>1. Len(s) - 1 \in 0 .. Len(s) /\ Len(s) \in 1 .. Len(s) /\ 1 \in 1 .. Len(s) /\ s # <<>>
  OBVIOUS
<1>2. Front(s) \in Seq(Nat) /\ Len(Front(s)) = Len(s) - 1
  BY <1>1, Prefix DEF Front
<1>3. Tail(s) \in Seq(Nat) /\ Len(Tail(s)) = Len(s) - 1
  BY <1>1
<1>4. Last(s) \in Nat
  BY <1>1 DEF Last
<1>5. Head(s) \in Nat
  BY <1>1
<1> QED BY <1>2, <1>3, <1>4, <1>5

\* A leaf with other keys and values, n of them.
LeafWith(node, old, n) == /\ LeafNode(node)
                          /\ node.parent = old.parent
                          /\ Len(node.keys) = n
LEMMA LeafMade ==
  ASSUME NEW old, LeafNode(old), NEW ks \in Seq(Nat), NEW vs \in Seq(Nat), Len(vs) = Len(ks),
         NEW node, node = [old EXCEPT !.keys = ks, !.values = vs]
  PROVE  LeafWith(node, old, Len(ks))
<1>1. old \in Nodes
  BY DEF LeafNode
<1>2. /\ node \in Nodes /\ node.keys = ks /\ node.values = vs /\ node.parent = old.parent
      /\ node.node_type = old.node_type /\ node.children = old.children
  BY <1>1 DEF Nodes
<1> QED BY <1>2 DEF LeafNode, LeafWith

LEMMA RekeyedMade ==
  ASSUME NEW old \in Nodes, NEW ks \in Seq(Nat), Len(ks) = Len(old.keys),
         NEW node, node = [old EXCEPT !.keys = ks]
  PROVE  Rekeyed(node, old)
BY DEF Rekeyed, Nodes

LEMMA BorrowLeftHolds ==
  ASSUME NEW s, NEW b, NEW L, NEW p \in PageIds, NEW c \in PageIds, NEW x \in PageIds,
         Holds(s, b, p, c, x), TreeOf(s, L), s.pages[p].node_type # "Leaf",
         NEW i \in 2 .. Len(s.pages[p].children),
         c = s.pages[p].children[i], x = s.pages[p].children[i - 1],
         Len(s.pages[c].keys) < min_keys, Len(s.pages[x].keys) > min_keys,
         NEW t, t = BorrowLeft(s, p, i)
  PROVE  Mended(t, s, b, L, c)
<1> DEFINE parent == s.pages[p]
           child == s.pages[c]
           left == s.pages[x]
           key == Last(left.keys)
           pks == Replace(parent.keys, i - 1, key)
           cks == <<key>> \o child.keys
           cvs == <<Last(left.values)>> \o child.values
           parent2 == [parent EXCEPT !.keys = pks]
           child2 == [child EXCEPT !.keys = cks, !.values = cvs]
           left2 == [left EXCEPT !.keys = Front(left.keys), !.values = Front(left.values)]
<1>1. Tree(s.pages, s.next, s.root, L) /\ s.pages \in [PageIds -> Nodes]
  BY DEF TreeOf, Tree
<1>2. i \in 1 .. Len(parent.children) /\ i - 1 \in 1 .. Len(parent.children)
  <2>1. Len(parent.children) \in Nat
    BY <1>1, NodeFacts
  <2> QED BY <2>1
<1>3. c \in Kids(parent) /\ x \in Kids(parent)
  BY <1>2 DEF Kids
<1>4. child.node_type = "Leaf" /\ left.node_type = "Leaf"
  BY <1>1, <1>3, ShortLeaf
<1>5. LeafNode(child) /\ LeafNode(left)
  BY <1>1, <1>4, LeafFacts
<1>6. t = WriteThree(s, p, parent2, c, child2, x, left2)
  BY <1>4 DEF BorrowLeft, read_node
<1>7. /\ child.keys \in Seq(Nat) /\ child.values \in Seq(Nat) /\ Len(child.values) = Len(child.keys)
      /\ left.keys \in Seq(Nat) /\ left.values \in Seq(Nat) /\ Len(left.values) = Len(left.keys)
      /\ parent \in Nodes /\ parent.keys \in Seq(Nat) /\ parent.children \in Seq(PageIds)
      /\ Len(parent.children) = Len(parent.keys) + 1
      /\ Len(left.keys) > 0
  <2>1. Wide(s.pages, s.next, s.root, L, p, parent)
    BY <1>1, InternalFacts
  <2>2. Len(left.keys) > 0
    <3>1. Len(left.keys) \in Nat /\ min_keys \in Nat
      BY <1>1, NodeFacts, PageFacts
    <3> HIDE DEF left
    <3>2. Len(left.keys) > min_keys
      BY DEF left
    <3> QED BY <3>1, <3>2
  <2> QED BY <1>5, <2>1, <2>2 DEF LeafNode, Nodes, Wide
<1> HIDE DEF parent, child, left
<1>8. key \in Nat /\ Last(left.values) \in Nat
      /\ Front(left.keys) \in Seq(Nat) /\ Len(Front(left.keys)) = Len(left.keys) - 1
      /\ Front(left.values) \in Seq(Nat) /\ Len(Front(left.values)) = Len(left.keys) - 1
  BY <1>7, Shorter
<1> HIDE DEF key
<1>9. cks \in Seq(Nat) /\ cvs \in Seq(Nat) /\ Len(cks) = Len(child.keys) + 1 /\ Len(cvs) = Len(cks)
  <2> DEFINE k1 == child.keys
             v1 == child.values
             e == Last(left.values)
  <2>1. k1 \in Seq(Nat) /\ v1 \in Seq(Nat) /\ Len(v1) = Len(k1) /\ e \in Nat
    BY <1>7, <1>8
  <2> HIDE DEF k1, v1, e
  <2>2. <<key>> \o k1 \in Seq(Nat) /\ Len(<<key>> \o k1) = Len(k1) + 1
    BY <1>8, <2>1, Longer
  <2>3. <<e>> \o v1 \in Seq(Nat) /\ Len(<<e>> \o v1) = Len(v1) + 1
    BY <2>1, Longer
  <2> QED BY <2>1, <2>2, <2>3 DEF k1, v1, e
<1>10. pks \in Seq(Nat) /\ Len(pks) = Len(parent.keys)
  <2>1. i - 1 \in 1 .. Len(parent.keys)
    BY <1>2, <1>7
  <2> QED BY <1>7, <1>8, <2>1, ReplaceSpec
<1> HIDE DEF pks, cks, cvs
<1>11. Rekeyed(parent2, parent)
  BY <1>7, <1>10, RekeyedMade
<1>12. LeafWith(child2, child, Len(cks))
  <2>1. child2 = [child EXCEPT !.keys = cks, !.values = cvs]
    OBVIOUS
  <2> HIDE DEF child2
  <2> QED BY <1>5, <1>9, <2>1, LeafMade
<1>13. LeafWith(left2, left, Len(left.keys) - 1)
  <2> DEFINE ks == Front(left.keys)
             vs == Front(left.values)
  <2>1. ks \in Seq(Nat) /\ vs \in Seq(Nat) /\ Len(vs) = Len(ks)
    BY <1>8
  <2>2. left2 = [left EXCEPT !.keys = ks, !.values = vs]
    OBVIOUS
  <2> HIDE DEF ks, vs, left2
  <2>3. LeafWith(left2, left, Len(ks))
    BY <1>5, <2>1, <2>2, LeafMade
  <2> QED BY <1>8, <2>3 DEF ks
<1> HIDE DEF parent2, child2, left2
<1>14. /\ LeafNode(child2) /\ child2.parent = child.parent
       /\ LeafNode(left2) /\ left2.parent = left.parent
       /\ Len(child2.keys) = Len(child.keys) + 1 /\ Len(left2.keys) = Len(left.keys) - 1
  BY <1>9, <1>12, <1>13 DEF LeafWith
<1>15. t = WriteThree(s, p, parent2, c, child2, x, left2)
  BY <1>6
<1> QED BY <1>3, <1>11, <1>14, <1>15, MovedHolds DEF parent, child, left

LEMMA BorrowRightHolds ==
  ASSUME NEW s, NEW b, NEW L, NEW p \in PageIds, NEW c \in PageIds, NEW x \in PageIds,
         Holds(s, b, p, c, x), TreeOf(s, L), s.pages[p].node_type # "Leaf",
         NEW i \in 1 .. Len(s.pages[p].children) - 1,
         c = s.pages[p].children[i], x = s.pages[p].children[i + 1],
         Len(s.pages[c].keys) < min_keys, Len(s.pages[x].keys) > min_keys,
         NEW t, t = BorrowRight(s, p, i)
  PROVE  Mended(t, s, b, L, c)
<1> DEFINE parent == s.pages[p]
           child == s.pages[c]
           right == s.pages[x]
           cks == Append(child.keys, Head(right.keys))
           cvs == Append(child.values, Head(right.values))
           child2 == [child EXCEPT !.keys = cks, !.values = cvs]
           right2 == [right EXCEPT !.keys = Tail(right.keys), !.values = Tail(right.values)]
           key == IF right2.keys # <<>> THEN Head(right2.keys) ELSE parent.keys[i]
           pks == Replace(parent.keys, i, key)
           parent2 == [parent EXCEPT !.keys = pks]
<1>1. Tree(s.pages, s.next, s.root, L) /\ s.pages \in [PageIds -> Nodes]
  BY DEF TreeOf, Tree
<1>2. i \in 1 .. Len(parent.children) /\ i + 1 \in 1 .. Len(parent.children)
  <2>1. Len(parent.children) \in Nat
    BY <1>1, NodeFacts
  <2> QED BY <2>1
<1>3. c \in Kids(parent) /\ x \in Kids(parent)
  BY <1>2 DEF Kids
<1>4. child.node_type = "Leaf" /\ right.node_type = "Leaf"
  BY <1>1, <1>3, ShortLeaf
<1>5. LeafNode(child) /\ LeafNode(right)
  BY <1>1, <1>4, LeafFacts
<1>6. t = WriteThree(s, p, parent2, c, child2, x, right2)
  <2> DEFINE c0 == parent.children[i]
             x0 == parent.children[i + 1]
             ch == s.pages[c0]
             ri == s.pages[x0]
             lf == ch.node_type = "Leaf"
             child0 == IF lf
                         THEN [ch EXCEPT !.keys = Append(@, Head(ri.keys)),
                                         !.values = Append(@, Head(ri.values))]
                         ELSE [ch EXCEPT !.keys = Append(@, parent.keys[i]),
                                         !.children = Append(@, Head(ri.children))]
             right0 == IF lf
                         THEN [ri EXCEPT !.keys = Tail(@), !.values = Tail(@)]
                         ELSE [ri EXCEPT !.keys = Tail(@), !.children = Tail(@)]
             key0 == IF ~lf THEN Head(ri.keys)
                     ELSE IF right0.keys # <<>> THEN Head(right0.keys) ELSE parent.keys[i]
             s0 == IF lf THEN s ELSE update_parent(s, Last(child0.children), c0)
  <2>1. t = WriteThree(s0, p, [parent EXCEPT !.keys = Replace(@, i, key0)], c0, child0, x0, right0)
    BY DEF BorrowRight, read_node
  <2>0. c0 = c /\ x0 = x /\ ch = child /\ ri = right
    OBVIOUS
  <2> HIDE DEF c0, x0, ch, ri
  <2>2. lf
    BY <1>4, <2>0
  <2>3. child0 = child2 /\ right0 = right2 /\ s0 = s
    BY <2>0, <2>2
  <2>4. key0 = key
    <3> HIDE DEF right0, right2, lf
    <3> QED BY <2>0, <2>2, <2>3
  <2> HIDE DEF key0, child0, right0, s0, lf, key, child2, right2
  <2>5. [parent EXCEPT !.keys = Replace(@, i, key0)] = parent2
    BY <2>4
  <2> QED BY <2>0, <2>1, <2>3, <2>5
<1>7. /\ child.keys \in Seq(Nat) /\ child.values \in Seq(Nat) /\ Len(child.values) = Len(child.keys)
      /\ right.keys \in Seq(Nat) /\ right.values \in Seq(Nat) /\ Len(right.values) = Len(right.keys)
      /\ parent \in Nodes /\ parent.keys \in Seq(Nat) /\ parent.children \in Seq(PageIds)
      /\ Len(parent.children) = Len(parent.keys) + 1
      /\ Len(right.keys) > 0
  <2>1. Wide(s.pages, s.next, s.root, L, p, parent)
    BY <1>1, InternalFacts
  <2>2. Len(right.keys) > 0
    <3>1. Len(right.keys) \in Nat /\ min_keys \in Nat
      BY <1>1, NodeFacts, PageFacts
    <3> HIDE DEF right
    <3>2. Len(right.keys) > min_keys
      BY DEF right
    <3> QED BY <3>1, <3>2
  <2> QED BY <1>5, <2>1, <2>2 DEF LeafNode, Nodes, Wide
<1> HIDE DEF parent, child, right
<1>8. /\ Head(right.keys) \in Nat /\ Head(right.values) \in Nat
      /\ Tail(right.keys) \in Seq(Nat) /\ Len(Tail(right.keys)) = Len(right.keys) - 1
      /\ Tail(right.values) \in Seq(Nat) /\ Len(Tail(right.values)) = Len(right.keys) - 1
  BY <1>7, Shorter
<1>9. i \in 1 .. Len(parent.keys)
  BY <1>2, <1>7
<1>10. key \in Nat
  <2> DEFINE ks == right2.keys
             old == parent.keys
  <2>1. ks \in Seq(Nat)
    <3>1. right2.keys = Tail(right.keys)
      BY <1>5 DEF LeafNode, Nodes
    <3> QED BY <1>8, <3>1
  <2>2. old \in Seq(Nat) /\ i \in 1 .. Len(old)
    BY <1>7, <1>9
  <2>3. key = IF ks # <<>> THEN Head(ks) ELSE old[i]
    OBVIOUS
  <2> HIDE DEF ks, old, key
  <2>4. old[i] \in Nat
    BY <2>2
  <2>5. ks # <<>> => Head(ks) \in Nat
    BY <2>1
  <2> QED BY <2>3, <2>4, <2>5
<1> HIDE DEF key
<1>11. cks \in Seq(Nat) /\ cvs \in Seq(Nat) /\ Len(cks) = Len(child.keys) + 1 /\ Len(cvs) = Len(cks)
  <2> DEFINE k1 == child.keys
             v1 == child.values
             k2 == Head(right.keys)
             e == Head(right.values)
  <2>1. /\ k1 \in Seq(Nat) /\ v1 \in Seq(Nat) /\ Len(v1) = Len(k1)
        /\ k2 \in Nat /\ e \in Nat
    BY <1>7, <1>8
  <2> HIDE DEF k1, v1, k2, e
  <2>2. Append(k1, k2) \in Seq(Nat) /\ Len(Append(k1, k2)) = Len(k1) + 1
    BY <2>1
  <2>3. Append(v1, e) \in Seq(Nat) /\ Len(Append(v1, e)) = Len(v1) + 1
    BY <2>1
  <2> QED BY <2>1, <2>2, <2>3 DEF k1, v1, k2, e
<1>12. pks \in Seq(Nat) /\ Len(pks) = Len(parent.keys)
  BY <1>7, <1>9, <1>10, ReplaceSpec
<1> HIDE DEF pks, cks, cvs
<1>13. Rekeyed(parent2, parent)
  BY <1>7, <1>12, RekeyedMade
<1>14. LeafWith(child2, child, Len(cks))
  <2>1. child2 = [child EXCEPT !.keys = cks, !.values = cvs]
    OBVIOUS
  <2> HIDE DEF child2
  <2> QED BY <1>5, <1>11, <2>1, LeafMade
<1>15. LeafWith(right2, right, Len(right.keys) - 1)
  <2> DEFINE ks == Tail(right.keys)
             vs == Tail(right.values)
  <2>1. ks \in Seq(Nat) /\ vs \in Seq(Nat) /\ Len(vs) = Len(ks)
    BY <1>8
  <2>2. right2 = [right EXCEPT !.keys = ks, !.values = vs]
    OBVIOUS
  <2> HIDE DEF ks, vs, right2
  <2>3. LeafWith(right2, right, Len(ks))
    BY <1>5, <2>1, <2>2, LeafMade
  <2> QED BY <1>8, <2>3 DEF ks
<1> HIDE DEF parent2, child2, right2
<1>16. /\ LeafNode(child2) /\ child2.parent = child.parent
       /\ LeafNode(right2) /\ right2.parent = right.parent
       /\ Len(child2.keys) = Len(child.keys) + 1 /\ Len(right2.keys) = Len(right.keys) - 1
  BY <1>11, <1>14, <1>15 DEF LeafWith
<1>17. t = WriteThree(s, p, parent2, c, child2, x, right2)
  BY <1>6
<1> QED BY <1>3, <1>13, <1>16, <1>17, MovedHolds DEF parent, child, right
\* A node with a child too few, as it is read back.
Dropped(node, old) ==
  /\ node \in Nodes /\ node.node_type = "Internal"
  /\ node.keys = old.keys /\ node.parent = old.parent
  /\ Len(node.children) = Len(old.children)
  /\ \A i \in 1 .. Len(old.children) : node.children[i] \in Kids(old) \cup {0}

LEMMA DroppedMade ==
  ASSUME NEW old \in Nodes, old.node_type = "Internal",
         Len(old.keys) >= 1, Len(old.children) = Len(old.keys) + 1,
         NEW i \in 1 .. Len(old.children), 0 \in PageIds,
         NEW fewer, fewer = [old EXCEPT !.children = RemoveAt(@, i)]
  PROVE  deserialize(fewer) \in Nodes /\ Dropped(deserialize(fewer), old)
<1> DEFINE cs == old.children
           ds == RemoveAt(cs, i)
           es == Append(ds, 0)
           n == Len(cs)
           node == deserialize(fewer)
<1>1. cs \in Seq(PageIds) /\ old.keys \in Seq(Nat) /\ Len(old.keys) \in Nat /\ n \in Nat
      /\ n = Len(old.keys) + 1 /\ n >= 2
  BY DEF Nodes
<1>2. fewer = [old EXCEPT !.children = ds]
  OBVIOUS
<1>3. ds \in Seq(PageIds) /\ RemovedAt(ds, cs, i)
  <2> HIDE DEF cs, ds
  <2> QED BY <1>1, RemoveAtSpec DEF cs, ds
<1> HIDE DEF ds
<1>4. Len(ds) = n - 1 /\ \A j \in 1 .. n - 1 : ds[j] = IF j < i THEN cs[j] ELSE cs[j + 1]
  BY <1>3 DEF RemovedAt
<1>5. es \in Seq(PageIds) /\ Len(es) = n /\ es[n] = 0 /\ \A j \in 1 .. n - 1 : es[j] = ds[j]
  <2> HIDE DEF n, cs
  <2> QED BY <1>1, <1>3, <1>4
<1> HIDE DEF es
<1>6. node = [fewer EXCEPT !.children = es]
  <2>1. fewer.node_type = "Internal" /\ fewer.children = ds /\ fewer.keys = old.keys
    BY <1>2 DEF Nodes
  <2>2. fewer.keys # <<>> /\ Len(ds) = Len(fewer.keys)
    BY <1>1, <1>4, <2>1
  <2>3. node = [fewer EXCEPT !.children = IF fewer.keys = <<>> THEN <<>>
                                          ELSE IF Len(ds) = Len(fewer.keys) THEN Append(ds, 0) ELSE ds]
    BY <2>1 DEF deserialize
  <2> QED BY <2>2, <2>3 DEF es
<1> HIDE DEF node
<1>7. /\ node \in Nodes /\ node.node_type = "Internal" /\ node.keys = old.keys
      /\ node.parent = old.parent /\ node.children = es
  BY <1>2, <1>5, <1>6 DEF Nodes
<1>8. ASSUME NEW j \in 1 .. n PROVE es[j] \in Kids(old) \cup {0}
  <2>1. CASE j = n
    BY <1>5, <2>1
  <2>2. CASE j # n
    <3>1. j \in 1 .. n - 1 /\ j \in 1 .. n /\ j + 1 \in 1 .. n
      BY <1>1, <2>2
    <3>2. es[j] = cs[j] \/ es[j] = cs[j + 1]
      BY <1>4, <1>5, <3>1
    <3> QED BY <3>1, <3>2 DEF Kids
  <2> QED BY <2>1, <2>2
<1> QED BY <1>5, <1>7, <1>8 DEF Dropped, node

\* Two leaves are one, and their parent has page 0 for a last child.
LEMMA JoinedTree ==
  ASSUME NEW pg, NEW nx, NEW rt, NEW L, Tree(pg, nx, rt, L),
         NEW p \in PageIds, pg[p].node_type # "Leaf",
         NEW c, c \in Kids(pg[p]), Len(pg[c].keys) < min_keys,
         NEW x, x \in Kids(pg[p]), NEW left, LeafOver(left, pg[x]),
         NEW g, Wrote(g, pg, x, left), NEW node, Dropped(node, pg[p]),
         NEW pg2, Wrote(pg2, g, p, node)
  PROVE  Tree(pg2, nx, rt, L)
<1>1. \A q \in Kids(pg[p]) :
        q \in PageIds /\ q < nx /\ q # rt /\ q # p /\ pg[q].node_type = "Leaf"
  BY ShortLeaf
<1>2. /\ pg \in [PageIds -> Nodes] /\ L \in [PageIds -> Nat]
      /\ Wide(pg, nx, rt, L, p, pg[p]) /\ p < nx /\ rt \in PageIds
      /\ pg[rt].node_type = "Internal"
      /\ Len(pg[p].keys) <= max_keys
  BY InternalFacts DEF Tree
<1>3. Tree(g, nx, rt, L)
  BY <1>1, LeafOverTree
<1>4. g[p] = pg[p] /\ g[rt] = pg[rt]
  BY <1>1, <1>2 DEF Wrote
<1>5. 0 \in PageIds /\ 0 < nx /\ 0 # rt /\ L[0] = 0
  <2>1. 0 \in PageIds
    BY PageFacts
  <2>2. pg[0].node_type = "Leaf" /\ NodeOK(pg, nx, rt, L, 0)
    BY <2>1 DEF Tree
  <2>3. nx \in Nat /\ p \in Nat
    BY PageFacts DEF Tree
  <2> QED BY <1>2, <2>1, <2>2, <2>3 DEF NodeOK
<1>6. \A q \in Kids(pg[p]) \cup {0} : q < nx /\ q # rt /\ L[q] = L[p] - 1
  <2>1. \A q \in Kids(pg[p]) : q < nx /\ q # rt /\ L[q] = L[p] - 1
    BY <1>2 DEF Wide, Kids
  <2>2. L[c] = 0
    <3>1. NodeOK(pg, nx, rt, L, c) /\ pg[c].node_type = "Leaf"
      BY <1>1 DEF Tree
    <3> QED BY <3>1 DEF NodeOK
  <2>3. L[c] = L[p] - 1
    BY <2>1
  <2> QED BY <1>5, <2>1, <2>2, <2>3
<1>7. Wide(g, nx, rt, L, p, node)
  BY <1>2, <1>4, <1>6 DEF Wide, Dropped
<1>8. Len(node.keys) >= Len(g[p].keys) /\ Len(node.keys) <= max_keys /\ g[p].node_type # "Leaf"
  <2>1. Len(pg[p].keys) \in Nat
    BY <1>2, NodeFacts
  <2> QED BY <1>2, <1>4, <2>1 DEF Dropped
<1> QED BY <1>3, <1>7, <1>8, NodeWritten

\* t is s with one merge more, its root and its next page the same.
Merged(t, s) == t.root = s.root /\ t.next = s.next /\ t.merges = s.merges + 1

\* What merging the children x and y of p makes of s: it fails in a fetch or not.
Joins(t, s, b, L, p, x, y) ==
  /\ Holds(t, b, None, None, None)
  /\ TreeOf(t, L)
  /\ Merged(t, s)
  /\ t.cuts = fetch(fetch(fetch(s, p), x), y).cuts

\* Merging takes in one leaf what two have.
LEMMA JoinHolds ==
  ASSUME NEW s, NEW b, NEW L, NEW p \in PageIds,
         Holds(s, b, None, None, None), TreeOf(s, L), s.pages[p].node_type # "Leaf",
         NEW i \in 1 .. Len(s.pages[p].children) - 1,
         NEW x, x = s.pages[p].children[i], NEW y, y = s.pages[p].children[i + 1],
         NEW c, c = x \/ c = y, Len(s.pages[c].keys) < min_keys,
         Len(s.pages[x].keys) <= min_keys, Len(s.pages[y].keys) <= min_keys,
         NEW t, t = Join(s, p, i)
  PROVE  Joins(t, s, b, L, p, x, y)
<1> DEFINE parent == s.pages[p]
           left == s.pages[x]
           right == s.pages[y]
           ks == left.keys \o right.keys
           vs == left.values \o right.values
           left2 == [left EXCEPT !.keys = ks, !.values = vs, !.next_leaf = right.next_leaf]
           fewer == [parent EXCEPT !.children = RemoveAt(@, i + 1)]
           f1 == fetch(s, p)
           f2 == fetch(f1, x)
           f3 == fetch(f2, y)
           d == Done(f3, x, left2)
           e == Done(d, p, fewer)
           u == release_node(e, y)
<1>1. Tree(s.pages, s.next, s.root, L) /\ s.pages \in [PageIds -> Nodes] /\ s.merges \in Nat
  BY DEF TreeOf, Tree, Holds, States
<1>2. i \in 1 .. Len(parent.children) /\ i + 1 \in 1 .. Len(parent.children)
  <2>1. Len(parent.children) \in Nat
    BY <1>1, NodeFacts
  <2> QED BY <2>1
<1>3. x \in Kids(parent) /\ y \in Kids(parent) /\ c \in Kids(parent)
  BY <1>2 DEF Kids
<1>4. \A q \in Kids(parent) :
        q \in PageIds /\ q < s.next /\ q # s.root /\ q # p /\ s.pages[q].node_type = "Leaf"
  BY <1>1, <1>3, ShortLeaf
<1>5. LeafNode(left) /\ LeafNode(right) /\ left.node_type = "Leaf"
  BY <1>1, <1>3, <1>4, LeafFacts
<1>6. t = [u EXCEPT !.merges = @ + 1]
  <2> DEFINE x0 == parent.children[i]
             y0 == parent.children[i + 1]
             le == s.pages[x0]
             ri == s.pages[y0]
             lf == le.node_type = "Leaf"
             left0 == Joined(le, ri, parent.keys[i])
             parent0 == IF lf THEN fewer ELSE [fewer EXCEPT !.keys = RemoveAt(@, i)]
             s0 == fetch(fetch(fetch(s, p), x0), y0)
             s1 == IF lf THEN s0 ELSE update_parents(s0, left0.children, x0)
  <2>1. t = [release_node(Done(Done(s1, x0, left0), p, parent0), y0) EXCEPT !.merges = @ + 1]
    BY DEF Join, read_node
  <2>2. x0 = x /\ y0 = y /\ le = left /\ ri = right
    OBVIOUS
  <2> HIDE DEF x0, y0, le, ri
  <2>3. lf
    BY <1>5, <2>2
  <2>4. left0 = left2
    BY <1>5, <2>2 DEF Joined
  <2>5. parent0 = fewer /\ s1 = f3
    BY <2>2, <2>3
  <2> HIDE DEF left0, left2, parent0, fewer, s1, f3
  <2> QED BY <2>1, <2>2, <2>4, <2>5
<1>7. LeafOver(left2, left)
  <2>1. /\ left.keys \in Seq(Nat) /\ left.values \in Seq(Nat) /\ Len(left.values) = Len(left.keys)
        /\ right.keys \in Seq(Nat) /\ right.values \in Seq(Nat) /\ Len(right.values) = Len(right.keys)
        /\ left \in Nodes /\ right.next_leaf \in PageOrNone
    BY <1>5 DEF LeafNode, Nodes
  <2> HIDE DEF left, right
  <2>2. /\ ks \in Seq(Nat) /\ Len(ks) = Len(left.keys) + Len(right.keys)
        /\ vs \in Seq(Nat) /\ Len(vs) = Len(left.values) + Len(right.values)
    BY <2>1, ConcatProperties
  <2> HIDE DEF ks, vs
  <2>3. /\ left2 \in Nodes /\ left2.keys = ks /\ left2.values = vs /\ left2.parent = left.parent
        /\ left2.node_type = left.node_type /\ left2.children = left.children
    BY <2>1, <2>2 DEF Nodes
  <2>4. Len(ks) <= max_keys
    <3> DEFINE n == Len(left.keys)
               m == Len(right.keys)
               k == Len(ks)
    <3>0. n <= min_keys /\ m <= min_keys /\ (n < min_keys \/ m < min_keys)
      BY DEF left, right
    <3>1. /\ n \in Nat /\ m \in Nat /\ k = n + m /\ min_keys \in Nat /\ max_keys \in Nat
          /\ n <= min_keys /\ m <= min_keys /\ (n < min_keys \/ m < min_keys)
      <4>1. n \in Nat /\ m \in Nat /\ k = n + m
        BY <2>1, <2>2
      <4>2. min_keys \in Nat /\ max_keys \in Nat
        BY PageFacts
      <4> QED BY <4>1, <4>2, <3>0
    <3>2. 2 * min_keys <= max_keys + 1
      <4>1. Order \in Nat /\ Order >= 3
        BY PageFacts
      <4>2. 2 * ((Order + 1) \div 2) <= Order + 1
        BY <4>1
      <4> QED BY <4>1, <4>2 DEF min_keys, max_keys
    <3> HIDE DEF n, m, k
    <3>3. k <= max_keys
      BY <3>1, <3>2
    <3> QED BY <3>3 DEF k
  <2> QED BY <1>5, <2>1, <2>2, <2>3, <2>4 DEF LeafOver, LeafNode, left
<1>8. deserialize(left2) = left2 /\ left2 \in Nodes
  <2>1. left2 \in Nodes /\ Whole(left2)
    BY <1>7 DEF LeafOver, LeafNode, Whole
  <2> HIDE DEF left2
  <2> QED BY <2>1, ReadsBack
<1> HIDE DEF left2
<1>9. deserialize(fewer) \in Nodes /\ Dropped(deserialize(fewer), parent)
  <2>1. parent \in Nodes /\ parent.node_type = "Internal" /\ Len(parent.keys) >= 1
        /\ Len(parent.children) = Len(parent.keys) + 1
    BY <1>1, InternalFacts DEF Wide
  <2>2. 0 \in PageIds
    BY PageFacts
  <2> DEFINE j == i + 1
  <2>3. j \in 1 .. Len(parent.children) /\ fewer = [parent EXCEPT !.children = RemoveAt(@, j)]
    BY <1>2
  <2> HIDE DEF fewer, j, parent
  <2> QED BY <2>1, <2>2, <2>3, DroppedMade
<1> HIDE DEF fewer
<1>10. Holds(f3, b, p, x, y) /\ SameTree(f3, s)
  <2>1. x \in PageIds /\ y \in PageIds
    BY <1>3, <1>4
  <2>2. Holds(f1, b, None, None, p) /\ SameTree(f1, s)
    BY FetchHolds
  <2> HIDE DEF f1
  <2>3. TreeOf(f1, L) /\ Holds(f1, b, None, p, None)
    BY <2>2, SameTreeOf, HoldsAny
  <2>4. Holds(f1, b, p, None, None)
    BY <2>3, HoldsAny
  <2>5. Holds(f2, b, p, None, x) /\ SameTree(f2, f1)
    BY <2>1, <2>3, <2>4, FetchHolds
  <2> HIDE DEF f2
  <2>6. TreeOf(f2, L) /\ Holds(f2, b, p, x, None)
    BY <2>3, <2>5, SameTreeOf, HoldsAny
  <2>7. Holds(f3, b, p, x, y) /\ SameTree(f3, f2)
    BY <2>1, <2>6, FetchHolds
  <2> QED BY <2>2, <2>5, <2>7 DEF SameTree
<1> HIDE DEF f3
<1>11. x \in PageIds /\ y \in PageIds
  BY <1>3, <1>4
<1>12. /\ Holds(d, b, p, y, None)
       /\ Wrote(d.pages, f3.pages, x, left2)
       /\ SameRoot(d, f3)
       /\ d.cuts = f3.cuts
  <2>1. Holds(f3, b, p, y, x)
    BY <1>10, HoldsAny
  <2>2. d = Done(f3, x, left2)
    OBVIOUS
  <2> HIDE DEF d
  <2>3. Holds(d, b, p, y, None)
    BY <1>8, <1>11, <2>1, <2>2, DoneHolds
  <2>4. Wrote(d.pages, f3.pages, x, left2)
    BY <1>8, <1>11, <2>1, <2>2, DoneHolds
  <2>5. SameRoot(d, f3)
    BY <1>8, <1>11, <2>1, <2>2, <2>3, <2>4, DoneHolds
  <2>6. d.cuts = f3.cuts
    BY <1>8, <1>11, <2>1, <2>2, DoneCuts
  <2> QED BY <2>3, <2>4, <2>5, <2>6
<1> HIDE DEF d
<1> DEFINE node == deserialize(fewer)
<1>13. /\ Holds(e, b, None, None, y)
       /\ Wrote(e.pages, d.pages, p, node)
       /\ SameRoot(e, d)
       /\ e.cuts = d.cuts
  <2>1. Holds(d, b, y, p, None)
    BY <1>12, HoldsAny
  <2>2. Holds(d, b, y, None, p)
    BY <2>1, HoldsAny
  <2>3. e = Done(d, p, fewer)
    OBVIOUS
  <2> HIDE DEF e
  <2>4. Holds(e, b, y, None, None)
    BY <1>9, <2>2, <2>3, DoneHolds
  <2>5. Wrote(e.pages, d.pages, p, node)
    BY <1>9, <2>2, <2>3, DoneHolds
  <2>6. SameRoot(e, d)
    BY <1>9, <2>2, <2>3, <2>4, <2>5, DoneHolds
  <2>7. Holds(e, b, None, y, None)
    BY <2>4, HoldsAny
  <2>8. Holds(e, b, None, None, y)
    BY <2>7, HoldsAny
  <2>9. e.cuts = d.cuts
    BY <1>9, <2>2, <2>3, DoneCuts
  <2> QED BY <2>5, <2>6, <2>8, <2>9
<1> HIDE DEF e, node
<1>14. Holds(u, b, None, None, None) /\ SameTree(u, e) /\ u.cuts = e.cuts
  <2>1. Holds(u, b, None, None, None) /\ SameTree(u, e)
    BY <1>11, <1>13, ReleaseHolds
  <2>2. u.cuts = e.cuts
    BY <1>13, CutsKept DEF Holds
  <2> QED BY <2>1, <2>2
<1> HIDE DEF u
<1>15. /\ t.pages = u.pages /\ t.next = u.next /\ t.root = u.root /\ t.merges = u.merges + 1
       /\ u.merges = s.merges /\ u.next = s.next /\ u.root = s.root
       /\ Holds(t, b, None, None, None) /\ t.cuts = u.cuts
  <2>1. u \in States /\ u.merges = s.merges /\ u.next = s.next /\ u.root = s.root
    BY <1>10, <1>12, <1>13, <1>14 DEF SameRoot, SameTree, Holds
  <2>2. u.merges + 1 \in Nat
    BY <1>1, <2>1
  <2> DEFINE k == u.merges + 1
  <2>3. t = [u EXCEPT !.merges = k] /\ k \in Nat
    BY <1>6, <2>2
  <2> HIDE DEF k
  <2>4. /\ t \in States /\ t.pages = u.pages /\ t.next = u.next /\ t.root = u.root
        /\ t.merges = k /\ t.pins = u.pins /\ t.held = u.held /\ t.four = u.four
        /\ t.stray = u.stray /\ t.cuts = u.cuts
    BY <2>1, <2>3 DEF States
  <2>5. Holds(t, b, None, None, None)
    BY <1>14, <2>4 DEF Holds
  <2> QED BY <2>1, <2>4, <2>5 DEF k
<1>16. Tree(t.pages, s.next, s.root, L)
  <2>1. Wrote(d.pages, s.pages, x, left2)
    BY <1>10, <1>12 DEF SameTree
  <2>2. Wrote(t.pages, d.pages, p, node)
    BY <1>13, <1>14, <1>15 DEF SameTree
  <2>3. Dropped(node, s.pages[p]) /\ LeafOver(left2, s.pages[x])
        /\ c \in Kids(s.pages[p]) /\ x \in Kids(s.pages[p])
    BY <1>3, <1>7, <1>9 DEF node
  <2> QED BY <1>1, <2>1, <2>2, <2>3, JoinedTree
<1>17. t.cuts = f3.cuts
  BY <1>12, <1>13, <1>14, <1>15
<1> QED BY <1>15, <1>16, <1>17 DEF TreeOf, Merged, Joins, f3

\* Only the root can be too small then, and nothing is above it.
LEMMA MergeAboveHolds ==
  ASSUME NEW s, NEW b, NEW L, NEW p \in PageIds,
         Holds(s, b, None, None, None), TreeOf(s, L), s.pages[p].node_type # "Leaf",
         NEW r, r = MergeAbove(s, p)
  PROVE  r.again = <<>> /\ Holds(r.st, b, None, None, None) /\ SameTree(r.st, s)
<1> DEFINE parent == s.pages[p]
           q == parent.parent
           up == visit(s, q)
<1>1. Tree(s.pages, s.next, s.root, L) /\ s.pages \in [PageIds -> Nodes]
  BY DEF TreeOf, Tree
<1>2. SameTree(s, s)
  BY DEF SameTree
<1>3. CASE q = None \/ Len(parent.keys) >= min_keys
  <2>1. r = Settled(s)
    BY <1>3 DEF MergeAbove, read_node
  <2> QED BY <2>1, <1>2 DEF Settled
<1>4. CASE q # None /\ ~(Len(parent.keys) >= min_keys)
  <2>1. q \in PageIds
    BY <1>1, <1>4, NodeFacts DEF PageOrNone
  <2>2. p = s.root
    BY <1>1, <1>4, InternalFacts
  <2>3. s.pages[q].node_type = "Leaf"
    <3>1. RootOK(s.pages, s.next, s.root) /\ s.root # None
      BY <1>1, <2>2, PageFacts DEF Tree
    <3> QED BY <3>1, <2>2, <1>4 DEF RootOK
  <2>4. s.pages[q].children = <<>>
    BY <1>1, <2>1, <2>3, LeafFacts DEF LeafNode
  <2>5. p \notin Range(s.pages[q].children)
    BY <2>4 DEF Range
  <2>6. r = Settled(up)
    BY <1>4, <2>5 DEF MergeAbove, read_node
  <2>7. Holds(up, b, None, None, None) /\ SameTree(up, s)
    BY <2>1, VisitHolds
  <2> HIDE DEF up
  <2> QED BY <2>6, <2>7 DEF Settled
<1> QED BY <1>3, <1>4

LEMMA MergeHolds ==
  ASSUME NEW s, NEW b, NEW L, NEW p \in PageIds,
         Holds(s, b, None, None, None), TreeOf(s, L), s.pages[p].node_type # "Leaf",
         NEW i \in 1 .. Len(s.pages[p].children) - 1,
         NEW x, x = s.pages[p].children[i], NEW y, y = s.pages[p].children[i + 1],
         NEW c, c = x \/ c = y, Len(s.pages[c].keys) < min_keys,
         Len(s.pages[x].keys) <= min_keys, Len(s.pages[y].keys) <= min_keys,
         NEW r, r = merge_nodes(s, p, i)
  PROVE  r.again = <<>> /\ Mended(r.st, s, b, L, c)
<1> DEFINE j == Join(s, p, i)
           v == visit(j, p)
<1>1. /\ Holds(j, b, None, None, None) /\ TreeOf(j, L)
      /\ Merged(j, s)
  <2>1. j = Join(s, p, i)
    OBVIOUS
  <2> HIDE DEF j
  <2>2. Joins(j, s, b, L, p, x, y)
    BY <2>1, JoinHolds
  <2> QED BY <2>2 DEF Joins
<1>2. r = MergeAbove(v, p)
  BY DEF merge_nodes
<1> HIDE DEF j
<1>3. Holds(v, b, None, None, None) /\ SameTree(v, j)
  BY <1>1, VisitHolds
<1> HIDE DEF v
<1>4. TreeOf(v, L)
  BY <1>1, <1>3, SameTreeOf
<1>5. v.pages[p].node_type # "Leaf"
  <2>1. Tree(s.pages, s.next, s.root, L) /\ Tree(v.pages, v.next, v.root, L)
    BY <1>4 DEF TreeOf
  <2>2. 0 < L[p] /\ L[p] # 0
    BY <2>1, InternalFacts
  <2> QED BY <2>1, <2>2, LeafFacts
<1>6. r.again = <<>> /\ Holds(r.st, b, None, None, None) /\ SameTree(r.st, v)
  BY <1>2, <1>3, <1>4, <1>5, MergeAboveHolds
<1>7. TreeOf(r.st, L)
  BY <1>4, <1>6, SameTreeOf
<1>8. r.st.root = s.root /\ r.st.next = s.next /\ r.st.merges = s.merges + 1
  BY <1>1, <1>3, <1>6 DEF SameTree, Merged
<1>9. s.merges \in Nat
  BY DEF Holds, States
<1>10. r.st.merges \in Nat /\ r.st.merges >= s.merges /\ r.st.merges # 0
  BY <1>8, <1>9
<1> QED BY <1>6, <1>7, <1>8, <1>10 DEF Mended

LEMMA MendedSame ==
  ASSUME NEW t, NEW s, NEW s1, NEW b, NEW L, NEW c, SameTree(s1, s), Mended(t, s1, b, L, c)
  PROVE  Mended(t, s, b, L, c)
<1>1. s1.pages = s.pages /\ s1.root = s.root /\ s1.next = s.next /\ s1.merges = s.merges
  BY DEF SameTree
<1> QED BY <1>1 DEF Mended

\* A child without enough keys gets one, or is merged with a sibling.
LEMMA RebalanceOnceHolds ==
  ASSUME NEW s, NEW b, NEW L, NEW p \in PageIds,
         Holds(s, b, None, None, None), TreeOf(s, L), s.pages[p].node_type # "Leaf",
         NEW i \in 1 .. Len(s.pages[p].children),
         NEW c, c = s.pages[p].children[i], Len(s.pages[c].keys) < min_keys,
         NEW r, r = RebalanceOnce(s, p, i)
  PROVE  r.again = <<>> /\ Mended(r.st, s, b, L, c)
<1> DEFINE parent == s.pages[p]
           n == Len(parent.children)
           x == parent.children[i - 1]
           y == parent.children[i + 1]
           l == IF i > 1 THEN <<x>> ELSE <<>>
           u == IF i < n THEN <<y>> ELSE <<>>
           RichLeft == i > 1 /\ Len(s.pages[x].keys) > min_keys
           RichRight == i < n /\ Len(s.pages[y].keys) > min_keys
           s0 == fetch(fetch(s, p), c)
           s1 == fetch_any(s0, l)
           s2 == fetch_any(release_any(s1, l), u)
           s3 == release_node(release_node(release_any(s2, u), c), p)
           s4 == visit(s3, p)
<1>1. Tree(s.pages, s.next, s.root, L) /\ s.pages \in [PageIds -> Nodes]
  BY DEF TreeOf, Tree
<1>2. n \in Nat /\ n >= 2
  <2>1. Len(parent.keys) \in Nat
    BY <1>1, NodeFacts
  <2>2. Wide(s.pages, s.next, s.root, L, p, parent) /\ Len(parent.keys) >= 1
    BY <1>1, InternalFacts
  <2>3. n = Len(parent.keys) + 1
    BY <2>2 DEF Wide
  <2> HIDE DEF n
  <2> QED BY <2>1, <2>2, <2>3
<1>3. /\ c \in PageIds
      /\ i > 1 => i - 1 \in 1 .. n - 1 /\ x \in PageIds
      /\ i < n => i \in 1 .. n - 1 /\ y \in PageIds
  <2>1. \A q \in 1 .. n : parent.children[q] \in PageIds
    BY <1>1, NodeFacts
  <2>2. i \in 1 .. n
    OBVIOUS
  <2> HIDE DEF n
  <2>3. /\ i > 1 => i - 1 \in 1 .. n - 1 /\ i - 1 \in 1 .. n
        /\ i < n => i \in 1 .. n - 1 /\ i + 1 \in 1 .. n
    BY <1>2, <2>2
  <2> QED BY <2>1, <2>2, <2>3
<1>4. r = IF RichLeft THEN Settled(BorrowLeft(s1, p, i))
          ELSE IF RichRight THEN Settled(BorrowRight(s2, p, i))
          ELSE IF i > 1 THEN merge_nodes(s3, p, i - 1)
          ELSE IF n = 1 THEN Settled(s4)
          ELSE merge_nodes(s4, p, i)
  BY DEF RebalanceOnce, read_node
<1> HIDE DEF s0, s1, s2, s3, s4
<1>5. Holds(s0, b, p, c, None) /\ SameTree(s0, s)
  <2> DEFINE f == fetch(s, p)
  <2>1. Holds(f, b, None, None, p) /\ SameTree(f, s)
    BY FetchHolds
  <2> HIDE DEF f
  <2>2. Holds(f, b, p, None, None) /\ TreeOf(f, L)
    BY <2>1, HoldsAny, SameTreeOf
  <2>3. Holds(fetch(f, c), b, p, None, c) /\ SameTree(fetch(f, c), f)
    BY <1>3, <2>2, FetchHolds
  <2>4. Holds(s0, b, p, None, c) /\ SameTree(s0, f)
    BY <2>3 DEF s0, f
  <2>5. SameTree(s0, s)
    BY <2>1, <2>4 DEF SameTree
  <2> QED BY <2>4, <2>5, HoldsAny
<1>6. /\ SameTree(s1, s)
      /\ i > 1 => Holds(s1, b, p, c, x)
      /\ ~(i > 1) => Holds(s1, b, p, c, None)
  <2>1. TreeOf(s0, L)
    BY <1>5, SameTreeOf
  <2>2. CASE i > 1
    <3>1. s1 = fetch(s0, x)
      BY <2>2 DEF s1, fetch_any
    <3>2. Holds(s1, b, p, c, x) /\ SameTree(s1, s0)
      BY <1>3, <1>5, <2>1, <2>2, <3>1, FetchHolds
    <3> QED BY <1>5, <2>2, <3>2 DEF SameTree
  <2>3. CASE ~(i > 1)
    <3>1. s1 = s0
      BY <2>3 DEF s1, fetch_any
    <3> QED BY <1>5, <2>3, <3>1
  <2> QED BY <2>2, <2>3
<1> DEFINE m == release_any(s1, l)
<1>7. Holds(m, b, p, c, None) /\ SameTree(m, s)
  <2>1. CASE i > 1
    <3>1. m = release_node(s1, x)
      BY <2>1 DEF release_any
    <3>2. Holds(m, b, p, c, None) /\ SameTree(m, s1)
      BY <1>3, <1>6, <2>1, <3>1, ReleaseHolds
    <3> QED BY <1>6, <3>2 DEF SameTree
  <2>2. CASE ~(i > 1)
    <3>1. m = s1
      BY <2>2 DEF release_any
    <3> QED BY <1>6, <2>2, <3>1
  <2> QED BY <2>1, <2>2
<1>8. s2 = fetch_any(m, u)
  BY DEF s2
<1> HIDE DEF m
<1>9. /\ SameTree(s2, s)
      /\ i < n => Holds(s2, b, p, c, y)
      /\ ~(i < n) => Holds(s2, b, p, c, None)
  <2>1. TreeOf(m, L)
    BY <1>7, SameTreeOf
  <2>2. CASE i < n
    <3>1. s2 = fetch(m, y)
      BY <1>8, <2>2 DEF fetch_any
    <3>2. Holds(s2, b, p, c, y) /\ SameTree(s2, m)
      BY <1>3, <1>7, <2>1, <2>2, <3>1, FetchHolds
    <3> QED BY <1>7, <2>2, <3>2 DEF SameTree
  <2>3. CASE ~(i < n)
    <3>1. s2 = m
      BY <1>8, <2>3 DEF fetch_any
    <3> QED BY <1>7, <2>3, <3>1
  <2> QED BY <2>2, <2>3
<1> DEFINE w == release_any(s2, u)
<1>10. Holds(w, b, p, c, None) /\ SameTree(w, s)
  <2>1. CASE i < n
    <3>1. w = release_node(s2, y)
      BY <2>1 DEF release_any
    <3>2. Holds(w, b, p, c, None) /\ SameTree(w, s2)
      BY <1>3, <1>9, <2>1, <3>1, ReleaseHolds
    <3> QED BY <1>9, <3>2 DEF SameTree
  <2>2. CASE ~(i < n)
    <3>1. w = s2
      BY <2>2 DEF release_any
    <3> QED BY <1>9, <2>2, <3>1
  <2> QED BY <2>1, <2>2
<1>11. s3 = release_node(release_node(w, c), p)
  BY DEF s3
<1> HIDE DEF w
<1>12. Holds(s3, b, None, None, None) /\ SameTree(s3, s)
  <2> DEFINE v == release_node(w, c)
  <2>1. Holds(w, b, p, None, c)
    BY <1>10, HoldsAny
  <2>2. Holds(v, b, p, None, None) /\ SameTree(v, w)
    BY <1>3, <2>1, ReleaseHolds
  <2>3. s3 = release_node(v, p)
    BY <1>11
  <2> HIDE DEF v
  <2>4. Holds(v, b, None, None, p)
    BY <2>2, HoldsAny
  <2>5. Holds(s3, b, None, None, None) /\ SameTree(s3, v)
    BY <2>3, <2>4, ReleaseHolds
  <2> QED BY <1>10, <2>2, <2>5 DEF SameTree
<1>13. TreeOf(s1, L) /\ TreeOf(s2, L) /\ TreeOf(s3, L)
  BY <1>6, <1>9, <1>12, SameTreeOf
<1>14. Holds(s4, b, None, None, None) /\ SameTree(s4, s)
  <2>1. Holds(s4, b, None, None, None) /\ SameTree(s4, s3)
    BY <1>12, <1>13, VisitHolds DEF s4
  <2> QED BY <1>12, <2>1 DEF SameTree
<1>15. TreeOf(s4, L)
  BY <1>14, SameTreeOf
<1>16. s1.pages = s.pages /\ s2.pages = s.pages /\ s3.pages = s.pages /\ s4.pages = s.pages
  BY <1>6, <1>9, <1>12, <1>14 DEF SameTree
<1>17. CASE RichLeft
  <2> DEFINE t == BorrowLeft(s1, p, i)
  <2>1. i \in 2 .. n /\ Holds(s1, b, p, c, x)
    BY <1>2, <1>6, <1>17
  <2>2. Mended(t, s1, b, L, c)
    <3>1. t = BorrowLeft(s1, p, i)
      OBVIOUS
    <3> HIDE DEF t
    <3>2. /\ s1.pages[p].node_type # "Leaf" /\ i \in 2 .. Len(s1.pages[p].children)
          /\ c = s1.pages[p].children[i] /\ x = s1.pages[p].children[i - 1]
          /\ Len(s1.pages[c].keys) < min_keys /\ Len(s1.pages[x].keys) > min_keys
      BY <1>16, <1>17, <2>1
    <3>3. x \in PageIds
      BY <1>3, <2>1
    <3> HIDE DEF x
    <3> QED BY <1>3, <1>13, <2>1, <3>1, <3>2, <3>3, BorrowLeftHolds
  <2>3. r = Settled(t)
    BY <1>4, <1>17
  <2> HIDE DEF t
  <2> QED BY <1>6, <2>2, <2>3, MendedSame DEF Settled
<1>18. CASE ~RichLeft /\ RichRight
  <2> DEFINE t == BorrowRight(s2, p, i)
  <2>1. i \in 1 .. n - 1 /\ Holds(s2, b, p, c, y)
    BY <1>2, <1>9, <1>18
  <2>2. Mended(t, s2, b, L, c)
    <3>1. t = BorrowRight(s2, p, i)
      OBVIOUS
    <3> HIDE DEF t
    <3>2. /\ s2.pages[p].node_type # "Leaf" /\ i \in 1 .. Len(s2.pages[p].children) - 1
          /\ c = s2.pages[p].children[i] /\ y = s2.pages[p].children[i + 1]
          /\ Len(s2.pages[c].keys) < min_keys /\ Len(s2.pages[y].keys) > min_keys
      BY <1>16, <1>18, <2>1
    <3>3. y \in PageIds
      BY <1>3, <1>18
    <3> HIDE DEF y
    <3> QED BY <1>3, <1>13, <2>1, <3>1, <3>2, <3>3, BorrowRightHolds
  <2>3. r = Settled(t)
    BY <1>4, <1>18
  <2> HIDE DEF t
  <2> QED BY <1>9, <2>2, <2>3, MendedSame DEF Settled
<1>19. CASE ~RichLeft /\ ~RichRight /\ i > 1
  <2> DEFINE h == i - 1
  <2>1. r = merge_nodes(s3, p, h)
    BY <1>4, <1>19
  <2>2. h \in 1 .. n - 1 /\ h + 1 = i /\ x = parent.children[h] /\ c = parent.children[h + 1]
    BY <1>2, <1>3, <1>19
  <2>3. Len(s.pages[x].keys) <= min_keys /\ Len(s.pages[c].keys) <= min_keys
    <3>1. Len(s.pages[x].keys) \in Nat /\ Len(s.pages[c].keys) \in Nat /\ min_keys \in Nat
      BY <1>1, <1>3, <1>19, NodeFacts, PageFacts
    <3> HIDE DEF x
    <3> QED BY <1>19, <3>1
  <2> HIDE DEF h, x
  <2>4. /\ s3.pages[p].node_type # "Leaf" /\ h \in 1 .. Len(s3.pages[p].children) - 1
        /\ x = s3.pages[p].children[h] /\ c = s3.pages[p].children[h + 1]
        /\ Len(s3.pages[c].keys) < min_keys
        /\ Len(s3.pages[x].keys) <= min_keys /\ Len(s3.pages[c].keys) <= min_keys
    BY <1>16, <2>2, <2>3
  <2>5. r.again = <<>> /\ Mended(r.st, s3, b, L, c)
    BY <1>12, <1>13, <2>1, <2>4, MergeHolds
  <2> QED BY <1>12, <2>5, MendedSame
<1>20. CASE ~RichLeft /\ ~RichRight /\ ~(i > 1)
  <2>1. i < n /\ n # 1
    BY <1>2, <1>20
  <2>2. r = merge_nodes(s4, p, i)
    BY <1>4, <1>20, <2>1
  <2>3. Len(s.pages[y].keys) <= min_keys /\ Len(s.pages[c].keys) <= min_keys
    <3>1. Len(s.pages[y].keys) \in Nat /\ Len(s.pages[c].keys) \in Nat /\ min_keys \in Nat
      BY <1>1, <1>3, <2>1, NodeFacts, PageFacts
    <3> HIDE DEF y
    <3> QED BY <1>20, <2>1, <3>1
  <2>4. y = parent.children[i + 1]
    OBVIOUS
  <2> HIDE DEF y
  <2>5. /\ s4.pages[p].node_type # "Leaf" /\ i \in 1 .. Len(s4.pages[p].children) - 1
        /\ c = s4.pages[p].children[i] /\ y = s4.pages[p].children[i + 1]
        /\ Len(s4.pages[c].keys) < min_keys
        /\ Len(s4.pages[c].keys) <= min_keys /\ Len(s4.pages[y].keys) <= min_keys
    BY <1>3, <1>16, <2>1, <2>3, <2>4
  <2>6. r.again = <<>> /\ Mended(r.st, s4, b, L, c)
    BY <1>14, <1>15, <2>2, <2>5, MergeHolds
  <2> QED BY <1>14, <2>6, MendedSame
<1> QED BY <1>17, <1>18, <1>19, <1>20

\* It does not call itself again.
LEMMA RebalanceStops ==
  ASSUME NEW s, NEW b, NEW L, NEW p \in PageIds,
         Holds(s, b, None, None, None), TreeOf(s, L), s.pages[p].node_type # "Leaf",
         NEW i \in 1 .. Len(s.pages[p].children),
         NEW c, c = s.pages[p].children[i], Len(s.pages[c].keys) < min_keys,
         NEW t, t = rebalance(s, p, i)
  PROVE  t = RebalanceOnce(s, p, i).st
<1> DEFINE r == RebalanceOnce(s, p, i)
           a == <<>>
           f == CHOOSE f : f = [n \in 0 .. MaxPages |->
                   IF n = 0 THEN RebalanceOnce(s, p, i)
                   ELSE LET before == f[n - 1]
                        IN  IF before.again = <<>> THEN before
                            ELSE RebalanceOnce(before.st, before.again[1], before.again[2])]
           T == {n \in 0 .. MaxPages : f[n] = r}
<1>1. r.again = <<>>
  <2>1. r = RebalanceOnce(s, p, i)
    OBVIOUS
  <2> HIDE DEF r
  <2> QED BY <2>1, RebalanceOnceHolds
<1>2. t = f[MaxPages].st
  BY DEF rebalance
<1>3. f = [n \in 0 .. MaxPages |-> IF n = 0 THEN r ELSE Again(f[n - 1])]
  <2>1. \E g : Steps(g, MaxPages, "Round", a, r)
    BY PageFacts, StepsExist
  <2>2. PICK g : g = [n \in 0 .. MaxPages |-> IF n = 0 THEN r ELSE Step("Round", a, n, g[n - 1])]
    BY <2>1 DEF Steps
  <2>3. \A n, x : Step("Round", a, n, x) = Again(x)
    BY DEF Step
  <2> HIDE DEF r
  <2>4. g = [n \in 0 .. MaxPages |-> IF n = 0 THEN r ELSE Again(g[n - 1])]
    BY <2>2, <2>3
  <2>5. f = CHOOSE h : h = [n \in 0 .. MaxPages |-> IF n = 0 THEN r ELSE Again(h[n - 1])]
    BY DEF Again, r
  <2> HIDE DEF f
  <2> QED BY <2>4, <2>5
<1> HIDE DEF f, r
<1>4. MaxPages \in Nat
  BY PageFacts
<1>5. 0 \in T
  BY <1>3, <1>4
<1>6. ASSUME NEW n \in 1 .. MaxPages, n - 1 \in T PROVE n \in T
  <2>1. f[n] = Again(f[n - 1]) /\ f[n - 1] = r /\ n \in 0 .. MaxPages
    BY <1>3, <1>4, <1>6
  <2>2. Again(r) = r
    BY <1>1 DEF Again
  <2> QED BY <2>1, <2>2
<1>7. MaxPages \in T
  <2>1. \A n \in 1 .. MaxPages : n - 1 \in T => n \in T
    BY <1>6
  <2>2. MaxPages \in 0 .. MaxPages
    BY <1>4
  <2> HIDE DEF T
  <2>3. \A n \in 0 .. MaxPages : n \in T
    BY ONLY <1>4, <1>5, <2>1, UpTo
  <2> QED BY ONLY <2>2, <2>3
<1> QED BY <1>2, <1>7 DEF r

LEMMA RebalanceHolds ==
  ASSUME NEW s, NEW b, NEW L, NEW p \in PageIds,
         Holds(s, b, None, None, None), TreeOf(s, L), s.pages[p].node_type # "Leaf",
         NEW i \in 1 .. Len(s.pages[p].children),
         NEW c, c = s.pages[p].children[i], Len(s.pages[c].keys) < min_keys,
         NEW t, t = rebalance(s, p, i)
  PROVE  Mended(t, s, b, L, c)
<1> DEFINE r == RebalanceOnce(s, p, i)
<1>1. Mended(r.st, s, b, L, c)
  <2>1. r = RebalanceOnce(s, p, i)
    OBVIOUS
  <2> HIDE DEF r
  <2> QED BY <2>1, RebalanceOnceHolds
<1>2. t = r.st
  BY RebalanceStops
<1> QED BY <1>1, <1>2

\* One child at most needs help.
LEMMA UnderflowHolds ==
  ASSUME NEW s, NEW b, NEW L, NEW p \in PageIds,
         Holds(s, b, None, None, None), TreeOf(s, L), s.pages[p].node_type # "Leaf",
         NEW q, q \in Kids(s.pages[p]), NEW t, t = handle_underflow(s, p)
  PROVE  Mended(t, s, b, L, q)
<1> DEFINE children == s.pages[p].children
           short == {i \in DOMAIN children :
                       /\ s.pages[children[i]].parent # None
                       /\ Len(s.pages[children[i]].keys) < min_keys}
           Seen(n) == release_node(visit_each(fetch(s, p), SubSeq(children, 1, n)), p)
<1>1. Tree(s.pages, s.next, s.root, L) /\ s.pages \in [PageIds -> Nodes] /\ s.merges \in Nat
  BY DEF TreeOf, Tree, Holds, States
<1>2. /\ children \in Seq(PageIds) /\ Len(children) \in Nat /\ DOMAIN children = 1 .. Len(children)
      /\ \A i \in 1 .. Len(children) : children[i] \in PageIds
  BY <1>1, NodeFacts
<1>3. t = IF short = {} THEN Seen(Len(children))
          ELSE rebalance(Seen(First(short)), p, First(short))
  BY DEF handle_underflow, read_node
<1>4. ASSUME NEW n \in 0 .. Len(children)
      PROVE  Holds(Seen(n), b, None, None, None) /\ SameTree(Seen(n), s)
  <2> DEFINE f == fetch(s, p)
             ps == SubSeq(children, 1, n)
             v == visit_each(f, ps)
  <2>1. Holds(f, b, None, None, p) /\ SameTree(f, s)
    BY FetchHolds
  <2>2. Holds(f, b, p, None, None) /\ TreeOf(f, L)
    BY <2>1, HoldsAny, SameTreeOf
  <2>3. ps \in Seq(PageIds)
    BY <1>2, SubSeqProperties
  <2> HIDE DEF f, ps
  <2>4. Holds(v, b, p, None, None) /\ SameTree(v, f)
    BY <2>2, <2>3, VisitEachHolds
  <2>5. Seen(n) = release_node(v, p)
    BY DEF f, ps
  <2> HIDE DEF v, Seen
  <2>6. Holds(v, b, None, None, p)
    <3>1. Holds(v, b, None, p, None)
      BY <2>4, HoldsAny
    <3> QED BY <3>1, HoldsAny
  <2>7. Holds(Seen(n), b, None, None, None) /\ SameTree(Seen(n), v)
    BY <2>5, <2>6, ReleaseHolds
  <2>8. SameTree(Seen(n), s)
    BY <2>1, <2>4, <2>7 DEF SameTree
  <2> QED BY <2>7, <2>8
<1> HIDE DEF Seen
<1>5. CASE short = {}
  <2>1. Holds(t, b, None, None, None) /\ SameTree(t, s)
    BY <1>2, <1>3, <1>4, <1>5
  <2>2. TreeOf(t, L)
    BY <2>1, SameTreeOf
  <2>3. ASSUME Strict(s.pages, s.root, {q})
        PROVE  Strict(s.pages, s.root, {})
    <3>1. PICK i \in 1 .. Len(children) : q = children[i]
      BY DEF Kids
    <3>2. s.pages[q].parent = p
      BY <2>3, <3>1 DEF Strict, StrictAt
    <3>3. q \in PageIds /\ p # None
      BY <1>2, <3>1, PageFacts
    <3>4. ~(Len(s.pages[q].keys) < min_keys)
      BY <1>2, <1>5, <3>1, <3>2, <3>3
    <3>5. Len(s.pages[q].keys) >= min_keys
      BY <1>1, <3>3, <3>4, NodeFacts, PageFacts
    <3>6. ASSUME NEW g \in PageIds PROVE StrictAt(s.pages, g, {})
      <4>1. StrictAt(s.pages, g, {q})
        BY <2>3 DEF Strict
      <4> QED BY <3>5, <4>1 DEF StrictAt
    <3>7. s.root # None => s.pages[s.root].parent = None
      BY <2>3 DEF Strict
    <3> QED BY <3>6, <3>7 DEF Strict
  <2>4. t.pages = s.pages /\ t.root = s.root /\ t.next = s.next /\ t.merges = s.merges
    BY <2>1 DEF SameTree
  <2> QED BY <1>1, <2>1, <2>2, <2>3, <2>4 DEF Mended
<1>6. CASE short # {}
  <2> DEFINE i == First(short)
             c == children[i]
             m == Seen(i)
  <2>1. i \in short
    <3>1. short \in SUBSET Nat
      BY <1>2
    <3> HIDE DEF short
    <3> QED BY <1>6, <3>1, FirstSpec
  <2>2. i \in 1 .. Len(children) /\ Len(s.pages[c].keys) < min_keys /\ c \in PageIds
    BY <1>2, <2>1
  <2>3. t = rebalance(m, p, i)
    BY <1>3, <1>6
  <2> HIDE DEF i
  <2>4. Holds(m, b, None, None, None) /\ SameTree(m, s)
    BY <1>2, <1>4, <2>2
  <2> HIDE DEF m
  <2>5. TreeOf(m, L) /\ m.pages = s.pages
    BY <2>4, SameTreeOf DEF SameTree
  <2>6. Mended(t, m, b, L, c)
    <3>1. /\ m.pages[p].node_type # "Leaf" /\ i \in 1 .. Len(m.pages[p].children)
          /\ c = m.pages[p].children[i] /\ Len(m.pages[c].keys) < min_keys
      BY <2>2, <2>5
    <3> HIDE DEF c
    <3> QED BY <2>3, <2>4, <2>5, <3>1, RebalanceHolds
  <2>7. Mended(t, s, b, L, c)
    BY <2>4, <2>6, MendedSame
  <2>8. Strict(s.pages, s.root, {q}) => c = q
    <3>1. Strict(s.pages, s.root, {q}) => c = q \/ Len(s.pages[c].keys) >= min_keys
      BY <2>2 DEF Strict, StrictAt
    <3>2. Len(s.pages[c].keys) \in Nat /\ min_keys \in Nat
      BY <1>1, <2>2, NodeFacts, PageFacts
    <3>3. ~(Len(s.pages[c].keys) >= min_keys)
      BY <2>2, <3>2
    <3> QED BY <3>1, <3>3
  <2> HIDE DEF c
  <2> QED BY <2>7, <2>8 DEF Mended
<1> QED BY <1>5, <1>6

\* What remove_recursive returns.
Result(r) == \E st, removed : r = [st |-> st, removed |-> removed]

LEMMA RepairedResult ==
  ASSUME NEW r, Result(r), NEW p
  PROVE  /\ Result(Repaired(r, p))
         /\ Repaired(r, p).st = IF r.removed THEN handle_underflow(r.st, p) ELSE r.st
<1>1. PICK st, removed : r = [st |-> st, removed |-> removed]
  BY DEF Result
<1> DEFINE m == handle_underflow(st, p)
<1>2. r.st = st /\ r.removed = removed
  BY <1>1
<1>3. [r EXCEPT !.st = handle_underflow(r.st, p)] = [r EXCEPT !.st = m]
  BY <1>2
<1> HIDE DEF m
<1>4. [r EXCEPT !.st = m] = [st |-> m, removed |-> removed]
  BY <1>1
<1>5. CASE r.removed
  <2> DEFINE u == Repaired(r, p)
  <2>1. u = [st |-> m, removed |-> removed]
    BY <1>3, <1>4, <1>5 DEF Repaired
  <2> HIDE DEF u
  <2>2. u.st = m /\ Result(u)
    BY <2>1 DEF Result
  <2>3. m = handle_underflow(r.st, p)
    BY <1>2 DEF m
  <2> QED BY <1>5, <2>2, <2>3 DEF u
<1>6. CASE ~r.removed
  BY <1>6 DEF Repaired
<1> QED BY <1>5, <1>6

\* What taking a key from the leaf p does.
Taken(r, s, b, L, p) ==
  /\ Result(r)
  /\ Holds(r.st, b, None, None, None)
  /\ TreeOf(r.st, L)
  /\ SameRoot(r.st, s)
  /\ \A q \in PageIds : q # p => r.st.pages[q] = s.pages[q]
  /\ Len(r.st.pages[p].keys) >= Len(s.pages[p].keys) - 1
  /\ Strict(s.pages, s.root, {}) => Strict(r.st.pages, r.st.root, {p})
  /\ r.removed \/ SameTree(r.st, s)

LEMMA TakeFromLeafHolds ==
  ASSUME NEW s, NEW b, NEW L, NEW p \in PageIds,
         Holds(s, b, None, None, None), TreeOf(s, L), p < s.next,
         s.pages[p].node_type = "Leaf", NEW k, NEW r, r = TakeFromLeaf(s, p, k)
  PROVE  Taken(r, s, b, L, p)
<1> DEFINE node == s.pages[p]
           hits == PositionsOf(node.keys, k)
           i == First(hits)
           ks == RemoveAt(node.keys, i)
           vs == RemoveAt(node.values, i)
           fewer == [node EXCEPT !.keys = ks, !.values = vs]
           f == fetch(s, p)
           t == Done(f, p, fewer)
<1>1. Tree(s.pages, s.next, s.root, L) /\ s.pages \in [PageIds -> Nodes]
  BY DEF TreeOf, Tree
<1>2. /\ node \in Nodes /\ LeafNode(node) /\ Len(node.keys) <= max_keys
      /\ node.keys \in Seq(Nat) /\ node.values \in Seq(Nat) /\ Len(node.keys) \in Nat
      /\ Len(node.values) = Len(node.keys)
  BY <1>1, LeafFacts, NodeFacts DEF LeafNode, Nodes
<1>3. CASE hits = {}
  <2> DEFINE u == visit(s, p)
  <2>1. r.st = u
    BY <1>3 DEF TakeFromLeaf, read_node
  <2>2. Holds(u, b, None, None, None) /\ SameTree(u, s)
    BY VisitHolds
  <2> HIDE DEF u
  <2>3. TreeOf(u, L) /\ u.pages = s.pages /\ SameRoot(u, s) /\ u.root = s.root
    BY <2>2, SameTreeOf DEF SameTree, SameRoot
  <2>4. Strict(s.pages, s.root, {}) => Strict(s.pages, s.root, {p})
    BY DEF Strict, StrictAt
  <2>5. Len(s.pages[p].keys) >= Len(s.pages[p].keys) - 1
    <3> DEFINE n == Len(node.keys)
    <3>1. n \in Nat
      BY <1>2
    <3> HIDE DEF n
    <3>2. n >= n - 1
      BY <3>1
    <3> QED BY <3>2 DEF n
  <2>6. Result(r)
    <3>1. r = [st |-> visit(s, p), removed |-> FALSE]
      BY <1>3 DEF TakeFromLeaf, read_node
    <3> QED BY <3>1 DEF Result
  <2> QED BY <2>1, <2>2, <2>3, <2>4, <2>5, <2>6 DEF Taken
<1>4. CASE hits # {}
  <2>1. i \in 1 .. Len(node.keys) /\ i \in 1 .. Len(node.values)
    <3>1. DOMAIN node.keys = 1 .. Len(node.keys)
      BY <1>2
    <3>2. hits \in SUBSET Nat /\ hits \subseteq 1 .. Len(node.keys)
      BY <3>1 DEF PositionsOf
    <3>3. i \in hits
      <4> HIDE DEF hits
      <4> QED BY <1>4, <3>2, FirstSpec
    <3> QED BY <1>2, <3>2, <3>3
  <2>2. r = [st |-> t, removed |-> TRUE]
    BY <1>4 DEF TakeFromLeaf, read_node
  <2> HIDE DEF i
  <2>3. /\ ks \in Seq(Nat) /\ Len(ks) = Len(node.keys) - 1
        /\ vs \in Seq(Nat) /\ Len(vs) = Len(ks)
    <3>1. ks \in Seq(Nat) /\ RemovedAt(ks, node.keys, i)
      BY <1>2, <2>1, RemoveAtSpec
    <3>2. vs \in Seq(Nat) /\ RemovedAt(vs, node.values, i)
      BY <1>2, <2>1, RemoveAtSpec
    <3> QED BY <1>2, <3>1, <3>2 DEF RemovedAt
  <2> HIDE DEF ks, vs
  <2>4. LeafWith(fewer, node, Len(ks))
    <3>1. fewer = [node EXCEPT !.keys = ks, !.values = vs]
      OBVIOUS
    <3> HIDE DEF fewer, node
    <3> QED BY <1>2, <2>3, <3>1, LeafMade
  <2> HIDE DEF fewer
  <2>5. /\ LeafNode(fewer) /\ fewer \in Nodes /\ deserialize(fewer) = fewer
        /\ fewer.parent = node.parent /\ Len(fewer.keys) = Len(node.keys) - 1
    <3>1. LeafNode(fewer) /\ fewer \in Nodes /\ Whole(fewer) /\ Len(fewer.keys) = Len(ks)
          /\ fewer.parent = node.parent
      BY <2>4 DEF LeafWith, LeafNode, Whole
    <3> QED BY <2>3, <3>1, ReadsBack
  <2>6. Holds(f, b, None, None, p) /\ SameTree(f, s)
    BY FetchHolds
  <2> HIDE DEF f
  <2>7. t = Done(f, p, fewer)
    OBVIOUS
  <2> HIDE DEF t
  <2>8. Holds(t, b, None, None, None)
    BY <2>5, <2>6, <2>7, DoneHolds
  <2>9. Wrote(t.pages, s.pages, p, fewer)
    <3>1. Wrote(t.pages, f.pages, p, fewer)
      BY <2>5, <2>6, <2>7, DoneHolds
    <3> QED BY <2>6, <3>1 DEF SameTree
  <2>10. SameRoot(t, s)
    <3>1. SameRoot(t, f)
      BY <2>5, <2>6, <2>7, DoneHolds
    <3> QED BY <2>6, <3>1 DEF SameTree, SameRoot
  <2>11. Len(fewer.keys) <= max_keys /\ Len(fewer.keys) >= Len(node.keys) - 1
    <3> DEFINE n == Len(node.keys)
               m == Len(fewer.keys)
    <3>1. n \in Nat /\ n <= max_keys /\ m = n - 1 /\ max_keys \in Nat
      BY <1>2, <2>5, PageFacts
    <3> HIDE DEF n, m
    <3>2. m <= max_keys /\ m >= n - 1
      BY <3>1
    <3> QED BY <3>2 DEF n, m
  <2>12. Tree(t.pages, s.next, s.root, L)
    <3>1. LeafOver(fewer, s.pages[p])
      BY <2>5, <2>11 DEF LeafOver
    <3> QED BY <1>1, <2>9, <3>1, LeafOverTree
  <2>13. TreeOf(t, L)
    BY <2>10, <2>12 DEF TreeOf, SameRoot
  <2>14. Strict(s.pages, s.root, {}) => Strict(t.pages, s.root, {p})
    <3> DEFINE E == {}
               P == {p}
    <3>1. (\A q \in E : q \in P \/ q = p) /\ p \in P
      OBVIOUS
    <3> HIDE DEF E, P
    <3>2. Strict(s.pages, s.root, E) => Strict(t.pages, s.root, P)
      BY <1>1, <2>5, <2>9, <3>1, LeafStrict
    <3> QED BY <3>2 DEF E, P
  <2>15. /\ \A q \in PageIds : q # p => t.pages[q] = s.pages[q]
         /\ t.pages[p] = fewer
    BY <1>1, <2>9 DEF Wrote
  <2>16. r.st = t /\ r.removed /\ Result(r)
    <3>1. r.st = t /\ r.removed
      BY <2>2
    <3>2. Result(r)
      BY <2>2 DEF Result
    <3> QED BY <3>1, <3>2
  <2>17. t.root = s.root
    BY <2>10 DEF SameRoot
  <2> QED BY <2>8, <2>10, <2>11, <2>13, <2>14, <2>15, <2>16, <2>17 DEF Taken
<1> QED BY <1>3, <1>4

\* What a call of remove_recursive does for a page above the leaf.
Trimmed(t, s, b, L) ==
  /\ Holds(t, b, None, None, None)
  /\ TreeOf(t, L)
  /\ t.root = s.root /\ t.next = s.next
  /\ t.merges \in Nat /\ t.merges >= s.merges
  /\ t.merges = 0 /\ Strict(s.pages, s.root, {}) => Strict(t.pages, t.root, {})

\* The leaf's parent sees to it; further up there is nothing left to do.
LEMMA RepairedLeaf ==
  ASSUME NEW s, NEW b, NEW L, TreeOf(s, L), s.merges \in Nat,
         NEW p \in PageIds, s.pages[p].node_type # "Leaf", NEW c, c \in Kids(s.pages[p]),
         NEW r, Taken(r, s, b, L, c), NEW u, u = Repaired(r, p)
  PROVE  Result(u) /\ Trimmed(u.st, s, b, L)
<1> DEFINE t == r.st
<1>1. /\ Tree(s.pages, s.next, s.root, L) /\ s.pages \in [PageIds -> Nodes]
      /\ Tree(t.pages, t.next, t.root, L) /\ t.pages \in [PageIds -> Nodes]
      /\ Holds(t, b, None, None, None) /\ TreeOf(t, L)
      /\ t.root = s.root /\ t.next = s.next /\ t.merges = s.merges
  BY DEF TreeOf, Tree, Taken, SameRoot
<1>2. c \in PageIds
  <2>1. PICK i \in 1 .. Len(s.pages[p].children) : c = s.pages[p].children[i]
    BY DEF Kids
  <2> QED BY <1>1, <2>1, NodeFacts
<1>3. Strict(s.pages, s.root, {}) => Len(s.pages[c].keys) >= min_keys
  BY DEF Strict, StrictAt, Kids
<1>4. Strict(s.pages, s.root, {}) => Len(t.pages[c].keys) >= min_keys - 1
  <2> DEFINE n == Len(s.pages[c].keys)
             m == Len(t.pages[c].keys)
  <2>1. n \in Nat /\ m \in Nat /\ min_keys \in Nat /\ m >= n - 1
    BY <1>1, <1>2, NodeFacts, PageFacts DEF Taken
  <2> HIDE DEF n, m
  <2>2. n >= min_keys => m >= min_keys - 1
    BY <2>1
  <2> QED BY <1>3, <2>2 DEF n, m
<1>5. t.merges >= s.merges
  BY <1>1
<1>0. Result(u) /\ u.st = IF r.removed THEN handle_underflow(t, p) ELSE t
  BY RepairedResult DEF Taken
<1>6. CASE ~r.removed
  <2>1. u.st = t
    BY <1>0, <1>6
  <2>2. t.pages = s.pages
    BY <1>6 DEF Taken, SameTree
  <2> HIDE DEF t
  <2> QED BY <1>0, <1>1, <1>5, <2>1, <2>2 DEF Trimmed
<1>7. CASE r.removed
  <2> DEFINE m == handle_underflow(t, p)
  <2>1. u.st = m
    BY <1>0, <1>7
  <2>2. t.pages[p].node_type # "Leaf"
    <3>1. L[p] # 0
      <4>1. 0 < L[p]
        BY <1>1, InternalFacts
      <4> QED BY <4>1
    <3> QED BY <1>1, <3>1, LeafFacts
  <2>3. c \in Kids(t.pages[p])
    <3>1. p # c
      <4>1. PICK i \in 1 .. Len(s.pages[p].children) : c = s.pages[p].children[i]
        BY DEF Kids
      <4>2. L[c] = L[p] - 1 /\ L[p] \in Nat
        BY <1>1, <4>1, InternalFacts DEF Wide, Tree
      <4> QED BY <4>2
    <3>2. t.pages[p] = s.pages[p]
      BY <3>1 DEF Taken
    <3> QED BY <3>2
  <2>4. Mended(m, t, b, L, c)
    <3>1. m = handle_underflow(t, p)
      OBVIOUS
    <3> HIDE DEF m, t
    <3> QED BY <1>1, <2>2, <2>3, <3>1, UnderflowHolds
  <2>5. Strict(s.pages, s.root, {}) => Strict(t.pages, t.root, {c})
    BY DEF Taken
  <2> HIDE DEF m, t
  <2>6. Trimmed(m, s, b, L)
    BY <1>1, <1>4, <2>4, <2>5 DEF Mended, Trimmed
  <2> QED BY <1>0, <2>1, <2>6
<1> QED BY <1>6, <1>7

LEMMA RepairedAbove ==
  ASSUME NEW s, NEW b, NEW L, TreeOf(s, L), s.merges \in Nat,
         NEW p \in PageIds, s.pages[p].node_type # "Leaf",
         NEW r, Result(r), Trimmed(r.st, s, b, L), NEW u, u = Repaired(r, p)
  PROVE  Result(u) /\ Trimmed(u.st, s, b, L)
<1> DEFINE t == r.st
           m == handle_underflow(t, p)
<1>1. Result(u) /\ u.st = IF r.removed THEN m ELSE t
  BY RepairedResult
<1>2. CASE ~r.removed
  BY <1>1, <1>2
<1>3. CASE r.removed
  <2>1. /\ Holds(t, b, None, None, None) /\ TreeOf(t, L)
        /\ Tree(t.pages, t.next, t.root, L) /\ Tree(s.pages, s.next, s.root, L)
    BY DEF Trimmed, TreeOf
  <2>2. t.pages[p].node_type # "Leaf"
    <3>1. 0 < L[p] /\ L[p] # 0
      BY <2>1, InternalFacts
    <3> QED BY <2>1, <3>1, LeafFacts
  <2>3. Len(t.pages[p].keys) \in Nat /\ Len(t.pages[p].keys) >= 1
        /\ Len(t.pages[p].children) = Len(t.pages[p].keys) + 1
    <3>1. t.pages \in [PageIds -> Nodes]
      BY <2>1 DEF Tree
    <3> QED BY <2>1, <2>2, <3>1, NodeFacts, InternalFacts DEF Wide
  <2> DEFINE q == t.pages[p].children[1]
  <2>4. q \in Kids(t.pages[p]) /\ q \in PageIds
    <3>1. 1 \in 1 .. Len(t.pages[p].children)
      BY <2>3
    <3>2. t.pages \in [PageIds -> Nodes]
      BY <2>1 DEF Tree
    <3> HIDE DEF t
    <3> QED BY <3>1, <3>2, NodeFacts DEF Kids
  <2>5. m = handle_underflow(t, p)
    OBVIOUS
  <2> HIDE DEF m, q
  <2>6. Mended(m, t, b, L, q)
    BY <2>1, <2>2, <2>4, <2>5, UnderflowHolds
  <2>7. Strict(t.pages, t.root, {}) => Strict(t.pages, t.root, {q}) /\ Len(t.pages[q].keys) >= min_keys
    BY <2>2, <2>4 DEF Strict, StrictAt, Kids
  <2>8. Len(t.pages[q].keys) >= min_keys => Len(t.pages[q].keys) >= min_keys - 1
    <3> DEFINE n == Len(t.pages[q].keys)
    <3>1. n \in Nat /\ min_keys \in Nat
      BY <2>1, <2>4, NodeFacts, PageFacts DEF Tree
    <3> HIDE DEF n
    <3>2. n >= min_keys => n >= min_keys - 1
      BY <3>1
    <3> QED BY <3>2 DEF n
  <2>9. /\ t.root = s.root /\ t.next = s.next /\ t.merges \in Nat /\ t.merges >= s.merges
        /\ t.merges = 0 /\ Strict(s.pages, s.root, {}) => Strict(t.pages, t.root, {})
    BY DEF Trimmed
  <2> HIDE DEF t
  <2>10. Trimmed(m, s, b, L)
    <3>1. m.merges \in Nat /\ m.merges >= s.merges /\ (m.merges = 0 => t.merges = 0)
      <4>1. m.merges \in Nat /\ m.merges >= t.merges
        BY <2>6 DEF Mended
      <4> QED BY <2>9, <4>1
    <3> QED BY <2>6, <2>7, <2>8, <2>9, <3>1 DEF Mended, Trimmed
  <2> QED BY <1>1, <1>3, <2>10
<1> QED BY <1>2, <1>3

LEMMA RemoveRecursiveHolds ==
  ASSUME NEW s, NEW b, NEW L, Holds(s, b, None, None, None), TreeOf(s, L),
         NEW root \in PageIds, root = s.root, NEW k \in Nat,
         NEW r, r = remove_recursive(s, root, k)
  PROVE  Trimmed(r.st, s, b, L)
<1> DEFINE path == Path(s, root, k)
           leaf == path[Len(path)]
           h == Len(path) - 1
           m == visit_each(s, Front(path))
           f == CHOOSE f : f = [n \in 0 .. h |->
                  IF n = 0 THEN TakeFromLeaf(visit_each(s, Front(path)), Last(path), k)
                  ELSE Repaired(f[n - 1], path[h + 1 - n])]
           Good(n) == IF n = 0 THEN Taken(f[0], s, b, L, leaf)
                      ELSE Result(f[n]) /\ Trimmed(f[n].st, s, b, L)
           T == {n \in 0 .. h : Good(n)}
<1>1. root < s.next /\ s.merges \in Nat
  <2>1. RootOK(s.pages, s.next, s.root) /\ s.root # None
    BY PageFacts DEF TreeOf, Tree
  <2> QED BY <2>1 DEF RootOK, Holds, States
<1>2. /\ Descends(path, s, L, root)
      /\ Len(path) = L[root] + 1
      /\ s.pages[leaf].node_type = "Leaf"
  <2>1. path = Path(s, root, k)
    OBVIOUS
  <2> HIDE DEF path
  <2> QED BY <1>1, <2>1, PathDescends
<1>3. /\ path \in Seq(PageIds) /\ Len(path) \in Nat /\ Len(path) >= 1
      /\ path[1] = root /\ Last(path) = leaf /\ leaf \in PageIds /\ leaf < s.next
      /\ Front(path) \in Seq(PageIds)
  <2> HIDE DEF path
  <2>1. path \in Seq(PageIds) /\ Len(path) \in Nat /\ Len(path) >= 1 /\ path[1] = root
    BY <1>2 DEF Descends
  <2>2. Last(path) = leaf /\ leaf \in PageIds
    BY <2>1, LastOf
  <2>3. leaf < s.next
    BY <1>2, <2>1 DEF Descends
  <2> QED BY <2>1, <2>2, <2>3, FrontOf
<1>6. r = f[h]
  BY DEF remove_recursive
<1> HIDE DEF path
<1>4. /\ h \in Nat /\ h + 1 = Len(path)
      /\ \A n \in 1 .. h : /\ h + 1 - n \in 1 .. Len(path) - 1 /\ h + 1 - n \in 1 .. Len(path)
                           /\ h + 1 - n + 1 = Len(path) \/ n # 1
  BY <1>3
<1>5. Holds(m, b, None, None, None) /\ SameTree(m, s) /\ TreeOf(m, L)
  <2>1. Holds(m, b, None, None, None) /\ SameTree(m, s)
    BY <1>3, VisitEachHolds, PageFacts DEF PageOrNone
  <2> QED BY <2>1, SameTreeOf
<1> HIDE DEF h, m
<1>7. /\ f[0] = TakeFromLeaf(m, leaf, k)
      /\ \A n \in 1 .. h : f[n] = Repaired(f[n - 1], path[h + 1 - n])
  <2> HIDE DEF f
  <2>1. PICK g : Steps(g, h, "Remove", <<path, h>>, TakeFromLeaf(m, leaf, k))
    BY <1>4, StepsExist
  <2>2. g = [n \in 0 .. h |-> IF n = 0 THEN TakeFromLeaf(m, leaf, k)
                              ELSE Step("Remove", <<path, h>>, n, g[n - 1])]
    BY <2>1 DEF Steps
  <2>3. \A n : Step("Remove", <<path, h>>, n, g[n - 1]) = Repaired(g[n - 1], path[h + 1 - n])
    BY DEF Step
  <2>4. g = [n \in 0 .. h |-> IF n = 0 THEN TakeFromLeaf(m, leaf, k)
                              ELSE Repaired(g[n - 1], path[h + 1 - n])]
    BY <2>2, <2>3
  <2>5. f = [n \in 0 .. h |-> IF n = 0 THEN TakeFromLeaf(m, leaf, k)
                              ELSE Repaired(f[n - 1], path[h + 1 - n])]
    BY <1>3, <2>4 DEF f, m
  <2> QED BY <1>4, <2>5
<1> HIDE DEF f
<1>8. 0 \in T
  <2>1. m.pages = s.pages /\ m.next = s.next /\ m.root = s.root /\ m.merges = s.merges
    BY <1>5 DEF SameTree
  <2> DEFINE u == f[0]
  <2>2. u = TakeFromLeaf(m, leaf, k)
    BY <1>7
  <2> HIDE DEF u, leaf
  <2>3. Taken(u, m, b, L, leaf)
    BY <1>2, <1>3, <1>5, <2>1, <2>2, TakeFromLeafHolds
  <2>4. Taken(u, s, b, L, leaf)
    BY <2>1, <2>3 DEF Taken, SameRoot, SameTree
  <2> QED BY <1>4, <2>4 DEF u
<1>9. ASSUME NEW n \in 1 .. h, n - 1 \in T PROVE n \in T
  <2> DEFINE p == path[h + 1 - n]
             u == f[n]
             w == f[n - 1]
  <2>1. p \in PageIds /\ s.pages[p].node_type # "Leaf"
    BY <1>2, <1>3, <1>4 DEF Descends
  <2>2. u = Repaired(w, p)
    BY <1>7
  <2>3. n # 0 /\ n \in 0 .. h /\ n \in 1 .. h
    BY <1>4
  <2>4. CASE n = 1
    <3>1. leaf \in Kids(s.pages[p])
      BY <1>2, <1>4, <2>4 DEF Descends
    <3>2. Taken(w, s, b, L, leaf)
      BY <1>9, <2>4
    <3> HIDE DEF u, w, p, leaf
    <3>3. Result(u) /\ Trimmed(u.st, s, b, L)
      BY <1>1, <2>1, <2>2, <3>1, <3>2, RepairedLeaf
    <3> QED BY <2>3, <3>3 DEF u
  <2>5. CASE n # 1
    <3>1. n - 1 # 0
      BY <2>5
    <3>2. Result(w) /\ Trimmed(w.st, s, b, L)
      BY <1>9, <3>1
    <3> HIDE DEF u, w, p
    <3>3. Result(u) /\ Trimmed(u.st, s, b, L)
      BY <1>1, <2>1, <2>2, <3>2, RepairedAbove
    <3> QED BY <2>3, <3>3 DEF u
  <2> QED BY <2>4, <2>5
<1>10. h \in T
  <2>1. h \in 0 .. h
    BY <1>4
  <2> HIDE DEF T
  <2> QED BY <1>4, <1>8, <1>9, <2>1, UpTo
<1>11. CASE h # 0
  BY <1>6, <1>10, <1>11
<1>12. CASE h = 0
  <2>1. Taken(r, s, b, L, leaf) /\ leaf = s.root
    <3>1. Good(0)
      BY <1>10, <1>12
    <3>2. Taken(f[0], s, b, L, leaf) /\ r = f[0]
      BY <1>6, <1>12, <3>1
    <3>3. Len(path) = 1
      BY <1>4, <1>12
    <3>4. leaf = s.root
      BY <1>3, <3>3
    <3> HIDE DEF leaf, Good
    <3> QED BY <3>2, <3>4
  <2> DEFINE t == r.st
  <2>2. /\ Holds(t, b, None, None, None) /\ TreeOf(t, L)
        /\ t.root = s.root /\ t.next = s.next /\ t.merges = s.merges
        /\ Strict(s.pages, s.root, {}) => Strict(t.pages, t.root, {leaf})
    BY <2>1 DEF Taken, SameRoot
  <2>3. t.merges \in Nat /\ t.merges >= s.merges
    BY <1>1, <2>2
  <2> HIDE DEF t, leaf
  <2>4. Strict(t.pages, t.root, {leaf}) => Strict(t.pages, t.root, {})
    <3>1. Tree(t.pages, t.next, t.root, L)
      BY <2>2 DEF TreeOf
    <3>2. \A q \in PageIds : t.pages[q].node_type # "Leaf" =>
             \A i \in 1 .. Len(t.pages[q].children) : t.pages[q].children[i] # leaf
      BY <2>1, <2>2, <3>1, InternalFacts DEF Wide
    <3> QED BY <3>2 DEF Strict, StrictAt
  <2> QED BY <2>2, <2>3, <2>4 DEF Trimmed, t
<1> QED BY <1>11, <1>12

\* An empty leaf is all there was to a tree without a root.
LEMMA ShrunkKept ==
  ASSUME NEW s, NEW b, NEW L, Holds(s, b, None, None, None), TreeOf(s, L),
         s.root \in PageIds, NEW t, t = Shrunk(s)
  PROVE  Kept(t, s, b)
<1> DEFINE root == s.root
           node == s.pages[root]
           e == [s EXCEPT !.root = None]
           v == save_metadata(e)
<1>1. Tree(s.pages, s.next, s.root, L) /\ s.pages \in [PageIds -> Nodes]
      /\ s \in States /\ s.merges \in Nat /\ s.merges >= s.merges
  BY DEF TreeOf, Tree, Holds, States
<1>2. node \in Nodes /\ node.keys \in Seq(Nat) /\ Len(node.keys) \in Nat
  BY <1>1, NodeFacts
<1>3. CASE node.keys # <<>>
  <2>1. t = s
    BY <1>3 DEF Shrunk, read_node
  <2> QED BY <1>1, <2>1 DEF Kept
<1>4. CASE node.keys = <<>>
  <2>1. node.node_type = "Leaf"
    <3>1. Len(node.keys) = 0
      BY <1>4
    <3>2. node.node_type # "Leaf" => Len(node.keys) >= 1
      BY <1>1, InternalFacts
    <3> QED BY <3>1, <3>2
  <2>2. t = v
    BY <1>4, <2>1 DEF Shrunk, read_node
  <2>3. /\ e \in States /\ e.pages = s.pages /\ e.next = s.next /\ e.root = None
        /\ e.merges = s.merges /\ e.pins = s.pins /\ e.held = s.held /\ e.four = s.four
        /\ e.stray = s.stray /\ e.cuts = s.cuts
    BY <1>1 DEF States, PageOrNone
  <2> HIDE DEF e
  <2>4. Holds(e, b, None, None, None)
    BY <2>3 DEF Holds
  <2>5. \A p \in PageIds : s.pages[p].node_type = "Leaf"
    BY <1>1, <2>1, InternalFacts
  <2>6. TreeOf(e, L)
    <3>1. \A p \in PageIds : NodeOK(s.pages, s.next, None, L, p)
      <4>1. \A p \in PageIds : NodeOK(s.pages, s.next, s.root, L, p)
        BY <1>1 DEF Tree
      <4> QED BY <2>5, <4>1 DEF NodeOK
    <3>2. None \in PageOrNone /\ RootOK(s.pages, s.next, None)
      BY DEF PageOrNone, RootOK
    <3>3. Tree(s.pages, s.next, None, L)
      BY <1>1, <3>1, <3>2 DEF Tree
    <3> QED BY <2>3, <3>3 DEF TreeOf
  <2>7. Strict(s.pages, None, {})
    BY <2>5 DEF Strict, StrictAt
  <2>8. Holds(v, b, None, None, None) /\ SameTree(v, e)
    BY <2>4, <2>6, SaveHolds
  <2> HIDE DEF v
  <2>9. TreeOf(v, L) /\ v.pages = s.pages /\ v.root = None /\ v.merges = s.merges
    BY <2>3, <2>6, <2>8, SameTreeOf DEF SameTree
  <2> QED BY <1>1, <2>2, <2>7, <2>8, <2>9 DEF Kept
<1> QED BY <1>3, <1>4

LEMMA RemoveKept ==
  ASSUME NEW s, NEW b, NEW L, Holds(s, b, None, None, None), TreeOf(s, L),
         NEW k \in Nat, NEW t, t = remove(s, k)
  PROVE  Kept(t, s, b)
<1>1. s.merges \in Nat /\ s.merges >= s.merges /\ s.root \in PageOrNone
  BY DEF Holds, States
<1>2. CASE s.root = None
  <2>1. t = s
    BY <1>2 DEF remove
  <2> QED BY <1>1, <2>1 DEF Kept
<1>3. CASE s.root # None
  <2> DEFINE r == remove_recursive(s, s.root, k)
             m == r.st
             v == visit(m, s.root)
  <2>1. s.root \in PageIds
    BY <1>1, <1>3 DEF PageOrNone
  <2>2. t = Shrunk(v)
    BY <1>3 DEF remove
  <2>3. Trimmed(m, s, b, L)
    <3> DEFINE root == s.root
    <3>1. r = remove_recursive(s, root, k) /\ root = s.root /\ root \in PageIds
      BY <2>1
    <3> HIDE DEF r, root
    <3> QED BY <3>1, RemoveRecursiveHolds
  <2> HIDE DEF m
  <2>4. Holds(m, b, None, None, None) /\ TreeOf(m, L) /\ m.root = s.root
    BY <2>3 DEF Trimmed
  <2>5. Holds(v, b, None, None, None) /\ SameTree(v, m)
    BY <2>1, <2>4, VisitHolds
  <2> HIDE DEF v
  <2>6. TreeOf(v, L) /\ v.root \in PageIds
    BY <2>1, <2>4, <2>5, SameTreeOf DEF SameTree
  <2>7. Kept(t, v, b)
    BY <2>2, <2>5, <2>6, ShrunkKept
  <2>8. /\ v.pages = m.pages /\ v.root = m.root /\ v.merges = m.merges
        /\ m.merges \in Nat /\ m.merges >= s.merges
        /\ m.merges = 0 /\ Strict(s.pages, s.root, {}) => Strict(m.pages, m.root, {})
    BY <2>3, <2>5 DEF SameTree, Trimmed
  <2>9. t.merges \in Nat /\ t.merges >= s.merges /\ (t.merges = 0 => m.merges = 0)
    <3>1. t.merges \in Nat /\ t.merges >= m.merges
      BY <2>7, <2>8 DEF Kept
    <3> QED BY <1>1, <2>8, <3>1
  <2> QED BY <2>7, <2>8, <2>9 DEF Kept
<1> QED BY <1>2, <1>3
---------------------------------------------------------------------------
(* The inductive invariant: some level for each page makes the pages a     *)
(* tree, whatever failed or was merged; parents and sizes are in order     *)
(* until then; a call leaves no pin, and the one that failed two at most.  *)

NoPins == [p \in PageIds |-> 0]

Leaked == \E x, y \in PageOrNone : pin_count = PinsWith(NoPins, x, y, None)

TreeInv ==
  /\ merges \in Nat /\ failures \in Nat
  /\ \E L : Tree(pages, next_page_id, root_page_id, L)
  /\ merges = 0 /\ failures = 0 => Strict(pages, root_page_id, {})
  /\ failures = 0 => pin_count = NoPins
  /\ Leaked
  /\ four_pinned = FALSE /\ stray_write = FALSE

LEMMA NoPinsMore ==
  ASSUME NEW b \in [PageIds -> Nat]
  PROVE  b = PinsWith(b, None, None, None) /\ NoPins \in [PageIds -> Nat]
<1>1. \A p \in PageIds : One(p, None) = 0 /\ b[p] \in Nat
  BY PageFacts DEF One
<1>2. PinsWith(b, None, None, None) = [p \in PageIds |-> b[p]]
  BY <1>1 DEF PinsWith
<1> QED BY <1>2 DEF NoPins

LEMMA InitInv == Init => TreeInv
<1> SUFFICES ASSUME Init PROVE TreeInv
  OBVIOUS
<1> DEFINE L == [p \in PageIds |-> 0]
<1>1. pages = [p \in PageIds |-> Zeroed] /\ next_page_id = 0 /\ root_page_id = None
      /\ merges = 0 /\ failures = 0 /\ pin_count = NoPins
      /\ four_pinned = FALSE /\ stray_write = FALSE
  BY DEF Init, NoPins
<1>2. pages \in [PageIds -> Nodes]
  BY <1>1, ZeroedLeaf DEF LeafNode
<1>3. ASSUME NEW p \in PageIds
      PROVE  pages[p].node_type = "Leaf" /\ NodeOK(pages, next_page_id, root_page_id, L, p)
  <2>1. pages[p] = Zeroed /\ LeafNode(Zeroed) /\ Len(Zeroed.keys) = 0
    BY <1>1, ZeroedLeaf
  <2>2. L[p] = 0 /\ 0 <= max_keys
    BY PageFacts
  <2> HIDE DEF L
  <2> QED BY <2>1, <2>2 DEF LeafNode, NodeOK
<1>4. Tree(pages, next_page_id, root_page_id, L)
  <2>1. L \in [PageIds -> Nat] /\ next_page_id \in 0 .. MaxPages /\ root_page_id \in PageOrNone
    BY <1>1, PageFacts DEF PageOrNone
  <2>2. RootOK(pages, next_page_id, root_page_id)
    BY <1>1 DEF RootOK
  <2> HIDE DEF L
  <2> QED BY <1>2, <1>3, <2>1, <2>2 DEF Tree
<1> HIDE DEF L
<1>5. Strict(pages, root_page_id, {})
  BY <1>1, <1>3 DEF Strict, StrictAt
<1>6. Leaked
  <2>1. NoPins \in [PageIds -> Nat] /\ None \in PageOrNone
    BY DEF NoPins, PageOrNone
  <2>2. NoPins = PinsWith(NoPins, None, None, None)
    BY <2>1, NoPinsMore
  <2> QED BY <1>1, <2>1, <2>2 DEF Leaked
<1> QED BY <1>1, <1>4, <1>5, <1>6 DEF TreeInv

\* A call begins without pins of its own.
LEMMA CallBegins ==
  ASSUME TreeInv
  PROVE  /\ Holds(St, pin_count, None, None, None)
         /\ \A L : Tree(pages, next_page_id, root_page_id, L) => TreeOf(St, L)
         /\ St.pages = pages /\ St.root = root_page_id /\ St.next = next_page_id
         /\ St.merges = merges /\ pin_count \in [PageIds -> Nat]
<1>1. PICK L : Tree(pages, next_page_id, root_page_id, L)
  BY DEF TreeInv
<1>2. /\ pages \in [PageIds -> Nodes] /\ next_page_id \in Nat /\ root_page_id \in PageOrNone
      /\ merges \in Nat /\ four_pinned = FALSE /\ stray_write = FALSE
  BY <1>1, PageFacts DEF Tree, TreeInv
<1>3. pin_count \in [PageIds -> Nat]
  <2>1. PICK x, y \in PageOrNone : pin_count = PinsWith(NoPins, x, y, None)
    BY DEF TreeInv, Leaked
  <2>2. \A p \in PageIds : NoPins[p] + One(p, x) + One(p, y) + One(p, None) \in Nat
    BY DEF NoPins, One
  <2> QED BY <2>1, <2>2 DEF PinsWith
<1> DEFINE W == [p \in PageIds |-> {}]
<1>4. W \in [PageIds -> SUBSET Nodes]
  OBVIOUS
<1>5. St = [pages |-> pages, next |-> next_page_id, root |-> root_page_id,
            pins |-> pin_count, merges |-> merges, held |-> 0, four |-> FALSE,
            stray |-> FALSE, written |-> W, cuts |-> {}]
  BY <1>2 DEF St
<1> HIDE DEF W
<1>6. /\ St \in States
      /\ St.pages = pages /\ St.root = root_page_id /\ St.next = next_page_id
      /\ St.merges = merges /\ St.pins = pin_count /\ St.held = 0
      /\ St.four = FALSE /\ St.stray = FALSE /\ St.cuts = {}
  BY <1>2, <1>3, <1>4, <1>5 DEF States
<1>7. Some(None) + Some(None) + Some(None) = 0 /\ {None, None, None} \subseteq PageOrNone
  BY DEF Some, PageOrNone
<1>8. St.pins = PinsWith(pin_count, None, None, None)
  BY <1>3, <1>6, NoPinsMore
<1>9. Holds(St, pin_count, None, None, None)
  BY <1>3, <1>6, <1>7, <1>8 DEF Holds
<1> QED BY <1>3, <1>6, <1>9 DEF TreeOf

LEMMA RoomIsThere ==
  ASSUME TreeInv, NEW k, Room(k)
  PROVE  RoomFor(St, k)
<1>1. St.pages = pages /\ St.root = root_page_id /\ St.next = next_page_id
  BY CallBegins
<1>2. CASE RoomToSplit(k)
  BY <1>1, <1>2 DEF RoomToSplit, RoomFor
<1>3. CASE ~RoomToSplit(k)
  <2>1. /\ root_page_id # None
        /\ LET leaf == read_node(St, find_leaf(St, root_page_id, k))
           IN  k \in Range(leaf.keys) \/ Len(leaf.keys) < max_keys
    BY <1>3 DEF Room
  <2> QED BY <1>1, <2>1 DEF RoomFor, Takes, read_node
<1> QED BY <1>2, <1>3

\* What a call that returns makes of the invariant.
LEMMA ReturnsInv ==
  ASSUME TreeInv, NEW st, Kept(st, St, pin_count), NEW k, NEW v, Returns(k, v, st)
  PROVE  TreeInv'
<1>1. /\ St.pages = pages /\ St.root = root_page_id /\ St.merges = merges
      /\ pin_count \in [PageIds -> Nat]
  BY CallBegins
<1>2. /\ Holds(st, pin_count, None, None, None) /\ st.merges \in Nat /\ st.merges >= merges
      /\ st.merges = 0 /\ Strict(pages, root_page_id, {}) => Strict(st.pages, st.root, {})
  BY <1>1 DEF Kept
<1>3. PICK M : Tree(st.pages, st.next, st.root, M)
  BY DEF Kept, TreeOf
<1>4. /\ pages' = st.pages /\ next_page_id' = st.next /\ root_page_id' = st.root
      /\ pin_count' = st.pins /\ merges' = st.merges
      /\ four_pinned' = st.four /\ stray_write' = st.stray /\ failures' = failures
  BY DEF Returns, Becomes
<1>5. st.pins = pin_count /\ st.four = FALSE /\ st.stray = FALSE
  <2>1. st.pins = PinsWith(pin_count, None, None, None) /\ ~st.four /\ ~st.stray /\ st \in States
    BY <1>2 DEF Holds
  <2> QED BY <1>1, <2>1, NoPinsMore DEF States
<1>6. merges \in Nat /\ failures \in Nat /\ Leaked /\ (failures = 0 => pin_count = NoPins)
      /\ (merges = 0 /\ failures = 0 => Strict(pages, root_page_id, {}))
  BY DEF TreeInv
<1>7. pin_count' = pin_count
  BY <1>4, <1>5
<1>8. Leaked'
  BY <1>6, <1>7 DEF Leaked
<1>9. merges' = 0 /\ failures' = 0 => Strict(pages', root_page_id', {})
  <2>1. st.merges = 0 => merges = 0
    BY <1>2, <1>6
  <2> QED BY <1>2, <1>4, <1>6, <2>1
<1>10. Tree(pages', next_page_id', root_page_id', M)
  BY <1>3, <1>4
<1>11. merges' \in Nat /\ failures' \in Nat /\ four_pinned' = FALSE /\ stray_write' = FALSE
       /\ (failures' = 0 => pin_count' = NoPins)
  BY <1>2, <1>4, <1>5, <1>6
<1> QED BY <1>8, <1>9, <1>10, <1>11 DEF TreeInv, NoPins

\* And one that fails.
LEMMA FailsInv ==
  ASSUME TreeInv, Unhurt, NEW st, Holds(st, pin_count, None, None, None), NEW k, Fails(k, st)
  PROVE  TreeInv'
<1>1. PICK cut \in st.cuts : Becomes(cut)
  BY DEF Fails
<1>2. cut \in Cuts /\ CutOK(cut, pin_count)
  BY DEF Holds, States
<1>3. /\ pages' = cut.pages /\ next_page_id' = cut.next /\ root_page_id' = cut.root
      /\ pin_count' = cut.pins /\ merges' = cut.merges /\ failures' = 1
      /\ four_pinned' = four_pinned /\ stray_write' = stray_write
  BY <1>1 DEF Becomes, Fails
<1>4. pin_count = NoPins /\ four_pinned = FALSE /\ stray_write = FALSE
  BY DEF TreeInv, Unhurt
<1>5. PICK x, y \in PageOrNone : cut.pins = PinsWith(NoPins, x, y, None)
  BY <1>2, <1>4 DEF CutOK
<1>6. Leaked'
  <2>1. pin_count' = PinsWith(NoPins, x, y, None)
    BY <1>3, <1>5
  <2> QED BY <2>1 DEF Leaked, PinsWith, NoPins, One, PageOrNone
<1>7. PICK L : Tree(cut.pages, cut.next, cut.root, L)
  BY <1>2 DEF CutOK
<1>8. Tree(pages', next_page_id', root_page_id', L)
  BY <1>3, <1>7
<1>9. merges' \in Nat /\ failures' \in Nat /\ failures' # 0
  BY <1>2, <1>3 DEF Cuts
<1> QED BY <1>3, <1>4, <1>6, <1>8, <1>9 DEF TreeInv

LEMMA NextInv == TreeInv /\ [Next]_vars => TreeInv'
<1> SUFFICES ASSUME TreeInv, [Next]_vars PROVE TreeInv'
  OBVIOUS
<1>1. PICK L : TreeOf(St, L)
  BY CallBegins DEF TreeInv
<1>2. Holds(St, pin_count, None, None, None)
  BY CallBegins
<1>3. \A e \in Entries : e[1] \in Nat /\ e[2] \in Nat
  BY TreeAssumption
<1>4. \A k \in Keys : k \in Nat
  BY <1>3 DEF Keys
<1>5. ASSUME NEW e \in Entries, Put(e[1], e[2]) PROVE TreeInv'
  <2> DEFINE k == e[1]
             v == e[2]
             t == insert(St, k, v)
  <2>1. Returns(k, v, t) /\ Room(k) /\ k \in Nat /\ v \in Nat
    BY <1>3, <1>5 DEF Put
  <2>2. t = insert(St, k, v)
    OBVIOUS
  <2> HIDE DEF t, k, v
  <2>3. Kept(t, St, pin_count)
    BY <1>1, <1>2, <2>1, <2>2, RoomIsThere, InsertKept
  <2> QED BY <2>1, <2>3, ReturnsInv
<1>6. ASSUME NEW e \in Entries, PutFails(e[1], e[2]) PROVE TreeInv'
  <2> DEFINE k == e[1]
             v == e[2]
             t == insert(St, k, v)
  <2>1. Unhurt /\ Fails(k, t) /\ Room(k) /\ k \in Nat /\ v \in Nat
    BY <1>3, <1>6 DEF PutFails
  <2>2. t = insert(St, k, v)
    OBVIOUS
  <2> HIDE DEF t, k, v
  <2>3. Kept(t, St, pin_count)
    BY <1>1, <1>2, <2>1, <2>2, RoomIsThere, InsertKept
  <2>4. Holds(t, pin_count, None, None, None)
    BY <2>3 DEF Kept
  <2> QED BY <2>1, <2>4, FailsInv
<1>7. ASSUME NEW k \in Keys, Delete(k) PROVE TreeInv'
  <2> DEFINE t == remove(St, k)
  <2>1. Returns(k, None, t) /\ k \in Nat /\ t = remove(St, k)
    BY <1>4, <1>7 DEF Delete
  <2> HIDE DEF t
  <2>2. Kept(t, St, pin_count)
    BY <1>1, <1>2, <2>1, RemoveKept
  <2> QED BY <2>1, <2>2, ReturnsInv
<1>8. ASSUME NEW k \in Keys, DeleteFails(k) PROVE TreeInv'
  <2> DEFINE t == remove(St, k)
  <2>1. Unhurt /\ Fails(k, t) /\ k \in Nat /\ t = remove(St, k)
    BY <1>4, <1>8 DEF DeleteFails
  <2> HIDE DEF t
  <2>2. Kept(t, St, pin_count)
    BY <1>1, <1>2, <2>1, RemoveKept
  <2>3. Holds(t, pin_count, None, None, None)
    BY <2>2 DEF Kept
  <2> QED BY <2>1, <2>3, FailsInv
<1>9. CASE UNCHANGED vars
  <2>1. /\ pages' = pages /\ next_page_id' = next_page_id /\ root_page_id' = root_page_id
        /\ pin_count' = pin_count /\ merges' = merges /\ failures' = failures
        /\ four_pinned' = four_pinned /\ stray_write' = stray_write
    BY <1>9 DEF vars, treeVars
  <2> QED BY <2>1 DEF TreeInv, Leaked, NoPins
<1> QED BY <1>5, <1>6, <1>7, <1>8, <1>9 DEF Next

THEOREM TreeInvariant == Spec => []TreeInv
BY InitInv, NextInv, PTL DEF Spec

\* What the layers of a tree are.
LEMMA LayerFacts ==
  ASSUME TreeInv, root_page_id # None,
         NEW L, Tree(pages, next_page_id, root_page_id, L)
  PROVE  /\ Layer[0] = {root_page_id}
         /\ \A n \in 0 .. MaxPages : \A p \in Layer[n] : p \in PageIds /\ L[p] = L[root_page_id] - n
         /\ \A n \in 1 .. MaxPages : \A p \in Layer[n] :
              \E q \in Layer[n - 1] : pages[q].node_type # "Leaf" /\ p \in Kids(pages[q])
         /\ \A n \in 1 .. MaxPages : \A q \in Layer[n - 1] :
              pages[q].node_type # "Leaf" => Layer[n] # {}
<1> DEFINE r == root_page_id
           T == {n \in 0 .. MaxPages :
                   \A p \in Layer[n] : p \in PageIds /\ L[p] = L[r] - n}
<1>1. MaxPages \in Nat /\ r \in PageIds /\ pages \in [PageIds -> Nodes] /\ L \in [PageIds -> Nat]
  BY PageFacts DEF Tree, PageOrNone
<1>2. Layer = [n \in 0 .. MaxPages |->
                 IF n = 0 THEN {r} ELSE ChildrenOf(Layer[n - 1])]
  <2> DEFINE first == {root_page_id} \ {None}
  <2>1. PICK g : Steps(g, MaxPages, "Layer", <<>>, first)
    BY <1>1, StepsExist
  <2>2. g = [n \in 0 .. MaxPages |-> IF n = 0 THEN first ELSE Step("Layer", <<>>, n, g[n - 1])]
    BY <2>1 DEF Steps
  <2>3. \A n, x : Step("Layer", <<>>, n, x) = ChildrenOf(x)
    BY DEF Step
  <2>4. g = [n \in 0 .. MaxPages |-> IF n = 0 THEN first ELSE ChildrenOf(g[n - 1])]
    BY <2>2, <2>3
  <2>5. Layer = CHOOSE f : f = [n \in 0 .. MaxPages |->
                                 IF n = 0 THEN first ELSE ChildrenOf(f[n - 1])]
    BY DEF Layer, ChildrenOf
  <2>6. first = {r}
    OBVIOUS
  <2> HIDE DEF first, Layer
  <2>7. Layer = [n \in 0 .. MaxPages |-> IF n = 0 THEN first ELSE ChildrenOf(Layer[n - 1])]
    BY <2>4, <2>5
  <2> QED BY <2>6, <2>7
<1>0. \A p : Node(p) = pages[p]
  BY DEF Node, read_node, St
<1> HIDE DEF Layer
<1>3. Layer[0] = {r} /\ 0 \in T
  <2>1. Layer[0] = {r}
    BY <1>1, <1>2
  <2> QED BY <1>1, <2>1
<1>4. ASSUME NEW q \in PageIds
      PROVE  /\ pages[q].node_type = "Leaf" => Range(pages[q].children) = {}
             /\ Range(pages[q].children) = Kids(pages[q])
             /\ pages[q].node_type # "Leaf" => Kids(pages[q]) # {}
             /\ \A p \in Kids(pages[q]) : p \in PageIds /\ L[p] = L[q] - 1
  <2>1. pages[q].children \in Seq(PageIds) /\ Len(pages[q].keys) \in Nat
    BY <1>1, NodeFacts
  <2>2. Range(pages[q].children) = Kids(pages[q])
    BY <2>1 DEF Range, Kids
  <2>3. CASE pages[q].node_type = "Leaf"
    <3>1. pages[q].children = <<>>
      BY <2>3, LeafFacts DEF LeafNode
    <3>2. Kids(pages[q]) = {}
      BY <3>1 DEF Kids
    <3> QED BY <2>2, <2>3, <3>2
  <2>4. CASE pages[q].node_type # "Leaf"
    <3>1. Wide(pages, next_page_id, r, L, q, pages[q])
      BY <2>4, InternalFacts
    <3>2. 1 \in 1 .. Len(pages[q].children)
      BY <2>1, <3>1 DEF Wide
    <3>3. \A i \in 1 .. Len(pages[q].children) : pages[q].children[i] \in PageIds
      BY <2>1
    <3> QED BY <2>2, <2>4, <3>1, <3>2, <3>3 DEF Kids, Wide
  <2> QED BY <2>3, <2>4
<1>5. ASSUME NEW n \in 1 .. MaxPages
      PROVE  /\ n - 1 \in 0 .. MaxPages /\ n \in 0 .. MaxPages
             /\ Layer[n] = UNION {Range(pages[p].children) : p \in Layer[n - 1]}
  <2>1. n - 1 \in 0 .. MaxPages /\ n \in 0 .. MaxPages /\ n # 0
    BY <1>1
  <2>2. Layer[n] = ChildrenOf(Layer[n - 1])
    BY <1>2, <2>1
  <2>3. ChildrenOf(Layer[n - 1]) = UNION {Range(pages[p].children) : p \in Layer[n - 1]}
    BY <1>0 DEF ChildrenOf
  <2> QED BY <2>1, <2>2, <2>3
<1>6. ASSUME NEW n \in 1 .. MaxPages, n - 1 \in T PROVE n \in T
  <2>1. ASSUME NEW p \in Layer[n] PROVE p \in PageIds /\ L[p] = L[r] - n
    <3>1. PICK q \in Layer[n - 1] : p \in Range(pages[q].children)
      BY <1>5
    <3>2. q \in PageIds /\ L[q] = L[r] - (n - 1)
      BY <1>6, <3>1
    <3>3. p \in PageIds /\ L[p] = L[q] - 1
      BY <1>4, <3>1, <3>2
    <3> QED BY <1>1, <3>2, <3>3
  <2> QED BY <1>5, <2>1
<1>7. \A n \in 0 .. MaxPages : n \in T
  <2> HIDE DEF T
  <2> QED BY <1>1, <1>3, <1>6, UpTo
<1>8. ASSUME NEW n \in 1 .. MaxPages, NEW p \in Layer[n]
      PROVE  \E q \in Layer[n - 1] : pages[q].node_type # "Leaf" /\ p \in Kids(pages[q])
  <2>1. PICK q \in Layer[n - 1] : p \in Range(pages[q].children)
    BY <1>5
  <2>2. q \in PageIds
    BY <1>5, <1>7
  <2> QED BY <1>4, <2>1, <2>2
<1>9. ASSUME NEW n \in 1 .. MaxPages, NEW q \in Layer[n - 1], pages[q].node_type # "Leaf"
      PROVE  Layer[n] # {}
  <2>1. q \in PageIds
    BY <1>5, <1>7
  <2>2. PICK c : c \in Range(pages[q].children)
    BY <1>4, <1>9, <2>1
  <2>3. c \in Layer[n]
    BY <1>5, <2>2
  <2> QED BY <2>3
<1> QED BY <1>3, <1>7, <1>8, <1>9

\* Layers lead down to the leaves.
LEMMA LayersNotEmpty ==
  ASSUME TreeInv, root_page_id # None,
         NEW L, Tree(pages, next_page_id, root_page_id, L)
  PROVE  /\ L[root_page_id] \in 0 .. MaxPages
         /\ \A n \in 0 .. L[root_page_id] : Layer[n] # {}
<1> DEFINE r == root_page_id
           h == L[r]
           T == {n \in 0 .. h : Layer[n] # {}}
<1>1. /\ MaxPages \in Nat /\ r \in PageIds /\ L \in [PageIds -> Nat]
      /\ next_page_id \in 0 .. MaxPages
  BY PageFacts DEF Tree, PageOrNone
<1>2. h \in 0 .. MaxPages
  <2>1. pages[r].node_type = "Leaf" => h = 0
    BY <1>1, LeafFacts
  <2>2. pages[r].node_type # "Leaf" => h < next_page_id
    BY <1>1, InternalFacts
  <2> QED BY <1>1, <2>1, <2>2
<1> HIDE DEF h
<1>3. 0 \in T
  BY <1>2, LayerFacts
<1>4. ASSUME NEW n \in 1 .. h, n - 1 \in T PROVE n \in T
  <2>1. n \in 1 .. MaxPages /\ n - 1 \in 0 .. MaxPages /\ n \in 0 .. h /\ h - (n - 1) # 0
    <3>1. h \in Nat /\ h <= MaxPages /\ MaxPages \in Nat /\ n \in Nat /\ 1 <= n /\ n <= h
      BY <1>1, <1>2
    <3> QED BY <3>1
  <2>2. PICK q : q \in Layer[n - 1]
    BY <1>4
  <2>3. q \in PageIds /\ L[q] = h - (n - 1)
    BY <2>1, <2>2, LayerFacts DEF h
  <2>4. pages[q].node_type # "Leaf"
    BY <2>1, <2>3, LeafFacts
  <2> QED BY <2>1, <2>2, <2>4, LayerFacts
<1>5. \A n \in 0 .. h : n \in T
  <2> HIDE DEF T
  <2> QED BY <1>2, <1>3, <1>4, UpTo
<1> QED BY <1>2, <1>5 DEF h

LEMMA TreePagesFacts ==
  ASSUME TreeInv, root_page_id # None, NEW L, Tree(pages, next_page_id, root_page_id, L),
         NEW p \in TreePages
  PROVE  /\ p \in PageIds
         /\ p # root_page_id => \E q \in PageIds : /\ pages[q].node_type # "Leaf"
                                                   /\ p \in Kids(pages[q])
<1> HIDE DEF Layer
<1>1. PICK n \in 0 .. MaxPages : p \in Layer[n]
  BY DEF TreePages
<1>2. p \in PageIds
  BY <1>1, LayerFacts
<1>3. CASE n = 0
  BY <1>1, <1>2, <1>3, LayerFacts
<1>4. CASE n # 0
  <2>1. n \in 1 .. MaxPages /\ n - 1 \in 0 .. MaxPages
    BY <1>1, <1>4, PageFacts
  <2>2. PICK q \in Layer[n - 1] : pages[q].node_type # "Leaf" /\ p \in Kids(pages[q])
    BY <1>1, <2>1, LayerFacts
  <2> QED BY <1>2, <2>1, <2>2, LayerFacts
<1> QED BY <1>3, <1>4

(* No node above the leaves runs out of keys, whatever was removed, merged *)
(* or left by a failing call: remove never takes the first child of a root *)
(* without children (btree.rs:491-492).                                    *)
THEOREM InternalNodesNeverShort == Spec => []InternalNeverShort
<1>1. TreeInv => InternalNeverShort
  <2> SUFFICES ASSUME TreeInv, NEW p \in PageIds, ~IsLeaf(p)
               PROVE  Len(Node(p).keys) >= IF p = root_page_id THEN 1 ELSE min_keys
    BY DEF InternalNeverShort
  <2>1. Node(p) = pages[p]
    BY DEF Node, read_node, St
  <2>2. PICK L : Tree(pages, next_page_id, root_page_id, L)
    BY DEF TreeInv
  <2> QED BY <2>1, <2>2, InternalFacts DEF IsLeaf
<1> QED BY <1>1, TreeInvariant, PTL

(* Each call gives back its pins, and the one that fails keeps two at most *)
(* (btree.rs:301-303 and its callers).                                     *)
THEOREM CallsReturnPins == Spec => []PinsReturned
<1>1. TreeInv => PinsReturned
  <2> SUFFICES ASSUME TreeInv PROVE PinsReturned
    OBVIOUS
  <2>1. failures = 0 => \A p \in PageIds : pin_count[p] = 0
    BY DEF TreeInv, NoPins
  <2>2. PICK x, y \in PageOrNone : pin_count = PinsWith(NoPins, x, y, None)
    BY DEF TreeInv, Leaked
  <2>3. ASSUME NEW p \in PageIds
        PROVE  pin_count[p] <= (IF p = x THEN 1 ELSE 0) + (IF p = y THEN 1 ELSE 0)
    <3>1. pin_count[p] = 0 + One(p, x) + One(p, y) + One(p, None)
      BY <2>2 DEF PinsWith, NoPins
    <3>2. One(p, None) = 0
      BY PageFacts DEF One
    <3> QED BY <3>1, <3>2 DEF One
  <2> QED BY <2>1, <2>3 DEF PinsReturned, PageOrNone
<1> QED BY <1>1, TreeInvariant, PTL

(* A call writes only to pages it has pinned (btree.rs:272-291).           *)
THEOREM CallsWritePinnedPages == Spec => []WritesArePinned
<1>1. TreeInv => WritesArePinned
  BY DEF TreeInv, WritesArePinned
<1> QED BY <1>1, TreeInvariant, PTL

(* No call, however deep the tree, holds more than three pins at once      *)
(* (buffer_pool.rs:229-257).                                               *)
THEOREM CallsHoldThreePins == Spec => []ThreePinsSuffice
<1>1. TreeInv => ThreePinsSuffice
  BY DEF TreeInv, ThreePinsSuffice
<1> QED BY <1>1, TreeInvariant, PTL

(* Until the first merge, each child names its parent (btree.rs:551).      *)
THEOREM ChildrenKnowTheirParents == Spec => []ParentsAgree
<1>1. TreeInv => ParentsAgree
  <2> SUFFICES ASSUME TreeInv, merges = 0, failures = 0, root_page_id # None
               PROVE  /\ Node(root_page_id).parent = None
                      /\ \A p \in TreePages : \A c \in Range(Node(p).children) : Node(c).parent = p
    BY DEF ParentsAgree
  <2>1. PICK L : Tree(pages, next_page_id, root_page_id, L)
    BY DEF TreeInv
  <2>2. Strict(pages, root_page_id, {}) /\ \A p : Node(p) = pages[p]
    BY DEF TreeInv, Node, read_node, St
  <2>3. ASSUME NEW p \in TreePages, NEW c \in Range(pages[p].children)
        PROVE  pages[c].parent = p
    <3>1. p \in PageIds /\ pages[p].children \in Seq(PageIds)
      BY <2>1, TreePagesFacts, NodeFacts DEF Tree
    <3>2. PICK i \in 1 .. Len(pages[p].children) : c = pages[p].children[i]
      BY <2>3, <3>1 DEF Range
    <3>3. pages[p].node_type # "Leaf"
      <4>1. pages[p].node_type = "Leaf" => pages[p].children = <<>>
        BY <2>1, <3>1, LeafFacts DEF LeafNode
      <4>2. pages[p].children # <<>>
        BY <3>1, <3>2
      <4> QED BY <4>1, <4>2
    <3> QED BY <2>2, <3>1, <3>2, <3>3 DEF Strict, StrictAt
  <2> QED BY <2>2, <2>3 DEF Strict
<1> QED BY <1>1, TreeInvariant, PTL

(* Until the first merge, all leaves have the same depth, and repairing    *)
(* one child per level keeps every node but the root at min_keys           *)
(* (btree.rs:536-563).                                                     *)
THEOREM TreeStaysBalanced == Spec => []Balanced
<1>1. TreeInv => Balanced
  <2> SUFFICES ASSUME TreeInv, merges = 0, failures = 0, root_page_id # None
               PROVE  /\ Cardinality(LeafDepths) = 1
                      /\ \A p \in TreePages :
                           /\ Len(Node(p).keys) <= max_keys
                           /\ p # root_page_id => Len(Node(p).keys) >= min_keys
    BY DEF Balanced
  <2>1. PICK L : Tree(pages, next_page_id, root_page_id, L)
    BY DEF TreeInv
  <2>2. Strict(pages, root_page_id, {}) /\ \A p : Node(p) = pages[p]
    BY DEF TreeInv, Node, read_node, St
  <2> DEFINE h == L[root_page_id]
  <2>3. h \in 0 .. MaxPages /\ h \in Nat /\ MaxPages \in Nat
    BY <2>1, LayersNotEmpty, PageFacts
  <2>4. ASSUME NEW n \in 0 .. MaxPages, NEW p \in Layer[n]
        PROVE  p \in PageIds /\ L[p] = h - n
    BY <2>1, <2>4, LayerFacts
  <2> HIDE DEF Layer, h
  <2>5. LeafDepths = {h}
    <3>1. ASSUME NEW n \in LeafDepths PROVE n = h
      <4>1. PICK p \in Layer[n] : IsLeaf(p)
        BY DEF LeafDepths
      <4>2. n \in 0 .. MaxPages
        BY DEF LeafDepths
      <4>3. p \in PageIds /\ L[p] = h - n
        BY <2>4, <4>1, <4>2
      <4>4. L[p] = 0
        BY <2>1, <2>2, <4>1, <4>3, LeafFacts DEF IsLeaf
      <4> QED BY <2>3, <4>2, <4>3, <4>4
    <3>2. h \in LeafDepths
      <4>1. PICK p : p \in Layer[h]
        BY <2>1, <2>3, LayersNotEmpty DEF h
      <4>2. p \in PageIds /\ L[p] = 0
        BY <2>3, <2>4, <4>1
      <4>3. pages[p].node_type = "Leaf"
        <5>1. pages[p].node_type # "Leaf" => 0 < L[p]
          BY <2>1, <4>2, InternalFacts
        <5> QED BY <4>2, <5>1
      <4> QED BY <2>2, <2>3, <4>1, <4>3 DEF LeafDepths, IsLeaf
    <3> QED BY <3>1, <3>2
  <2>6. Cardinality(LeafDepths) = 1
    BY <2>5, FS_Singleton
  <2>7. ASSUME NEW p \in TreePages
        PROVE  /\ Len(pages[p].keys) <= max_keys
               /\ p # root_page_id => Len(pages[p].keys) >= min_keys
    <3>1. p \in PageIds
      BY <2>1, TreePagesFacts
    <3>2. Len(pages[p].keys) <= max_keys
      BY <2>1, <3>1, LeafFacts, InternalFacts
    <3>3. ASSUME p # root_page_id PROVE Len(pages[p].keys) >= min_keys
      <4>1. PICK q \in PageIds : pages[q].node_type # "Leaf" /\ p \in Kids(pages[q])
        BY <2>1, <3>3, TreePagesFacts
      <4>2. StrictAt(pages, q, {})
        BY <2>2 DEF Strict
      <4> QED BY <4>1, <4>2 DEF StrictAt, Kids
    <3> QED BY <3>2, <3>3
  <2> QED BY <2>2, <2>6, <2>7
<1> QED BY <1>1, TreeInvariant, PTL
===========================================================================
