----------------------- MODULE BPlusTreeSearch_proofs ---------------------
(***************************************************************************)
(* Search in the tree, for any order, any entries and any sequence of      *)
(* calls, one that fails included, up to the first merge.  Each page owns  *)
(* the keys whose path goes through it; a split, a borrowing and a failed  *)
(* call hand them on, and a key is only ever in the leaf that owns it.     *)
(***************************************************************************)
EXTENDS BPlusTree_proofs

(* The keys in X that an internal node sends to its i-th child.            *)
Slot(keys, i, X) == {x \in X : /\ i <= Len(keys) => x < keys[i]
                               /\ i > 1 => keys[i - 1] <= x}

Increasing(keys) == \A i, j \in 1 .. Len(keys) : i < j => keys[i] < keys[j]

(* E[p] are the keys p owns and J[p] those its parent sends there: the     *)
(* same, but for a page that was split while its parent does not know the  *)
(* other half yet.  Pages out of reach own none.                           *)
RouteAt(pg, E, J, p) ==
  /\ E[p] # {} => /\ Increasing(pg[p].keys)
                  /\ \A i \in 1 .. Len(pg[p].keys) : pg[p].keys[i] \in E[p]
  /\ pg[p].node_type # "Leaf" =>
       \A i \in 1 .. Len(pg[p].children) :
         /\ J[pg[p].children[i]] = Slot(pg[p].keys, i, E[p])
         /\ E[p] # {} => J[pg[p].children[i]] # {}

Ranges == [PageIds -> SUBSET Nat]

(* The pages of a level share no key, and the root gets them all.          *)
Disjoint(L, E) == \A p, q \in PageIds : L[p] = L[q] /\ p # q => E[p] \cap E[q] = {}

Routes(pg, nx, rt, L, E, J) ==
  /\ E \in Ranges /\ J \in Ranges
  /\ Disjoint(L, E)
  /\ \A p \in PageIds : p >= nx => E[p] = {}
  /\ IF rt = None THEN \A p \in PageIds : E[p] = {} ELSE J[rt] = Nat
  /\ \A p \in PageIds : RouteAt(pg, E, J, p)

LEMMA SlotFacts ==
  ASSUME NEW keys \in Seq(Nat), Increasing(keys), NEW x \in Nat
  PROVE  /\ \A X : x \in X => x \in Slot(keys, find_position(keys, x), X)
         /\ \A X, Y : \A i, j \in 1 .. Len(keys) + 1 :
              x \in Slot(keys, i, X) /\ x \in Slot(keys, j, Y) => i = j
<1> DEFINE n == Len(keys)
           i0 == find_position(keys, x)
<1>1. n \in Nat /\ \A i \in 1 .. n : keys[i] \in Nat
  OBVIOUS
<1>2. /\ i0 \in 1 .. n + 1
      /\ i0 <= n => x < keys[i0]
      /\ \A j \in 1 .. i0 - 1 : keys[j] <= x
  BY PositionFound
<1> HIDE DEF i0, n
<1>3. i0 > 1 => keys[i0 - 1] <= x
  BY <1>1, <1>2
<1>4. ASSUME NEW X, NEW Y, NEW i \in 1 .. n + 1, NEW j \in 1 .. n + 1,
             x \in Slot(keys, i, X), x \in Slot(keys, j, Y)
      PROVE  ~(i < j)
  <2>1. i <= n => x < keys[i]
    BY <1>4 DEF Slot, n
  <2>2. j > 1 => keys[j - 1] <= x
    BY <1>4 DEF Slot
  <2> SUFFICES ASSUME i < j PROVE FALSE
    OBVIOUS
  <2>3. i \in 1 .. n /\ j - 1 \in 1 .. n /\ i <= j - 1
    BY <1>1
  <2>4. keys[i] <= keys[j - 1]
    BY <1>1, <2>3, SMTT(20) DEF Increasing, n
  <2> QED BY <1>1, <2>1, <2>2, <2>3, <2>4
<1>5. \A X : x \in X => x \in Slot(keys, i0, X)
  BY <1>2, <1>3 DEF Slot, n
<1>6. ASSUME NEW X, NEW Y, NEW i \in 1 .. n + 1, NEW j \in 1 .. n + 1,
             x \in Slot(keys, i, X), x \in Slot(keys, j, Y)
      PROVE  i = j
  <2>1. ~(i < j) /\ ~(j < i)
    BY <1>4, <1>6
  <2> QED BY <1>1, <2>1
<1> QED BY <1>5, <1>6 DEF n, i0

(* Parents and neighbours do not matter here.                              *)
LEMMA RoutesAkin ==
  ASSUME NEW pg, NEW nx, NEW rt, NEW L, NEW E, NEW J, Routes(pg, nx, rt, L, E, J),
         NEW pg2, \A p \in PageIds : Akin(pg2[p], pg[p]),
         pg \in [PageIds -> Nodes]
  PROVE  Routes(pg2, nx, rt, L, E, J)
<1>1. ASSUME NEW p \in PageIds PROVE RouteAt(pg2, E, J, p)
  <2>1. RouteAt(pg, E, J, p) /\ Akin(pg2[p], pg[p])
    BY DEF Routes
  <2> QED BY <2>1 DEF RouteAt, Akin
<1> QED BY <1>1 DEF Routes

LEMMA ChildAt ==
  ASSUME NEW pg, NEW nx, NEW rt, NEW L, Tree(pg, nx, rt, L),
         NEW p \in PageIds, pg[p].node_type # "Leaf",
         NEW i \in 1 .. Len(pg[p].children), NEW c, c = pg[p].children[i]
  PROVE  /\ c \in PageIds /\ c < nx /\ c # rt /\ L[c] = L[p] - 1
         /\ pg[p].keys \in Seq(Nat) /\ Len(pg[p].keys) \in Nat
         /\ Len(pg[p].children) = Len(pg[p].keys) + 1
         /\ L[p] \in Nat /\ L[c] \in Nat /\ L[p] >= 1
<1>1. Wide(pg, nx, rt, L, p, pg[p]) /\ 0 < L[p]
  BY InternalFacts
<1>2. pg[p].keys \in Seq(Nat) /\ pg[p].children \in Seq(PageIds)
  BY <1>1 DEF Wide, Nodes
<1>3. c \in PageIds
  BY <1>2
<1>4. L[p] \in Nat /\ L[c] \in Nat
  BY <1>3 DEF Tree
<1> QED BY <1>1, <1>2, <1>3, <1>4, SMTT(20) DEF Wide

(* Below a level where no split is under way a page has no key that the    *)
(* pages above it do not have.                                             *)
LEMMA Nested ==
  ASSUME NEW pg, NEW nx, NEW rt, NEW L, Tree(pg, nx, rt, L),
         NEW E, NEW J, Routes(pg, nx, rt, L, E, J),
         NEW h \in Nat, \A p \in PageIds : L[p] < h => J[p] = E[p],
         NEW a \in PageIds, NEW b \in PageIds, L[a] <= L[b], L[b] <= h,
         E[a] \cap E[b] # {}
  PROVE  E[a] \subseteq E[b]
<1> DEFINE P(n) == \A u, v \in PageIds : /\ L[v] = L[u] + n
                                        /\ L[v] <= h
                                        /\ E[u] \cap E[v] # {}
                                      => E[u] \subseteq E[v]
           T == {n \in 0 .. h : P(n)}
<1>1. L \in [PageIds -> Nat]
  BY DEF Tree
<1>2. 0 \in T
  <2>1. P(0)
    BY <1>1 DEF Routes, Disjoint
  <2> QED BY <2>1
<1>3. ASSUME NEW n \in 1 .. h, n - 1 \in T PROVE n \in T
  <2>1. P(n - 1)
    BY <1>3
  <2>2. ASSUME NEW u \in PageIds, NEW v \in PageIds, L[v] = L[u] + n, L[v] <= h,
               NEW x \in E[u] \cap E[v]
        PROVE  E[u] \subseteq E[v]
    <3> DEFINE keys == pg[v].keys
               i == find_position(keys, x)
               c == pg[v].children[i]
    <3>1. L[u] \in Nat /\ L[v] \in Nat /\ L[v] # 0
      BY <1>1, <2>2
    <3>2. pg[v].node_type # "Leaf"
      BY <3>1, LeafFacts
    <3>3. keys \in Seq(Nat) /\ Len(pg[v].children) = Len(keys) + 1
      BY <3>2, InternalFacts DEF Wide, Nodes
    <3>4. RouteAt(pg, E, J, v) /\ E[v] \subseteq Nat /\ E[v] # {}
      BY <2>2 DEF Routes, Ranges
    <3>5. i \in 1 .. Len(keys) + 1 /\ x \in Slot(keys, i, E[v])
      BY <2>2, <3>3, <3>4, PositionFound, SlotFacts DEF RouteAt
    <3> HIDE DEF i, c, keys
    <3>6. i \in 1 .. Len(pg[v].children) /\ c = pg[v].children[i]
      BY <3>3, <3>5 DEF c
    <3>7. c \in PageIds /\ L[c] = L[v] - 1 /\ L[c] \in Nat
      BY <3>2, <3>6, ChildAt
    <3>8. J[c] = Slot(keys, i, E[v])
      BY <3>2, <3>4, <3>6 DEF RouteAt, keys
    <3>9. J[c] = E[c] /\ L[c] = L[u] + (n - 1) /\ L[c] <= h
      BY <2>2, <3>1, <3>7
    <3>10. x \in E[u] \cap E[c]
      BY <2>2, <3>5, <3>8, <3>9
    <3>11. E[u] \subseteq E[c]
      BY <2>1, <3>7, <3>9, <3>10
    <3> QED BY <3>8, <3>9, <3>11 DEF Slot
  <2> HIDE DEF P
  <2>3. P(n)
    BY <2>2 DEF P
  <2> QED BY <1>3, <2>3
<1>4. \A n \in 0 .. h : n \in T
  <2> HIDE DEF T
  <2> QED BY <1>2, <1>3, UpTo
<1> DEFINE n == L[b] - L[a]
<1>5. n \in 0 .. h /\ L[b] = L[a] + n
  BY <1>1
<1>6. P(n)
  BY <1>4, <1>5
<1> QED BY <1>5, <1>6

(* Page c was split at the key s, q is the right half, and no parent knows *)
(* q so far.                                                               *)
Pending(E, J, c, q, s) ==
  /\ J = [E EXCEPT ![c] = E[c] \cup E[q]]
  /\ E[c] # {} /\ s \in E[q]
  /\ \A x \in E[c] : x < s
  /\ \A x \in E[q] : s <= x

(* When the call ends here, the keys of q belong to the last page on each  *)
(* level below c, and nobody owns q and what is below it.                  *)
LEMMA Abandoned ==
  ASSUME NEW pg, NEW nx, NEW rt, NEW L, Tree(pg, nx, rt, L),
         NEW E, NEW J, Routes(pg, nx, rt, L, E, J),
         NEW c \in PageIds, NEW q \in PageIds, NEW s, Pending(E, J, c, q, s),
         L[q] = L[c], Orphan(pg, q)
  PROVE  \E D : Routes(pg, nx, rt, L, D, D)
<1> DEFINE G == E[q]
           h == L[c]
<1>1. /\ L \in [PageIds -> Nat] /\ E \in Ranges /\ J \in Ranges
      /\ h \in Nat /\ s \in Nat /\ c # q /\ G \subseteq Nat /\ E[c] \subseteq Nat
  <2>1. L \in [PageIds -> Nat] /\ E \in Ranges /\ J \in Ranges
    BY DEF Tree, Routes
  <2>2. E[c] \subseteq Nat /\ E[q] \subseteq Nat
    BY <2>1 DEF Ranges
  <2>3. c # q
    BY <2>2 DEF Pending
  <2> QED BY <2>1, <2>2, <2>3 DEF Pending
<1>2. \A p \in PageIds : J[p] = IF p = c THEN E[c] \cup G ELSE E[p]
  BY <1>1 DEF Pending, Ranges
<1>3. PICK m \in E[c] : \A x \in E[c] : x <= m
  <2>1. E[c] \in SUBSET (0 .. s) /\ E[c] # {}
    BY <1>1 DEF Pending
  <2> QED BY <1>1, <2>1, GreatestElement
<1>4. m \in Nat /\ m \notin G /\ \A x \in G : m < x
  BY <1>1, <1>3 DEF Pending
<1>5. ASSUME NEW p \in PageIds, L[p] <= h
      PROVE  /\ E[p] \cap E[c] # {} => E[p] \subseteq E[c]
             /\ E[p] \cap G # {} => E[p] \subseteq G
  <2>1. \A r \in PageIds : L[r] < h => J[r] = E[r]
    BY <1>1, <1>2
  <2> QED BY <1>1, <1>5, <2>1, Nested
<1>6. \A x \in G : x \notin E[c]
  BY <1>1 DEF Pending
<1> DEFINE D == [p \in PageIds |-> IF L[p] > h THEN E[p]
                                   ELSE (E[p] \ G) \cup (IF m \in E[p] THEN G ELSE {})]
<1>7. ASSUME NEW p \in PageIds
      PROVE  /\ L[p] > h => D[p] = E[p]
             /\ ~(L[p] > h) => D[p] = (E[p] \ G) \cup (IF m \in E[p] THEN G ELSE {})
  OBVIOUS
<1>8. D \in Ranges
  BY <1>1 DEF Ranges
<1> HIDE DEF D, G, h
<1>9. \A p \in PageIds : /\ E[p] = {} => D[p] = {}
                         /\ E[p] \cap G # {} /\ L[p] <= h => D[p] = {}
                         /\ L[p] = h /\ p # q => D[p] = J[p]
  <2>1. ASSUME NEW p \in PageIds, E[p] = {} PROVE D[p] = {}
    BY <1>7, <2>1
  <2>2. ASSUME NEW p \in PageIds, E[p] \cap G # {}, L[p] <= h PROVE D[p] = {}
    <3>1. E[p] \subseteq G /\ m \notin E[p] /\ ~(L[p] > h)
      BY <1>1, <1>4, <1>5, <2>2
    <3> QED BY <1>7, <3>1
  <2>3. ASSUME NEW p \in PageIds, L[p] = h, p # q PROVE D[p] = J[p]
    <3>1. E[p] \cap G = {} /\ ~(L[p] > h)
      BY <1>1, <2>3 DEF Routes, Disjoint, G, h
    <3>2. p # c => m \notin E[p]
      BY <1>3, <2>3 DEF Routes, Disjoint, h
    <3> QED BY <1>2, <1>3, <1>7, <3>1, <3>2
  <2> QED BY <2>1, <2>2, <2>3
<1>10. Disjoint(L, D)
  <2> SUFFICES ASSUME NEW p \in PageIds, NEW r \in PageIds, L[p] = L[r], p # r,
                      NEW x \in D[p] \cap D[r]
               PROVE  FALSE
    BY DEF Disjoint
  <2>1. E[p] \cap E[r] = {}
    BY DEF Routes, Disjoint
  <2> QED BY <1>7, <2>1
<1>11. \A p \in PageIds : p >= nx => D[p] = {}
  BY <1>9 DEF Routes
<1>12. IF rt = None THEN \A p \in PageIds : D[p] = {} ELSE D[rt] = Nat
  <2>1. CASE rt = None
    BY <1>9, <2>1 DEF Routes
  <2>2. CASE rt # None
    <3>1. rt \in PageIds /\ J[rt] = Nat
      BY <2>2 DEF Tree, Routes, PageOrNone
    <3>2. rt # c => E[rt] = Nat
      BY <1>2, <3>1
    <3>3. CASE L[rt] > h
      <4>1. rt # c
        BY <1>1, <3>3 DEF h
      <4> QED BY <1>7, <2>2, <3>1, <3>2, <3>3, <4>1
    <3>4. CASE rt = c
      BY <1>1, <1>9, <2>2, <3>1, <3>4 DEF h
    <3>5. CASE ~(L[rt] > h) /\ rt # c
      <4>1. L[rt] <= h /\ s \in G /\ s \in Nat
        BY <1>1, <3>1, <3>5 DEF Pending, G
      <4>2. E[rt] \subseteq G
        BY <1>5, <3>1, <3>2, <3>5, <4>1
      <4> QED BY <1>4, <3>2, <3>5, <4>2
    <3> QED BY <3>3, <3>4, <3>5
  <2> QED BY <2>1, <2>2
<1>13. ASSUME NEW p \in PageIds PROVE RouteAt(pg, D, D, p)
  <2> DEFINE keys == pg[p].keys
             n == Len(keys)
             C(i) == pg[p].children[i]
             kids == 1 .. Len(pg[p].children)
  <2>1. RouteAt(pg, E, J, p)
    BY DEF Routes
  <2>2. ASSUME pg[p].node_type # "Leaf", NEW i \in kids
        PROVE  /\ C(i) \in PageIds /\ L[C(i)] = L[p] - 1 /\ L[p] \in Nat /\ L[C(i)] \in Nat
               /\ C(i) # q
               /\ J[C(i)] = Slot(keys, i, E[p])
               /\ E[p] # {} => J[C(i)] # {}
    <3>1. C(i) # q
      BY <2>2 DEF Orphan
    <3> QED BY <2>1, <2>2, <3>1, ChildAt DEF RouteAt
  <2>3. CASE L[p] > h
    <3>1. D[p] = E[p]
      BY <1>7, <2>3
    <3>2. ASSUME pg[p].node_type # "Leaf", NEW i \in kids
          PROVE  D[C(i)] = J[C(i)]
      <4>1. L[C(i)] >= h
        BY <1>1, <2>2, <2>3, <3>2
      <4>2. CASE L[C(i)] = h
        BY <1>9, <2>2, <3>2, <4>2
      <4>3. CASE L[C(i)] > h
        <5>1. C(i) # c
          BY <1>1, <4>3 DEF h
        <5> QED BY <1>2, <1>7, <2>2, <3>2, <4>3, <5>1
      <4> QED BY <1>1, <2>2, <3>2, <4>1, <4>2, <4>3
    <3> QED BY <2>1, <3>1, <3>2 DEF RouteAt
  <2>4. CASE ~(L[p] > h)
    <3>0. L[p] <= h /\ L[p] \in Nat
      BY <1>1, <2>4
    <3>1. ASSUME pg[p].node_type # "Leaf", NEW i \in kids
          PROVE  /\ ~(L[C(i)] > h) /\ J[C(i)] = E[C(i)]
                 /\ E[C(i)] = Slot(keys, i, E[p])
                 /\ D[C(i)] = (E[C(i)] \ G) \cup (IF m \in E[C(i)] THEN G ELSE {})
      <4>1. L[C(i)] < h
        BY <1>1, <2>2, <3>0, <3>1
      <4>2. C(i) # c /\ ~(L[C(i)] > h)
        BY <1>1, <2>2, <3>1, <4>1 DEF h
      <4> QED BY <1>2, <1>7, <2>2, <3>1, <4>2
    <3>2. CASE D[p] = {}
      <4>1. ASSUME pg[p].node_type # "Leaf", NEW i \in kids
            PROVE  D[C(i)] = Slot(keys, i, D[p])
        <5>1. E[C(i)] \subseteq E[p]
          BY <3>1, <4>1 DEF Slot
        <5>2. D[C(i)] \subseteq D[p]
          BY <1>7, <2>4, <3>1, <4>1, <5>1
        <5> QED BY <3>2, <5>2 DEF Slot
      <4> QED BY <3>2, <4>1 DEF RouteAt
    <3>3. CASE D[p] # {} /\ m \notin E[p]
      <4>1. E[p] \cap G = {} /\ E[p] # {}
        BY <1>9, <3>0, <3>3
      <4>2. D[p] = E[p]
        BY <1>7, <2>4, <3>3, <4>1
      <4>3. ASSUME pg[p].node_type # "Leaf", NEW i \in kids
            PROVE  D[C(i)] = E[C(i)]
        <5>1. E[C(i)] \subseteq E[p]
          BY <3>1, <4>3 DEF Slot
        <5>2. m \notin E[C(i)] /\ E[C(i)] \cap G = {}
          BY <3>3, <4>1, <5>1
        <5>3. D[C(i)] = E[C(i)] \ G
          <6> HIDE DEF G
          <6> QED BY <3>1, <4>3, <5>2
        <5> HIDE DEF G, D, C
        <5> QED BY <5>2, <5>3
      <4> QED BY <2>1, <3>1, <4>2, <4>3 DEF RouteAt
    <3>4. CASE D[p] # {} /\ m \in E[p]
      <4>1. E[p] \subseteq E[c] /\ E[p] # {}
        BY <1>3, <1>5, <3>0, <3>4
      <4>2. E[p] \cap G = {} /\ D[p] = E[p] \cup G
        BY <1>6, <1>7, <2>4, <3>4, <4>1
      <4>3. /\ Increasing(keys)
            /\ \A i \in 1 .. n : keys[i] \in E[p] /\ keys[i] <= m /\ keys[i] \in Nat
        BY <1>1, <1>3, <2>1, <4>1 DEF RouteAt
      <4>4. ASSUME pg[p].node_type # "Leaf", NEW i \in kids
            PROVE  D[C(i)] = Slot(keys, i, D[p]) /\ D[C(i)] # {}
        <5>1. i \in 1 .. n + 1 /\ n \in Nat
          BY <4>4, ChildAt
        <5> HIDE DEF n, keys, C, kids
        <5>2. m \in Slot(keys, i, E[p]) <=> i = n + 1
          BY <1>4, <3>4, <4>3, <5>1 DEF Slot, n
        <5>3. ASSUME NEW x \in G PROVE x \in Slot(keys, i, D[p]) <=> i = n + 1
          <6>1. x \in Nat /\ m < x /\ x \in D[p]
            BY <1>1, <1>4, <4>2, <5>3
          <6>2. \A j \in 1 .. n : keys[j] < x
            BY <1>4, <4>3, <6>1
          <6> QED BY <4>3, <5>1, <6>1, <6>2 DEF Slot, n
        <5>4. \A x : x \notin G => (x \in Slot(keys, i, D[p]) <=> x \in Slot(keys, i, E[p]))
          BY <4>2 DEF Slot
        <5>5. \A x \in E[C(i)] : x \notin G
          BY <3>1, <4>2, <4>4 DEF Slot
        <5>6. D[C(i)] = Slot(keys, i, D[p])
          <6>1. D[C(i)] = E[C(i)] \cup (IF i = n + 1 THEN G ELSE {})
            BY <3>1, <4>4, <5>2, <5>5
          <6>2. E[C(i)] = Slot(keys, i, E[p])
            BY <3>1, <4>4
          <6>3. \A x : x \in D[C(i)] <=> x \in Slot(keys, i, D[p])
            BY <5>3, <5>4, <5>5, <6>1, <6>2 DEF Slot
          <6> QED BY <6>3
        <5>7. E[C(i)] # {}
          BY <2>2, <3>1, <4>1, <4>4
        <5> QED BY <3>1, <4>4, <5>5, <5>6, <5>7
      <4>5. \A i \in 1 .. n : keys[i] \in D[p]
        BY <4>2, <4>3
      <4> QED BY <4>3, <4>4, <4>5 DEF RouteAt
    <3> QED BY <3>2, <3>3, <3>4
  <2> QED BY <2>3, <2>4
<1>14. Routes(pg, nx, rt, L, D, D)
  BY <1>8, <1>10, <1>11, <1>12, <1>13 DEF Routes
<1> QED BY <1>14

---------------------------------------------------------------------------
(* Searching.                                                              *)

\* What node says of key j: v for no entry is None.
Finds(node, j, v) ==
  \/ \E i \in 1 .. Len(node.keys) : node.keys[i] = j /\ node.values[i] = v
  \/ v = None /\ \A i \in 1 .. Len(node.keys) : node.keys[i] # j

\* What the tree says of j: the leaf that owns it does.
Tells(pg, rt, E, j, v) ==
  IF rt = None THEN v = None
  ELSE \A p \in PageIds : pg[p].node_type = "Leaf" /\ j \in E[p] => Finds(pg[p], j, v)

LEMMA ChildOwns ==
  ASSUME NEW pg, NEW nx, NEW rt, NEW L, Tree(pg, nx, rt, L),
         NEW E, Routes(pg, nx, rt, L, E, E),
         NEW p \in PageIds, pg[p].node_type # "Leaf", NEW k \in Nat, k \in E[p],
         NEW c, c = pg[p].children[find_position(pg[p].keys, k)]
  PROVE  k \in E[c]
<1> DEFINE keys == pg[p].keys
           i == find_position(keys, k)
<1>1. keys \in Seq(Nat) /\ Len(pg[p].children) = Len(keys) + 1
  BY InternalFacts DEF Wide, Nodes
<1>2. RouteAt(pg, E, E, p)
  BY DEF Routes
<1>3. Increasing(keys)
  BY <1>2 DEF RouteAt
<1>4. i \in 1 .. Len(keys) + 1
  BY <1>1, PositionFound
<1>5. k \in Slot(keys, i, E[p])
  BY <1>1, <1>3, SlotFacts
<1> HIDE DEF i
<1>6. i \in 1 .. Len(pg[p].children) /\ c = pg[p].children[i]
  BY <1>1, <1>4 DEF i
<1> QED BY <1>2, <1>5, <1>6 DEF RouteAt

\* The leaf at the end of a path owns its key.
LEMMA PathOwns ==
  ASSUME NEW s, NEW L, TreeOf(s, L), NEW root \in PageIds, root < s.next, root = s.root,
         NEW E, Routes(s.pages, s.next, s.root, L, E, E), NEW k \in Nat,
         NEW path, path = Path(s, root, k)
  PROVE  /\ Len(path) >= 1 /\ path[Len(path)] \in PageIds /\ Last(path) = path[Len(path)]
         /\ s.pages[path[Len(path)]].node_type = "Leaf"
         /\ k \in E[path[Len(path)]]
<1> DEFINE N == MaxPages
           f == CHOOSE f : f = [n \in 0 .. N |->
                  IF n = 0 THEN <<root>>
                  ELSE LET above == f[n - 1]
                           node  == read_node(s, Last(above))
                       IN  IF node.node_type = "Leaf" THEN above
                           ELSE Append(above, node.children[find_position(node.keys, k)])]
           T == {n \in 0 .. N : Descends(f[n], s, L, root) /\ k \in E[Last(f[n])]}
<1>1. path = f[N]
  BY DEF Path
<1>2. N \in Nat /\ Tree(s.pages, s.next, s.root, L)
  BY PageFacts DEF TreeOf
<1>3. /\ f[0] = <<root>>
      /\ \A n \in 1 .. N : f[n] = Further(s, k, f[n - 1])
  <2> HIDE DEF f, N
  <2>1. PICK g : Steps(g, N, "Path", <<s, k>>, <<root>>)
    BY <1>2, StepsExist
  <2>2. g = [n \in 0 .. N |-> IF n = 0 THEN <<root>> ELSE Step("Path", <<s, k>>, n, g[n - 1])]
    BY <2>1 DEF Steps
  <2>3. \A n : Step("Path", <<s, k>>, n, g[n - 1]) = Further(s, k, g[n - 1])
    BY DEF Step
  <2>4. g = [n \in 0 .. N |-> IF n = 0 THEN <<root>> ELSE Further(s, k, g[n - 1])]
    BY <2>2, <2>3, Zenon
  <2>5. f = [n \in 0 .. N |-> IF n = 0 THEN <<root>> ELSE Further(s, k, f[n - 1])]
    BY <2>4, Zenon DEF f, Further
  <2> QED BY <1>2, <2>5
<1> HIDE DEF f
<1>4. 0 \in T
  <2> DEFINE first == <<root>>
  <2>1. first \in Seq(PageIds) /\ Len(first) = 1 /\ first[1] = root /\ L[root] \in Nat
    BY <1>2 DEF Tree
  <2>2. Last(first) = root
    BY <2>1 DEF Last
  <2> HIDE DEF first
  <2>3. 1 .. Len(first) = {1} /\ 1 .. Len(first) - 1 = {} /\ L[root] = L[root] + 1 - 1
    BY <2>1
  <2>4. Descends(first, s, L, root)
    BY <2>1, <2>3 DEF Descends
  <2>5. E[root] = Nat
    BY PageFacts DEF Routes
  <2> QED BY <1>2, <1>3, <2>2, <2>4, <2>5 DEF first
<1>5. ASSUME NEW n \in 1 .. N, n - 1 \in T PROVE n \in T
  <2> DEFINE d == f[n - 1]
             p == Last(d)
             c == s.pages[p].children[find_position(s.pages[p].keys, k)]
  <2>1. Descends(d, s, L, root) /\ k \in E[p] /\ f[n] = Further(s, k, d)
    BY <1>3, <1>5
  <2> HIDE DEF d
  <2>2. Descends(f[n], s, L, root)
    BY <2>1, FurtherDescends
  <2>3. d \in Seq(PageIds) /\ Len(d) \in Nat /\ Len(d) >= 1 /\ p \in PageIds
    BY <2>1, LastOf DEF Descends
  <2> HIDE DEF p, c
  <2>4. CASE s.pages[p].node_type = "Leaf"
    <3>1. f[n] = d
      BY <2>1, <2>4 DEF Further, read_node, p
    <3> QED BY <2>1, <2>2, <3>1 DEF p
  <2>5. CASE s.pages[p].node_type # "Leaf"
    <3>1. f[n] = Append(d, c)
      BY <2>1, <2>5 DEF Further, read_node, p, c
    <3>2. c \in PageIds
      BY <2>3, <2>5, ChildFound DEF c
    <3>3. Last(f[n]) = c
      BY <2>3, <3>1, <3>2 DEF Last
    <3>4. k \in E[c]
      BY <1>2, <2>1, <2>3, <2>5, ChildOwns DEF c
    <3> QED BY <2>2, <3>3, <3>4
  <2> QED BY <2>4, <2>5
<1>6. k \in E[Last(path)]
  <2>1. N \in 0 .. N
    BY <1>2
  <2> HIDE DEF T, N
  <2>2. N \in T
    BY <1>2, <1>4, <1>5, <2>1, UpTo
  <2> QED BY <1>1, <2>2 DEF T
<1>7. Descends(path, s, L, root) /\ s.pages[path[Len(path)]].node_type = "Leaf"
  BY PathDescends
<1> QED BY <1>6, <1>7, LastOf DEF Descends

\* Search answers what the tree tells.
LEMMA SearchTells ==
  ASSUME NEW s, NEW L, TreeOf(s, L), NEW E, Routes(s.pages, s.next, s.root, L, E, E),
         NEW k \in Nat, NEW v, Tells(s.pages, s.root, E, k, v)
  PROVE  search(s, s.root, k) = v
<1>1. CASE s.root = None
  BY <1>1 DEF search, Tells
<1>2. CASE s.root # None
  <2> DEFINE path == Path(s, s.root, k)
             p == path[Len(path)]
             node == s.pages[p]
             hits == PositionsOf(node.keys, k)
  <2>1. s.root \in PageIds /\ s.root < s.next /\ Tree(s.pages, s.next, s.root, L)
    BY <1>2 DEF TreeOf, Tree, PageOrNone, RootOK
  <2>2. p \in PageIds /\ Last(path) = p /\ node.node_type = "Leaf" /\ k \in E[p]
    BY <2>1, PathOwns
  <2>3. search(s, s.root, k) = IF hits = {} THEN None ELSE node.values[First(hits)]
    BY <1>2, <2>2 DEF search, find_leaf, read_node
  <2> HIDE DEF path, p
  <2>4. Finds(node, k, v)
    BY <1>2, <2>2 DEF Tells
  <2>5. Increasing(node.keys)
    BY <2>2 DEF Routes, RouteAt
  <2>6. node.keys \in Seq(Nat)
    BY <2>1, <2>2, NodeFacts DEF Tree
  <2>7. /\ hits \subseteq 1 .. Len(node.keys)
        /\ \A i \in 1 .. Len(node.keys) : i \in hits <=> node.keys[i] = k
    BY <2>6, SMTT(20) DEF PositionsOf
  <2> HIDE DEF node, hits
  <2>8. CASE hits = {}
    BY <2>3, <2>4, <2>7, <2>8 DEF Finds
  <2>9. CASE hits # {}
    <3>1. First(hits) \in hits
      <4>1. hits \in SUBSET Nat
        BY <2>6, <2>7
      <4> QED BY <2>9, <4>1, FirstSpec
    <3> DEFINE f == First(hits)
    <3> HIDE DEF f
    <3>2. f \in 1 .. Len(node.keys) /\ node.keys[f] = k
      BY <2>7, <3>1 DEF f
    <3>3. PICK i \in 1 .. Len(node.keys) : node.keys[i] = k /\ node.values[i] = v
      BY <2>4, <3>2 DEF Finds
    <3>4. i = f
      <4>1. ~(i < f) /\ ~(f < i)
        BY <2>5, <2>6, <3>2, <3>3 DEF Increasing
      <4> QED BY <2>6, <3>2, <3>3, <4>1
    <3> QED BY <2>3, <2>9, <3>3, <3>4 DEF f
  <2> QED BY <2>8, <2>9
<1> QED BY <1>1, <1>2

---------------------------------------------------------------------------
(* What a call leaves that fails.  k is the key of the call.               *)

Others(k) == Keys \ (doubt \cup {k})

AllTell(pg, rt, E, k) == \A j \in Others(k) : Tells(pg, rt, E, j, contents[j])

\* Half of a split is on a page that this call created.
Torn(x) == \E p \in PageIds : /\ next_page_id <= p /\ p < x.next
                              /\ Len(x.pages[p].keys) > 0

Found(x, k) == \E L, E : /\ Tree(x.pages, x.next, x.root, L)
                         /\ Routes(x.pages, x.next, x.root, L, E, E)
                         /\ AllTell(x.pages, x.root, E, k) \/ Torn(x)

\* A call may fail in s, or has failed in one of its cuts.
Safe(s, k) == \A c \in s.cuts : c.merges = 0 => Found(c, k)
Ready(s, k) == Safe(s, k) /\ (s.merges = 0 => Found(s, k))

LEMMA ReadyKept ==
  ASSUME NEW s, NEW t, NEW k, Ready(s, k), SameTree(t, s), t.cuts = s.cuts
  PROVE  Ready(t, k)
BY DEF Ready, Safe, Found, SameTree, Torn

LEMMA MayFailReady ==
  ASSUME NEW s, NEW k, s \in States, Ready(s, k)
  PROVE  Ready(MayFail(s), k)
<1>1. CASE ~Unhurt
  BY <1>1 DEF MayFail
<1>2. CASE Unhurt
  <2> DEFINE t == MayFail(s)
             c == Cut(s)
  <2>1. /\ c.pages = s.pages /\ c.next = s.next /\ c.root = s.root /\ c.merges = s.merges
        /\ t.cuts = s.cuts \cup {c} /\ SameTree(t, s)
    BY <1>2 DEF MayFail, Cut, States, SameTree
  <2> HIDE DEF t, c
  <2>2. c.merges = 0 => Found(c, k)
    BY <2>1 DEF Ready, Found, Torn
  <2>3. Safe(t, k)
    BY <2>1, <2>2 DEF Ready, Safe
  <2>4. t.merges = 0 => Found(t, k)
    BY <2>1 DEF Ready, Found, SameTree, Torn
  <2> QED BY <2>3, <2>4 DEF Ready, t
<1> QED BY <1>1, <1>2

LEMMA FetchReady ==
  ASSUME NEW s, NEW b, NEW x, NEW y, NEW L, NEW p \in PageIds,
         Holds(s, b, x, y, None), TreeOf(s, L), NEW k, Ready(s, k)
  PROVE  Ready(fetch(s, p), k)
<1> DEFINE m == MayFail(s)
<1>1. s \in States
  BY DEF Holds
<1>2. Holds(m, b, x, y, None) /\ Ready(m, k)
  BY <1>1, MayFailHolds, MayFailReady
<1> HIDE DEF m
<1>3. m \in States
  BY <1>2 DEF Holds
<1>4. Pin(m, p).cuts = m.cuts /\ SameTree(Pin(m, p), m)
  BY <1>2, <1>3, CutsKept, PinHolds
<1>5. Ready(Pin(m, p), k)
  BY <1>2, <1>4, ReadyKept
<1> QED BY <1>5 DEF fetch, m

LEMMA ReleaseReady ==
  ASSUME NEW s, NEW b, NEW x, NEW y, NEW p \in PageIds, Holds(s, b, x, y, p),
         NEW k, Ready(s, k)
  PROVE  Ready(release_node(s, p), k)
<1>1. s \in States
  BY DEF Holds
<1>2. release_node(s, p).cuts = s.cuts /\ SameTree(release_node(s, p), s)
  BY <1>1, CutsKept, ReleaseHolds
<1> QED BY <1>2, ReadyKept

LEMMA SaveReady ==
  ASSUME NEW s, NEW b, Holds(s, b, None, None, None), NEW k, Ready(s, k)
  PROVE  Ready(save_metadata(s), k)
<1>1. s \in States
  BY DEF Holds
<1> QED BY <1>1, MayFailReady DEF save_metadata

LEMMA VisitReady ==
  ASSUME NEW s, NEW b, NEW x, NEW y, NEW L, NEW p \in PageIds,
         Holds(s, b, x, y, None), TreeOf(s, L), NEW k, Ready(s, k)
  PROVE  Ready(visit(s, p), k)
<1> DEFINE m == fetch(s, p)
<1>1. Holds(m, b, x, y, p) /\ Ready(m, k)
  BY FetchHolds, FetchReady
<1> HIDE DEF m
<1>2. Ready(release_node(m, p), k)
  BY <1>1, ReleaseReady
<1> QED BY <1>2 DEF visit, m

LEMMA VisitEachReady ==
  ASSUME NEW s, NEW b, NEW x, NEW y, NEW L, NEW ps \in Seq(PageIds),
         Holds(s, b, x, y, None), TreeOf(s, L), NEW k, Ready(s, k)
  PROVE  Ready(visit_each(s, ps), k)
<1> DEFINE N == Len(ps)
           f == CHOOSE f : f = [n \in 0 .. N |-> IF n = 0 THEN s ELSE visit(f[n - 1], ps[n])]
           P(n) == Holds(f[n], b, x, y, None) /\ SameTree(f[n], s) /\ Ready(f[n], k)
           T == {n \in 0 .. N : P(n)}
<1>1. visit_each(s, ps) = f[N]
  BY DEF visit_each
<1>2. N \in Nat /\ \A n \in 1 .. N : ps[n] \in PageIds
  OBVIOUS
<1>3. f[0] = s /\ \A n \in 1 .. N : f[n] = visit(f[n - 1], ps[n])
  <2> HIDE DEF f, N
  <2>1. PICK g : Visits(g, N, s, ps)
    BY <1>2, VisitsExist
  <2>2. f = [n \in 0 .. N |-> IF n = 0 THEN s ELSE visit(f[n - 1], ps[n])]
    BY <2>1 DEF f, Visits
  <2> QED BY <1>2, <2>2
<1> HIDE DEF f
<1>4. 0 \in T
  BY <1>2, <1>3 DEF SameTree
<1>5. ASSUME NEW n \in 1 .. N, n - 1 \in T PROVE n \in T
  <2> DEFINE e == f[n - 1]
             p == ps[n]
  <2>1. Holds(e, b, x, y, None) /\ SameTree(e, s) /\ Ready(e, k) /\ p \in PageIds
    BY <1>2, <1>5
  <2> HIDE DEF e, p
  <2>2. TreeOf(e, L)
    BY <2>1, SameTreeOf
  <2>3. Holds(visit(e, p), b, x, y, None) /\ SameTree(visit(e, p), e) /\ Ready(visit(e, p), k)
    BY <2>1, <2>2, VisitHolds, VisitReady
  <2>4. f[n] = visit(e, p)
    BY <1>3 DEF e, p
  <2> QED BY <2>1, <2>3, <2>4 DEF SameTree
<1>6. N \in T
  <2>1. N \in 0 .. N
    BY <1>2
  <2> HIDE DEF T
  <2> QED BY <1>2, <1>4, <1>5, <2>1, UpTo
<1> QED BY <1>1, <1>6

LEMMA BothCuts ==
  ASSUME NEW c, NEW b, NEW p \in PageIds, NEW q \in PageIds, Holds(c, b, None, p, q),
         NEW l \in Nodes, Whole(l), NEW r \in Nodes, Whole(r),
         NEW t, t = release_node(release_node(write_node(write_node(c, p, l), q, r), p), q)
  PROVE  t.cuts = c.cuts
<1> DEFINE w1 == write_node(c, p, l)
           w2 == write_node(w1, q, r)
           w3 == release_node(w2, p)
<1>0. t = release_node(w3, q)
  OBVIOUS
<1>1. Holds(c, b, None, q, p) /\ deserialize(l) = l /\ deserialize(r) = r
  BY HoldsAny, ReadsBack
<1>2. Holds(w1, b, None, q, p)
  BY <1>1, WriteHolds
<1>3. w1.cuts = c.cuts
  BY CutsKept DEF Holds
<1> HIDE DEF w1
<1>4. Holds(w1, b, None, p, q)
  BY <1>2, HoldsAny
<1>5. Holds(w2, b, None, p, q) /\ w2.cuts = w1.cuts
  <2>1. Holds(w2, b, None, p, q)
    BY <1>1, <1>4, WriteHolds
  <2> QED BY <1>4, <2>1, CutsKept DEF Holds
<1> HIDE DEF w2
<1>6. Holds(w2, b, None, q, p)
  BY <1>5, HoldsAny
<1>7. Holds(w3, b, None, q, None) /\ w3.cuts = w2.cuts
  BY <1>6, ReleaseHolds, CutsKept DEF Holds
<1> HIDE DEF w3
<1>8. t.cuts = w3.cuts
  BY <1>0, <1>7, CutsKept DEF Holds
<1> QED BY <1>3, <1>5, <1>7, <1>8

AkinPages(pg2, pg) == /\ pg \in [PageIds -> Nodes] /\ pg2 \in [PageIds -> Nodes]
                      /\ \A p \in PageIds : Akin(pg2[p], pg[p])

LEMMA ReparentedAkin ==
  ASSUME NEW pg \in [PageIds -> Nodes], NEW S, NEW parent \in PageOrNone, NEW pg2,
         Reparented(pg2, pg, S, parent)
  PROVE  AkinPages(pg2, pg)
<1>1. \A p \in PageIds : /\ [pg[p] EXCEPT !.parent = parent] \in Nodes
                         /\ Akin([pg[p] EXCEPT !.parent = parent], pg[p])
                         /\ Akin(pg[p], pg[p])
  BY DEF Nodes, Akin
<1> QED BY <1>1 DEF Reparented, AkinPages

LEMMA TellsAkin ==
  ASSUME NEW pg, NEW pg2, AkinPages(pg2, pg), NEW rt, NEW E, NEW j, NEW v, Tells(pg, rt, E, j, v)
  PROVE  Tells(pg2, rt, E, j, v)
<1>1. ASSUME NEW p \in PageIds, Finds(pg[p], j, v) PROVE Finds(pg2[p], j, v)
  BY <1>1 DEF Finds, AkinPages, Akin
<1> QED BY <1>1 DEF Tells, AkinPages, Akin

LEMMA FoundAkin ==
  ASSUME NEW s, NEW t, NEW k, Found(s, k), AkinPages(t.pages, s.pages), SameRoot(t, s),
         RootOK(t.pages, t.next, t.root)
  PROVE  Found(t, k)
<1>1. PICK L, E : /\ Tree(s.pages, s.next, s.root, L)
                  /\ Routes(s.pages, s.next, s.root, L, E, E)
                  /\ AllTell(s.pages, s.root, E, k) \/ Torn(s)
  BY DEF Found
<1>2. t.next = s.next /\ t.root = s.root
  BY DEF SameRoot
<1>3. Tree(t.pages, t.next, t.root, L)
  BY <1>1, <1>2, TreeAkin DEF AkinPages
<1>4. Routes(t.pages, t.next, t.root, L, E, E)
  BY <1>1, <1>2, RoutesAkin DEF AkinPages
<1>5. AllTell(s.pages, s.root, E, k) => AllTell(t.pages, t.root, E, k)
  BY <1>2, TellsAkin DEF AllTell
<1>6. Torn(s) => Torn(t)
  BY <1>2 DEF Torn, AkinPages, Akin
<1> QED BY <1>1, <1>3, <1>4, <1>5, <1>6 DEF Found

\* parent may become the parent of S: it does not hide who the root is.
MayName(s, S, parent) == \/ s.root \notin S
                         \/ parent = None
                         \/ parent < s.next /\ s.pages[parent].node_type = "Leaf"

LEMMA UpdateParentReady ==
  ASSUME NEW s, NEW b, NEW x, NEW y, NEW L, NEW c \in PageIds, NEW parent \in PageOrNone,
         Holds(s, b, x, y, None), TreeOf(s, L), MayName(s, {c}, parent), NEW k, Ready(s, k),
         NEW t, t = update_parent(s, c, parent)
  PROVE  Ready(t, k) /\ TreeOf(t, L) /\ AkinPages(t.pages, s.pages)
<1> DEFINE m == fetch(s, c)
           node == [read_node(s, c) EXCEPT !.parent = parent]
           S == {c}
<1>1. Holds(m, b, x, y, c) /\ Ready(m, k)
  BY FetchHolds, FetchReady
<1>2. Reparented(t.pages, s.pages, S, parent) /\ SameRoot(t, s)
  <2>1. Reparented(t.pages, s.pages, S, parent)
    BY UpdateParentHolds
  <2> HIDE DEF S
  <2> QED BY <2>1, UpdateParentHolds
<1>3. s.pages \in [PageIds -> Nodes]
  BY DEF TreeOf, Tree
<1>4. AkinPages(t.pages, s.pages)
  <2> HIDE DEF S
  <2> QED BY <1>2, <1>3, ReparentedAkin
<1>5. Tree(t.pages, s.next, s.root, L)
  <2> HIDE DEF S
  <2>1. MayName(s, S, parent)
    BY DEF S
  <2> QED BY <1>2, <2>1, ReparentedTree DEF MayName
<1>6. t.cuts = m.cuts
  <2>1. s.pages[c] \in Nodes /\ Whole(s.pages[c])
    BY TreeFacts
  <2>2. node \in Nodes /\ Whole(node)
    BY <2>1 DEF Nodes, Whole, read_node
  <2> HIDE DEF m, node
  <2>3. deserialize(node) = node
    BY <2>2, ReadsBack
  <2>4. t = Done(m, c, node)
    BY DEF update_parent, m, node
  <2> QED BY <1>1, <2>2, <2>3, <2>4, DoneCuts
<1>7. t.merges = 0 => Found(t, k)
  <2>1. t.merges = s.merges /\ RootOK(t.pages, t.next, t.root)
    BY <1>2, <1>5 DEF SameRoot, Tree
  <2> QED BY <1>2, <1>4, <2>1, FoundAkin DEF Ready
<1>8. Safe(t, k)
  BY <1>1, <1>6 DEF Ready, Safe
<1>9. TreeOf(t, L)
  BY <1>2, <1>5 DEF TreeOf, SameRoot
<1> QED BY <1>4, <1>7, <1>8, <1>9 DEF Ready

LEMMA UpdateParentsReady ==
  ASSUME NEW s, NEW b, NEW x, NEW y, NEW L, NEW ps \in Seq(PageIds), NEW parent \in PageOrNone,
         Holds(s, b, x, y, None), TreeOf(s, L),
         MayName(s, {ps[i] : i \in 1 .. Len(ps)}, parent), NEW k, Ready(s, k)
  PROVE  /\ Ready(update_parents(s, ps, parent), k)
         /\ AkinPages(update_parents(s, ps, parent).pages, s.pages)
<1> DEFINE N == Len(ps)
           f == CHOOSE f : f = [n \in 0 .. N |-> IF n = 0 THEN s
                                                 ELSE update_parent(f[n - 1], ps[n], parent)]
           P(n) == /\ Holds(f[n], b, x, y, None) /\ Ready(f[n], k) /\ TreeOf(f[n], L)
                   /\ AkinPages(f[n].pages, s.pages) /\ SameRoot(f[n], s)
           T == {n \in 0 .. N : P(n)}
<1>1. update_parents(s, ps, parent) = f[N]
  BY DEF update_parents
<1>2. N \in Nat /\ \A n \in 1 .. N : ps[n] \in PageIds
  OBVIOUS
<1>3. f[0] = s /\ \A n \in 1 .. N : f[n] = update_parent(f[n - 1], ps[n], parent)
  <2> HIDE DEF f, N
  <2>1. PICK g : Updates(g, N, s, ps, parent)
    BY <1>2, UpdatesExist
  <2>2. f = [n \in 0 .. N |-> IF n = 0 THEN s ELSE update_parent(f[n - 1], ps[n], parent)]
    BY <2>1 DEF f, Updates
  <2> QED BY <1>2, <2>2
<1> HIDE DEF f
<1>4. 0 \in T
  <2>1. s.pages \in [PageIds -> Nodes]
    BY DEF TreeOf, Tree
  <2> QED BY <1>2, <1>3, <2>1 DEF SameRoot, AkinPages, Akin
<1>5. ASSUME NEW n \in 1 .. N, n - 1 \in T PROVE n \in T
  <2> DEFINE e == f[n - 1]
             c == ps[n]
             u == f[n]
  <2>1. /\ Holds(e, b, x, y, None) /\ Ready(e, k) /\ TreeOf(e, L)
        /\ AkinPages(e.pages, s.pages) /\ SameRoot(e, s) /\ c \in PageIds
    BY <1>2, <1>5
  <2>2. u = update_parent(e, c, parent)
    BY <1>3
  <2> HIDE DEF e, u
  <2>3. MayName(e, {c}, parent)
    <3>1. e.root = s.root /\ e.next = s.next
      BY <2>1 DEF SameRoot
    <3>2. parent \in PageIds => e.pages[parent].node_type = s.pages[parent].node_type
      BY <2>1 DEF AkinPages, Akin
    <3>3. parent = None \/ parent \in PageIds
      BY DEF PageOrNone
    <3> QED BY <3>1, <3>2, <3>3 DEF MayName
  <2> HIDE DEF c
  <2>4. Holds(u, b, x, y, None)
    BY <2>1, <2>2, UpdateParentHolds
  <2>5. SameRoot(u, e)
    BY <2>1, <2>2, <2>4, UpdateParentHolds
  <2>6. Ready(u, k) /\ TreeOf(u, L) /\ AkinPages(u.pages, e.pages)
    BY <2>1, <2>2, <2>3, UpdateParentReady
  <2>7. AkinPages(u.pages, s.pages) /\ SameRoot(u, s)
    BY <2>1, <2>5, <2>6 DEF AkinPages, Akin, SameRoot
  <2> QED BY <2>4, <2>6, <2>7 DEF u
<1>6. N \in T
  <2>1. N \in 0 .. N
    BY <1>2
  <2> HIDE DEF T
  <2> QED BY <1>2, <1>4, <1>5, <2>1, UpTo
<1> QED BY <1>1, <1>6

LEMMA RouteSame ==
  ASSUME NEW pg, NEW E, NEW J, NEW p, RouteAt(pg, E, J, p),
         NEW pg2, NEW E2, NEW J2, Akin(pg2[p], pg[p]), E2[p] = E[p],
         pg[p].node_type # "Leaf" =>
           \A i \in 1 .. Len(pg[p].children) : J2[pg[p].children[i]] = J[pg[p].children[i]]
  PROVE  RouteAt(pg2, E2, J2, p)
BY DEF RouteAt, Akin

\* A page that is only created changes nothing.
LEMMA RoutesCreated ==
  ASSUME NEW pg, NEW nx, NEW rt, NEW L, Tree(pg, nx, rt, L), nx \in PageIds,
         NEW E, NEW J, Routes(pg, nx, rt, L, E, J),
         NEW pg2, pg2 = pg \/ Wrote(pg2, pg, nx, Zeroed)
  PROVE  /\ Routes(pg2, nx + 1, rt, L, E, J)
         /\ \A j, v : Tells(pg, rt, E, j, v) => Tells(pg2, rt, E, j, v)
<1>1. pg \in [PageIds -> Nodes] /\ nx \in Nat /\ E[nx] = {} /\ pg[nx].node_type = "Leaf"
  <2>1. pg \in [PageIds -> Nodes] /\ nx \in Nat /\ pg[nx].node_type = "Leaf"
    BY PageFacts, Fresh DEF Tree
  <2>2. nx >= nx
    BY <2>1
  <2> QED BY <2>1, <2>2 DEF Routes
<1>2. Zeroed.node_type = "Leaf"
  BY DEF Zeroed, new_leaf
<1>3. /\ \A p \in PageIds : p # nx => pg2[p] = pg[p]
      /\ pg2[nx].node_type = "Leaf"
  BY <1>1, <1>2 DEF Wrote
<1>4. ASSUME NEW p \in PageIds PROVE RouteAt(pg2, E, J, p)
  <2>1. CASE p = nx
    BY <1>1, <1>3, <2>1 DEF RouteAt
  <2>2. CASE p # nx
    BY <1>3, <2>2 DEF Routes, RouteAt
  <2> QED BY <2>1, <2>2
<1>5. \A p \in PageIds : p >= nx + 1 => E[p] = {}
  BY <1>1, PageFacts DEF Routes
<1>6. Routes(pg2, nx + 1, rt, L, E, J)
  BY <1>4, <1>5 DEF Routes
<1>7. \A j, v : Tells(pg, rt, E, j, v) => Tells(pg2, rt, E, j, v)
  BY <1>1, <1>3 DEF Tells
<1> QED BY <1>6, <1>7

LEMMA FoundCreated ==
  ASSUME NEW s, NEW L, TreeOf(s, L), s.next \in PageIds, NEW k, Found(s, k),
         NEW t, t.next = s.next + 1, t.root = s.root,
         t.pages = s.pages \/ Wrote(t.pages, s.pages, s.next, Zeroed)
  PROVE  Found(t, k)
<1>1. PICK M, E : /\ Tree(s.pages, s.next, s.root, M)
                  /\ Routes(s.pages, s.next, s.root, M, E, E)
                  /\ AllTell(s.pages, s.root, E, k) \/ Torn(s)
  BY DEF Found
<1>2. Tree(t.pages, t.next, t.root, M)
  <2>1. CASE t.pages = s.pages
    BY <1>1, <2>1, LaterTree
  <2>2. CASE Wrote(t.pages, s.pages, s.next, Zeroed)
    <3> DEFINE u == [pages |-> t.pages, next |-> t.next, root |-> t.root, merges |-> s.merges]
    <3>1. Created(u, s) /\ TreeOf(s, M)
      BY <1>1, <2>2 DEF Created, Wrote, TreeOf
    <3>2. u.pages = t.pages /\ u.next = t.next /\ u.root = t.root
      OBVIOUS
    <3> HIDE DEF u
    <3>3. TreeOf(u, M)
      BY <3>1, CreatedTree
    <3> QED BY <3>2, <3>3 DEF TreeOf
  <2> QED BY <2>1, <2>2
<1>3. /\ Routes(t.pages, t.next, t.root, M, E, E)
      /\ \A j, v : Tells(s.pages, s.root, E, j, v) => Tells(t.pages, t.root, E, j, v)
  BY <1>1, RoutesCreated
<1>4. AllTell(s.pages, s.root, E, k) => AllTell(t.pages, t.root, E, k)
  BY <1>3 DEF AllTell
<1>5. Torn(s) => Torn(t)
  <2>1. s.next \in Nat /\ s.pages \in [PageIds -> Nodes]
    BY PageFacts DEF TreeOf, Tree
  <2>2. \A p \in PageIds : p < s.next => t.pages[p] = s.pages[p] /\ p < t.next
    BY <2>1, PageFacts DEF Wrote
  <2> QED BY <2>2 DEF Torn
<1> QED BY <1>1, <1>2, <1>3, <1>4, <1>5 DEF Found

LEMMA CreateReady ==
  ASSUME NEW s, NEW b, NEW x, NEW y, NEW L, Holds(s, b, x, y, None), TreeOf(s, L),
         s.next \in PageIds, NEW k, Ready(s, k), NEW t, t = create_page(s)
  PROVE  Ready(t, k)
<1> DEFINE a == [s EXCEPT !.next = s.next + 1]
           m == MayFail(a)
           e == Pin(m, s.next)
           G == [e.pages EXCEPT ![s.next] = Zeroed]
<1>1. s \in States /\ s.next \in Nat /\ s.next + 1 \in Nat
  BY PageFacts DEF Holds
<1>2. /\ a \in States /\ a.next = s.next + 1 /\ a.pages = s.pages /\ a.root = s.root
      /\ a.merges = s.merges /\ a.pins = s.pins /\ a.held = s.held /\ a.four = s.four
      /\ a.stray = s.stray /\ a.cuts = s.cuts
  BY <1>1 DEF States
<1>3. t = [e EXCEPT !.pages = G]
  BY DEF create_page
<1> HIDE DEF a
<1>4. Holds(a, b, x, y, None)
  BY <1>2 DEF Holds
<1>5. TreeOf(a, L)
  <2>1. Tree(s.pages, s.next + 1, s.root, L)
    BY LaterTree DEF TreeOf
  <2> QED BY <1>2, <2>1 DEF TreeOf
<1>6. Ready(a, k)
  <2>1. a.merges = 0 => Found(a, k)
    <3>1. s.merges = 0 => Found(s, k)
      BY DEF Ready
    <3> QED BY <1>2, <3>1, FoundCreated
  <2> QED BY <1>2, <2>1 DEF Ready, Safe
<1>7. Holds(m, b, x, y, None) /\ Ready(m, k)
  BY <1>2, <1>4, <1>5, <1>6, MayFailHolds, MayFailReady
<1> HIDE DEF m
<1>8. Holds(e, b, x, y, s.next) /\ e.cuts = m.cuts
  <2>1. m \in States
    BY <1>7 DEF Holds
  <2> QED BY <1>7, <2>1, PinHolds, CutsKept
<1> HIDE DEF e
<1>9. e \in States /\ G \in [PageIds -> Nodes]
  <2>1. e \in States /\ e.pages \in [PageIds -> Nodes] /\ Zeroed \in Nodes
    BY <1>8, NewLeaf DEF Holds, States
  <2> QED BY <2>1
<1>10. t.cuts = e.cuts
  <2> HIDE DEF G
  <2> QED BY <1>3, <1>9 DEF States
<1>11. Created(t, s)
  BY CreateHolds
<1>12. t.merges = 0 => Found(t, k)
  <2>1. t.next = s.next + 1 /\ t.root = s.root /\ t.merges = s.merges
        /\ Wrote(t.pages, s.pages, s.next, Zeroed)
    BY <1>11 DEF Created, Wrote
  <2>2. s.merges = 0 => Found(s, k)
    BY DEF Ready
  <2> QED BY <2>1, <2>2, FoundCreated
<1>13. Safe(t, k)
  BY <1>7, <1>8, <1>10 DEF Ready, Safe
<1> QED BY <1>12, <1>13 DEF Ready

---------------------------------------------------------------------------
(* Leaves.                                                                 *)

LEMMA LeafPut ==
  ASSUME NEW leaf, LeafNode(leaf), NEW k \in Nat, NEW v \in Nat,
         NEW fuller, fuller = WithEntry(leaf, k, v), Increasing(leaf.keys)
  PROVE  /\ Increasing(fuller.keys)
         /\ \A X : /\ k \in X
                   /\ \A i \in 1 .. Len(leaf.keys) : leaf.keys[i] \in X
              => \A i \in 1 .. Len(fuller.keys) : fuller.keys[i] \in X
         /\ Finds(fuller, k, v)
         /\ \A j, w : j # k /\ Finds(leaf, j, w) => Finds(fuller, j, w)
<1> DEFINE keys == leaf.keys
           values == leaf.values
           n == Len(keys)
           hits == PositionsOf(keys, k)
<1>1. keys \in Seq(Nat) /\ values \in Seq(Nat) /\ Len(values) = n /\ n \in Nat
      /\ \A i \in 1 .. n : keys[i] \in Nat
  <2>1. leaf \in Nodes /\ Len(leaf.values) = Len(leaf.keys)
    BY DEF LeafNode
  <2>2. leaf.keys \in Seq(Nat) /\ leaf.values \in Seq(Nat)
    BY <2>1 DEF Nodes
  <2> HIDE DEF keys, values
  <2>3. keys \in Seq(Nat) /\ values \in Seq(Nat) /\ Len(values) = Len(keys)
    BY <2>1, <2>2 DEF keys, values
  <2> QED BY <2>3
<1>2. hits \in SUBSET Nat /\ hits \subseteq 1 .. n /\ \A i \in 1 .. n : i \in hits <=> keys[i] = k
  BY <1>1 DEF PositionsOf
<1>3. CASE hits # {}
  <2> DEFINE h == First(hits)
             w == Replace(values, h, v)
  <2>1. h \in 1 .. n /\ keys[h] = k
    BY <1>2, <1>3, FirstSpec
  <2> HIDE DEF h
  <2>2. /\ w[h] = v /\ \A i \in 1 .. n : i # h => w[i] = values[i]
    BY <1>1, <2>1 DEF Replace
  <2>3. fuller = [leaf EXCEPT !.values = w]
    BY <1>3 DEF WithEntry, h
  <2> HIDE DEF w
  <2>4. fuller.keys = keys /\ fuller.values = w
    BY <2>3 DEF LeafNode, Nodes
  <2>5. Finds(fuller, k, v)
    BY <2>1, <2>2, <2>4 DEF Finds
  <2>6. ASSUME NEW j, NEW u, j # k, Finds(leaf, j, u) PROVE Finds(fuller, j, u)
    <3>1. CASE \E i \in 1 .. n : keys[i] = j /\ values[i] = u
      <4>1. PICK i \in 1 .. n : keys[i] = j /\ values[i] = u
        BY <3>1
      <4>2. w[i] = u
        BY <2>1, <2>2, <2>6, <4>1
      <4> QED BY <2>4, <4>1, <4>2 DEF Finds
    <3>2. CASE u = None /\ \A i \in 1 .. n : keys[i] # j
      BY <2>4, <3>2 DEF Finds
    <3> QED BY <2>6, <3>1, <3>2 DEF Finds
  <2> QED BY <2>4, <2>5, <2>6
<1>4. CASE hits = {}
  <2> DEFINE f == find_position(keys, k)
             a == InsertAt(keys, f, k)
             w == InsertAt(values, f, v)
  <2>1. /\ f \in 1 .. n + 1
        /\ f <= n => k < keys[f]
        /\ \A j \in 1 .. f - 1 : keys[j] <= k
    BY <1>1, PositionFound
  <2> HIDE DEF f
  <2>2. fuller = [leaf EXCEPT !.keys = a, !.values = w]
    BY <1>4 DEF WithEntry, f
  <2>3. InsertedAt(a, keys, f, k) /\ InsertedAt(w, values, f, v)
    BY <1>1, <2>1, InsertAtSpec
  <2> HIDE DEF a, w
  <2>4. fuller.keys = a /\ fuller.values = w
    BY <2>2 DEF LeafNode, Nodes
  <2>5. \A j \in 1 .. n : keys[j] # k
    BY <1>2, <1>4
  <2> HIDE DEF keys, values, n, hits
  <2>6. /\ Len(a) = n + 1 /\ Len(w) = n + 1
        /\ \A j \in 1 .. n + 1 :
             /\ a[j] = IF j < f THEN keys[j] ELSE IF j = f THEN k ELSE keys[j - 1]
             /\ w[j] = IF j < f THEN values[j] ELSE IF j = f THEN v ELSE values[j - 1]
    BY <1>1, <2>3 DEF InsertedAt, n
  <2>7. \A j \in 1 .. n : /\ j < f => keys[j] < k
                          /\ j >= f => k < keys[j]
    <3>1. ASSUME NEW j \in 1 .. n, j < f PROVE keys[j] < k
      BY <1>1, <2>1, <2>5, <3>1
    <3>2. ASSUME NEW j \in 1 .. n, j >= f PROVE k < keys[j]
      <4>1. f \in 1 .. n /\ k < keys[f]
        BY <1>1, <2>1, <3>2
      <4>2. j = f \/ keys[f] < keys[j]
        BY <1>1, <3>2, <4>1 DEF Increasing, keys, n
      <4> QED BY <1>1, <4>1, <4>2
    <3> QED BY <3>1, <3>2
  <2>8. Increasing(a)
    <3> SUFFICES ASSUME NEW i \in 1 .. n + 1, NEW j \in 1 .. n + 1, i < j
                 PROVE  a[i] < a[j]
      BY <2>6 DEF Increasing
    <3>1. \A p, q \in 1 .. n : p < q => keys[p] < keys[q]
      BY DEF Increasing, keys, n
    <3>2. i < f => i \in 1 .. n /\ a[i] = keys[i]
      BY <1>1, <2>1, <2>6
    <3>3. i > f => i - 1 \in 1 .. n /\ a[i] = keys[i - 1]
      BY <1>1, <2>1, <2>6, SMTT(20)
    <3>4. j < f => j \in 1 .. n /\ a[j] = keys[j]
      BY <1>1, <2>1, <2>6
    <3>5. j > f => j - 1 \in 1 .. n /\ a[j] = keys[j - 1]
      BY <1>1, <2>1, <2>6
    <3>6. i = f => a[i] = k
      BY <2>6
    <3>7. j = f => a[j] = k
      BY <2>6
    <3>8. CASE j < f
      BY <1>1, <2>1, <3>1, <3>2, <3>4, <3>8
    <3>9. CASE j = f
      BY <1>1, <2>1, <2>7, <3>2, <3>7, <3>9
    <3>10. CASE j > f /\ i = f
      BY <1>1, <2>1, <2>7, <3>5, <3>6, <3>10
    <3>11. CASE i > f
      BY <1>1, <2>1, <3>1, <3>3, <3>5, <3>11
    <3>12. CASE i < f /\ j > f
      BY <1>1, <2>1, <2>7, <3>2, <3>5, <3>12, SMTT(20)
    <3> QED BY <1>1, <2>1, <3>8, <3>9, <3>10, <3>11, <3>12
  <2>9. ASSUME NEW X, k \in X, \A i \in 1 .. n : keys[i] \in X, NEW i \in 1 .. n + 1
        PROVE  a[i] \in X
    BY <1>1, <2>1, <2>6, <2>9, SMTT(20)
  <2>10. Finds(fuller, k, v)
    BY <2>1, <2>4, <2>6 DEF Finds
  <2>11. ASSUME NEW j, NEW u, j # k, Finds(leaf, j, u) PROVE Finds(fuller, j, u)
    <3>1. CASE \E i \in 1 .. n : keys[i] = j /\ values[i] = u
      <4>1. PICK i \in 1 .. n : keys[i] = j /\ values[i] = u
        BY <3>1
      <4>2. CASE i < f
        <5>1. i \in 1 .. n + 1 /\ a[i] = j /\ w[i] = u
          BY <1>1, <2>6, <4>1, <4>2
        <5> QED BY <2>4, <2>6, <5>1 DEF Finds
      <4>3. CASE i >= f
        <5>1. i + 1 \in 1 .. n + 1 /\ a[i + 1] = j /\ w[i + 1] = u
          BY <1>1, <2>1, <2>6, <4>1, <4>3
        <5> QED BY <2>4, <2>6, <5>1 DEF Finds
      <4> QED BY <1>1, <2>1, <4>2, <4>3
    <3>2. CASE u = None /\ \A i \in 1 .. n : keys[i] # j
      <4>1. ASSUME NEW i \in 1 .. n + 1 PROVE a[i] # j
        <5>1. CASE i = f
          BY <2>6, <2>11, <5>1
        <5>2. CASE i < f
          <6>1. i \in 1 .. n
            BY <1>1, <2>1, <5>2
          <6> QED BY <2>6, <3>2, <5>2, <6>1
        <5>3. CASE i > f
          <6>1. i - 1 \in 1 .. n /\ ~(i < f) /\ i # f
            BY <1>1, <2>1, <5>3
          <6> QED BY <2>6, <3>2, <6>1
        <5> QED BY <1>1, <2>1, <5>1, <5>2, <5>3
      <4> QED BY <2>4, <2>6, <3>2, <4>1 DEF Finds
    <3> QED BY <2>11, <3>1, <3>2 DEF Finds, keys, values, n
  <2> QED BY <2>4, <2>6, <2>8, <2>9, <2>10, <2>11 DEF keys, n
<1> QED BY <1>3, <1>4

\* A leaf is written that holds keys of its own only.
LEMMA LeafRouted ==
  ASSUME NEW pg, NEW nx, NEW rt, NEW L, Tree(pg, nx, rt, L), rt # None,
         NEW E, NEW J, Routes(pg, nx, rt, L, E, J),
         NEW p \in PageIds, pg[p].node_type = "Leaf",
         NEW node, LeafNode(node), Increasing(node.keys),
         \A i \in 1 .. Len(node.keys) : node.keys[i] \in E[p],
         NEW pg2, Wrote(pg2, pg, p, node)
  PROVE  /\ Routes(pg2, nx, rt, L, E, J)
         /\ \A j, v : /\ Tells(pg, rt, E, j, v)
                      /\ Finds(pg[p], j, v) => Finds(node, j, v)
                      => Tells(pg2, rt, E, j, v)
         /\ \A j, v : j \in E[p] /\ Finds(node, j, v) => Tells(pg2, rt, E, j, v)
<1>1. pg \in [PageIds -> Nodes] /\ node.node_type = "Leaf"
  BY DEF Tree, LeafNode
<1>2. pg2[p] = node /\ \A q \in PageIds : q # p => pg2[q] = pg[q]
  BY <1>1 DEF Wrote
<1>3. ASSUME NEW q \in PageIds PROVE RouteAt(pg2, E, J, q)
  <2>1. CASE q = p
    BY <1>1, <1>2, <2>1 DEF RouteAt
  <2>2. CASE q # p
    <3>1. RouteAt(pg, E, J, q) /\ pg2[q] = pg[q]
      BY <1>2, <2>2 DEF Routes
    <3> QED BY <3>1 DEF RouteAt
  <2> QED BY <2>1, <2>2
<1>4. Routes(pg2, nx, rt, L, E, J)
  BY <1>3 DEF Routes
<1>5. ASSUME NEW j, NEW v, Tells(pg, rt, E, j, v), Finds(pg[p], j, v) => Finds(node, j, v)
      PROVE  Tells(pg2, rt, E, j, v)
  BY <1>2, <1>5 DEF Tells
<1>6. ASSUME NEW j, NEW v, j \in E[p], Finds(node, j, v)
      PROVE  Tells(pg2, rt, E, j, v)
  <2>1. ASSUME NEW q \in PageIds, q # p, pg2[q].node_type = "Leaf" PROVE j \notin E[q]
    <3>1. L[q] = 0 /\ L[p] = 0
      BY <1>2, <2>1, LeafFacts
    <3> QED BY <1>6, <2>1, <3>1 DEF Routes, Disjoint
  <2> QED BY <1>2, <1>6, <2>1 DEF Tells
<1> QED BY <1>4, <1>5, <1>6

---------------------------------------------------------------------------
(* Splits.                                                                 *)

\* All is in order but what page p, which is about to be written, says.
RoutesBut(pg, nx, rt, L, E, p) ==
  /\ E \in Ranges /\ Disjoint(L, E)
  /\ \A q \in PageIds : q >= nx => E[q] = {}
  /\ rt # None /\ E[rt] = Nat
  /\ \A q \in PageIds : q # p => RouteAt(pg, E, E, q)

LEMMA RoutesButOne ==
  ASSUME NEW pg, NEW nx, NEW rt, NEW L, NEW E, Routes(pg, nx, rt, L, E, E), rt # None, NEW p
  PROVE  RoutesBut(pg, nx, rt, L, E, p)
BY DEF Routes, RoutesBut

\* Page p keeps the keys below s, page q gets the others.
Cleft(E, p, q, s) == [E EXCEPT ![p] = {x \in E[p] : x < s}, ![q] = {x \in E[p] : s <= x}]
Rejoined(D, p, q) == [D EXCEPT ![p] = D[p] \cup D[q]]

LEMMA CleftFacts ==
  ASSUME NEW E \in Ranges, NEW p \in PageIds, NEW q \in PageIds, p # q, NEW s \in Nat,
         NEW D, D = Cleft(E, p, q, s), NEW J, J = Rejoined(D, p, q)
  PROVE  /\ D \in Ranges /\ J \in Ranges
         /\ D[p] = {x \in E[p] : x < s} /\ D[q] = {x \in E[p] : s <= x}
         /\ J[p] = E[p]
         /\ \A r \in PageIds : r # p => J[r] = D[r]
         /\ \A r \in PageIds : r # p /\ r # q => D[r] = E[r]
<1>1. E[p] \subseteq Nat
  BY DEF Ranges
<1>2. D \in Ranges
  BY <1>1 DEF Ranges, Cleft
<1>3. /\ D[p] = {x \in E[p] : x < s} /\ D[q] = {x \in E[p] : s <= x}
      /\ \A r \in PageIds : r # p /\ r # q => D[r] = E[r]
  BY DEF Ranges, Cleft
<1>4. D[p] \cup D[q] = E[p]
  BY <1>1, <1>3
<1>5. /\ J \in Ranges /\ J[p] = E[p]
      /\ \A r \in PageIds : r # p => J[r] = D[r]
  BY <1>1, <1>2, <1>4 DEF Ranges, Rejoined
<1> QED BY <1>2, <1>3, <1>5

LEMMA SplitRouted ==
  ASSUME NEW pg, NEW nx, NEW rt, NEW L, Tree(pg, nx, rt, L), nx \in PageIds,
         NEW p \in PageIds, p # nx, NEW E, RoutesBut(pg, nx, rt, L, E, p),
         NEW s, s \in E[p], NEW D, D = Cleft(E, p, nx, s), D[p] # {},
         NEW J, J = Rejoined(D, p, nx),
         NEW M, M = Beside(L, nx, p),
         NEW pg2 \in [PageIds -> Nodes],
         \A q \in PageIds : q # p /\ q # nx => Akin(pg2[q], pg[q]),
         RouteAt(pg2, D, J, p), RouteAt(pg2, D, J, nx)
  PROVE  /\ Routes(pg2, nx + 1, rt, M, D, J)
         /\ Pending(D, J, p, nx, s)
<1>1. /\ E \in Ranges /\ s \in Nat /\ L \in [PageIds -> Nat] /\ nx \in Nat
      /\ pg \in [PageIds -> Nodes] /\ rt \in PageIds
  BY PageFacts DEF RoutesBut, Ranges, Tree, PageOrNone
<1>2. /\ D \in Ranges /\ J \in Ranges
      /\ D[p] = {x \in E[p] : x < s} /\ D[nx] = {x \in E[p] : s <= x}
      /\ J[p] = E[p]
      /\ \A r \in PageIds : r # p => J[r] = D[r]
      /\ \A r \in PageIds : r # p /\ r # nx => D[r] = E[r]
  <2>1. E \in Ranges /\ s \in Nat
    BY <1>1
  <2>2. D \in Ranges /\ J \in Ranges
    BY <2>1, CleftFacts
  <2>3. D[p] = {x \in E[p] : x < s} /\ D[nx] = {x \in E[p] : s <= x}
    BY <2>1, CleftFacts
  <2>4. J[p] = E[p] /\ \A r \in PageIds : r # p => J[r] = D[r]
    BY <2>1, CleftFacts
  <2>5. \A r \in PageIds : r # p /\ r # nx => D[r] = E[r]
    BY <2>1 DEF Ranges, Cleft
  <2> QED BY <2>2, <2>3, <2>4, <2>5
<1>3. /\ M \in [PageIds -> Nat] /\ M[nx] = L[p]
      /\ \A q \in PageIds : q # nx => M[q] = L[q]
  BY <1>1 DEF Beside
<1>4. Disjoint(M, D)
  <2> SUFFICES ASSUME NEW u \in PageIds, NEW v \in PageIds, M[u] = M[v], u # v,
                      NEW x \in D[u] \cap D[v]
               PROVE  FALSE
    BY DEF Disjoint
  <2> DEFINE o(w) == IF w = nx THEN p ELSE w
  <2>1. \A w \in PageIds : o(w) \in PageIds /\ D[w] \subseteq E[o(w)] /\ M[w] = L[o(w)]
    BY <1>2, <1>3
  <2>2. o(u) = o(v)
    BY <2>1 DEF RoutesBut, Disjoint
  <2>3. u \in {p, nx} /\ v \in {p, nx}
    BY <2>2
  <2>4. x \in D[p] /\ x \in D[nx] /\ E[p] \subseteq Nat
    BY <1>1, <2>3 DEF Ranges
  <2> QED BY <1>1, <1>2, <2>4
<1>5. \A q \in PageIds : q >= nx + 1 => D[q] = {}
  <2>1. \A q \in PageIds : q >= nx + 1 => q >= nx /\ q # nx
    BY <1>1, PageFacts
  <2>2. ~(p >= nx)
    BY <1>1 DEF RoutesBut
  <2> QED BY <1>1, <1>2, <2>1, <2>2, PageFacts DEF RoutesBut
<1>6. J[rt] = Nat
  <2>1. rt # nx
    BY Fresh
  <2> QED BY <1>1, <1>2, <2>1 DEF RoutesBut
<1>7. ASSUME NEW q \in PageIds PROVE RouteAt(pg2, D, J, q)
  <2>1. CASE q = p \/ q = nx
    BY <2>1
  <2>2. CASE q # p /\ q # nx
    <3>1. RouteAt(pg, E, E, q) /\ Akin(pg2[q], pg[q]) /\ D[q] = E[q]
      BY <1>2, <2>2 DEF RoutesBut
    <3>2. ASSUME pg[q].node_type # "Leaf", NEW i \in 1 .. Len(pg[q].children)
          PROVE  J[pg[q].children[i]] = E[pg[q].children[i]]
      <4> DEFINE c == pg[q].children[i]
      <4>1. c \in PageIds /\ c # nx
        BY <3>2, ChildAt, Fresh DEF Orphan
      <4> QED BY <1>2, <4>1
    <3> QED BY <3>1, <3>2, RouteSame
  <2> QED BY <2>1, <2>2
<1>8. Routes(pg2, nx + 1, rt, M, D, J)
  <2>1. rt # None
    BY DEF RoutesBut
  <2> QED BY <1>2, <1>4, <1>5, <1>6, <1>7, <2>1 DEF Routes
<1>9. Pending(D, J, p, nx, s)
  <2>1. E[p] \subseteq Nat
    BY <1>1 DEF Ranges
  <2> QED BY <1>1, <1>2, <2>1 DEF Pending, Rejoined
<1> QED BY <1>8, <1>9

\* A leaf and what is put into its two halves.
LeafHalves(node, l, r, mid) ==
  LET n == Len(node.keys)
  IN  /\ LeafNode(l) /\ LeafNode(r)
      /\ mid \in 1 .. n - 1
      /\ Len(l.keys) = mid /\ Len(r.keys) = n - mid
      /\ \A i \in 1 .. mid : l.keys[i] = node.keys[i] /\ l.values[i] = node.values[i]
      /\ \A i \in 1 .. n - mid : /\ r.keys[i] = node.keys[mid + i]
                                 /\ r.values[i] = node.values[mid + i]

LEMMA LeafCut ==
  ASSUME NEW node, LeafNode(node), Increasing(node.keys),
         NEW l, NEW r, NEW mid, LeafHalves(node, l, r, mid),
         NEW s, s = node.keys[mid + 1]
  PROVE  /\ Increasing(l.keys) /\ Increasing(r.keys)
         /\ s \in Nat
         /\ \A i \in 1 .. Len(l.keys) : /\ l.keys[i] < s
                                        /\ \E j \in 1 .. Len(node.keys) : l.keys[i] = node.keys[j]
         /\ \A i \in 1 .. Len(r.keys) : /\ s <= r.keys[i]
                                        /\ \E j \in 1 .. Len(node.keys) : r.keys[i] = node.keys[j]
         /\ \A j \in Nat : \A w : Finds(node, j, w) => /\ j < s => Finds(l, j, w)
                                                       /\ s <= j => Finds(r, j, w)
<1> DEFINE n == Len(node.keys)
           K(i) == node.keys[i]
           V(i) == node.values[i]
<1>1. /\ n \in Nat /\ mid \in 1 .. n - 1 /\ mid + 1 \in 1 .. n
      /\ Len(l.keys) = mid /\ Len(r.keys) = n - mid
      /\ \A i \in 1 .. mid : i \in 1 .. n /\ i < mid + 1
      /\ \A i \in 1 .. n - mid : mid + i \in 1 .. n /\ mid + 1 <= mid + i
  <2>1. n \in Nat
    BY DEF LeafNode, Nodes
  <2>2. mid \in 1 .. n - 1 /\ Len(l.keys) = mid /\ Len(r.keys) = n - mid
    BY DEF LeafHalves
  <2> HIDE DEF n
  <2> QED BY <2>1, <2>2
<1>2. \A i \in 1 .. n : K(i) \in Nat
  <2>1. node.keys \in Seq(Nat)
    BY DEF LeafNode, Nodes
  <2> QED BY <2>1
<1>3. \A i, j \in 1 .. n : i < j => K(i) < K(j)
  BY DEF Increasing
<1>4. /\ \A i \in 1 .. mid : l.keys[i] = K(i) /\ l.values[i] = V(i)
      /\ \A i \in 1 .. n - mid : r.keys[i] = K(mid + i) /\ r.values[i] = V(mid + i)
  BY DEF LeafHalves
<1>5. s = K(mid + 1)
  OBVIOUS
<1>12. \A j, w : Finds(node, j, w) <=> \/ \E i \in 1 .. n : K(i) = j /\ V(i) = w
                                       \/ w = None /\ \A i \in 1 .. n : K(i) # j
  BY DEF Finds
<1> HIDE DEF n, K, V
<1>6. Increasing(l.keys)
  BY <1>1, <1>3, <1>4 DEF Increasing
<1>7. Increasing(r.keys)
  <2> SUFFICES ASSUME NEW i \in 1 .. n - mid, NEW j \in 1 .. n - mid, i < j
               PROVE  r.keys[i] < r.keys[j]
    BY <1>1 DEF Increasing
  <2>1. mid + i \in 1 .. n /\ mid + j \in 1 .. n /\ mid + i < mid + j
    BY <1>1
  <2> QED BY <1>3, <1>4, <2>1
<1>8. \A i \in 1 .. mid : l.keys[i] < s /\ \E j \in 1 .. n : l.keys[i] = K(j)
  <2> SUFFICES ASSUME NEW i \in 1 .. mid
               PROVE  l.keys[i] < s /\ \E j \in 1 .. n : l.keys[i] = K(j)
    OBVIOUS
  <2>1. i \in 1 .. n /\ i < mid + 1 /\ l.keys[i] = K(i)
    BY <1>1, <1>4
  <2> QED BY <1>1, <1>3, <1>5, <2>1
<1>9. \A i \in 1 .. n - mid : s <= r.keys[i] /\ \E j \in 1 .. n : r.keys[i] = K(j)
  <2> SUFFICES ASSUME NEW i \in 1 .. n - mid
               PROVE  s <= r.keys[i] /\ \E j \in 1 .. n : r.keys[i] = K(j)
    OBVIOUS
  <2>1. mid + i \in 1 .. n /\ mid + 1 <= mid + i /\ r.keys[i] = K(mid + i)
    BY <1>1, <1>4
  <2>2. mid + i = mid + 1 \/ mid + 1 < mid + i
    BY <1>1
  <2>3. K(mid + 1) <= K(mid + i)
    BY <1>1, <1>2, <1>3, <2>1, <2>2
  <2> QED BY <1>5, <2>1, <2>3
<1>10. ASSUME NEW j \in Nat, NEW w, Finds(node, j, w)
       PROVE  (j < s => Finds(l, j, w)) /\ (s <= j => Finds(r, j, w))
  <2>1. CASE \E i \in 1 .. n : K(i) = j /\ V(i) = w
    <3>1. PICK i \in 1 .. n : K(i) = j /\ V(i) = w
      BY <2>1
    <3>2. CASE i <= mid
      <4>1. i \in 1 .. mid /\ l.keys[i] = j /\ l.values[i] = w
        BY <1>1, <1>4, <3>1, <3>2
      <4>2. Finds(l, j, w)
        BY <1>1, <4>1 DEF Finds
      <4>3. ~(s <= j)
        BY <1>1, <1>2, <1>5, <1>8, <4>1
      <4> QED BY <4>2, <4>3
    <3>3. CASE i > mid
      <4> DEFINE a == i - mid
      <4>1. a \in 1 .. n - mid /\ mid + a = i
        BY <1>1, <3>3
      <4> HIDE DEF a
      <4>2. r.keys[a] = j /\ r.values[a] = w
        BY <1>4, <3>1, <4>1
      <4>3. Finds(r, j, w)
        BY <1>1, <4>1, <4>2 DEF Finds
      <4>4. s <= j /\ s \in Nat
        BY <1>1, <1>2, <1>5, <1>9, <4>1, <4>2
      <4>5. ~(j < s)
        BY <4>4
      <4> QED BY <4>3, <4>5
    <3> QED BY <1>1, <3>2, <3>3
  <2>2. CASE w = None /\ \A i \in 1 .. n : K(i) # j
    <3>1. Finds(l, j, w)
      BY <1>1, <1>4, <2>2 DEF Finds
    <3>2. Finds(r, j, w)
      BY <1>1, <1>4, <2>2 DEF Finds
    <3> QED BY <3>1, <3>2
  <2> QED BY <1>10, <1>12, <2>1, <2>2
<1>13. s \in Nat
  BY <1>1, <1>2, <1>5
<1> QED BY <1>1, <1>6, <1>7, <1>8, <1>9, <1>10, <1>13 DEF n, K

\* What is told of key j once node is on leaf p.
Retold(pg, rt, E, p, node, j, v) ==
  IF j \in E[p] THEN Finds(node, j, v) ELSE Tells(pg, rt, E, j, v)

LEMMA LeafSplitRouted ==
  ASSUME NEW pg, NEW nx, NEW rt, NEW L, Tree(pg, nx, rt, L), nx \in PageIds, rt # None,
         NEW p \in PageIds, p # nx, pg[p].node_type = "Leaf",
         NEW E, Routes(pg, nx, rt, L, E, E),
         NEW node, LeafNode(node), Increasing(node.keys),
         \A i \in 1 .. Len(node.keys) : node.keys[i] \in E[p],
         NEW l, NEW r, NEW mid, LeafHalves(node, l, r, mid), NEW s, s = node.keys[mid + 1],
         NEW pg2 \in [PageIds -> Nodes], pg2[p] = l, pg2[nx] = r,
         \A q \in PageIds : q # p /\ q # nx => Akin(pg2[q], pg[q])
  PROVE  \E D, J : /\ Routes(pg2, nx + 1, rt, L, D, J)
                   /\ Pending(D, J, p, nx, s)
                   /\ \A j \in Nat : \A v : Retold(pg, rt, E, p, node, j, v)
                                         => Tells(pg2, rt, D, j, v)
<1> DEFINE D == Cleft(E, p, nx, s)
           J == Rejoined(D, p, nx)
           M == Beside(L, nx, p)
<1>1. /\ E \in Ranges /\ Disjoint(L, E) /\ pg \in [PageIds -> Nodes] /\ L \in [PageIds -> Nat]
  BY DEF Routes, Tree
<1>2. /\ s \in Nat /\ Increasing(l.keys) /\ Increasing(r.keys)
      /\ \A i \in 1 .. Len(l.keys) : /\ l.keys[i] < s
                                     /\ \E j \in 1 .. Len(node.keys) : l.keys[i] = node.keys[j]
      /\ \A i \in 1 .. Len(r.keys) : /\ s <= r.keys[i]
                                     /\ \E j \in 1 .. Len(node.keys) : r.keys[i] = node.keys[j]
      /\ \A j \in Nat : \A w : Finds(node, j, w) => /\ j < s => Finds(l, j, w)
                                                    /\ s <= j => Finds(r, j, w)
  BY LeafCut
<1>3. /\ l.node_type = "Leaf" /\ r.node_type = "Leaf"
      /\ 1 \in 1 .. Len(l.keys)
      /\ mid + 1 \in 1 .. Len(node.keys)
  <2>1. Len(node.keys) \in Nat
    BY DEF LeafNode, Nodes
  <2> QED BY <2>1 DEF LeafHalves, LeafNode
<1>4. s \in E[p]
  BY <1>3
<1> HIDE DEF D, J, M
<1>5. /\ D[p] = {x \in E[p] : x < s} /\ D[nx] = {x \in E[p] : s <= x}
  BY <1>1 DEF D, Ranges, Cleft
<1>6. \A q \in PageIds : q # p /\ q # nx => D[q] = E[q]
  BY <1>1 DEF D, Ranges, Cleft
<1>7. D[p] # {}
  BY <1>2, <1>3, <1>5
<1>8. RouteAt(pg2, D, J, p) /\ RouteAt(pg2, D, J, nx)
  <2>1. \A i \in 1 .. Len(l.keys) : l.keys[i] \in D[p]
    BY <1>2, <1>5
  <2>2. \A i \in 1 .. Len(r.keys) : r.keys[i] \in D[nx]
    BY <1>2, <1>5
  <2> QED BY <1>2, <1>3, <2>1, <2>2 DEF RouteAt
<1>9. RoutesBut(pg, nx, rt, L, E, p)
  BY RoutesButOne
<1>10. Routes(pg2, nx + 1, rt, M, D, J) /\ Pending(D, J, p, nx, s)
  <2>1. D = Cleft(E, p, nx, s) /\ J = Rejoined(D, p, nx) /\ M = Beside(L, nx, p)
    BY DEF D, J, M
  <2>2. Routes(pg2, nx + 1, rt, M, D, J)
    BY <1>4, <1>7, <1>8, <1>9, <2>1, SplitRouted
  <2>3. Pending(D, J, p, nx, s)
    BY <1>4, <1>7, <1>8, <1>9, <2>1, SplitRouted
  <2> QED BY <2>2, <2>3
<1>11. M = L
  <2>1. L[p] = 0 /\ L[nx] = 0
    BY LeafFacts, Fresh
  <2> QED BY <1>1, <2>1 DEF M, Beside
<1>12. ASSUME NEW j \in Nat, NEW v, Retold(pg, rt, E, p, node, j, v)
       PROVE  Tells(pg2, rt, D, j, v)
  <2> SUFFICES ASSUME NEW q \in PageIds, pg2[q].node_type = "Leaf", j \in D[q]
               PROVE  Finds(pg2[q], j, v)
    BY DEF Tells
  <2>1. CASE q = p
    <3>1. j \in E[p] /\ j < s
      BY <1>5, <2>1
    <3> QED BY <1>2, <1>12, <2>1, <3>1 DEF Retold
  <2>2. CASE q = nx
    <3>1. j \in E[p] /\ s <= j
      BY <1>5, <2>2
    <3> QED BY <1>2, <1>12, <2>2, <3>1 DEF Retold
  <2>3. CASE q # p /\ q # nx
    <3>1. Akin(pg2[q], pg[q]) /\ j \in E[q] /\ pg[q].node_type = "Leaf"
      BY <1>6, <2>3 DEF Akin
    <3>2. L[q] = 0 /\ L[p] = 0
      BY <3>1, LeafFacts
    <3>3. j \notin E[p]
      BY <1>1, <2>3, <3>1, <3>2 DEF Disjoint
    <3>4. Finds(pg[q], j, v)
      BY <1>12, <3>1, <3>3 DEF Retold, Tells
    <3> QED BY <3>1, <3>4 DEF Akin, Finds
  <2> QED BY <2>1, <2>2, <2>3
<1> QED BY <1>10, <1>11, <1>12

---------------------------------------------------------------------------
(* Inserting.                                                              *)

\* The call that st is a state of started with fewer pages or as many.
Later(st) == next_page_id \in Nat /\ st.next \in Nat /\ next_page_id <= st.next

LEMMA PendingFound ==
  ASSUME NEW s, NEW M, TreeOf(s, M), NEW E, NEW J,
         Routes(s.pages, s.next, s.root, M, E, J),
         NEW c \in PageIds, NEW q \in PageIds, NEW key, Pending(E, J, c, q, key),
         M[q] = M[c], Orphan(s.pages, q),
         next_page_id <= q, q < s.next, Len(s.pages[q].keys) > 0, NEW k
  PROVE  Found(s, k)
<1>1. Tree(s.pages, s.next, s.root, M)
  BY DEF TreeOf
<1>2. \E D : Routes(s.pages, s.next, s.root, M, D, D)
  BY <1>1, Abandoned
<1>3. Torn(s)
  BY DEF Torn
<1> QED BY <1>1, <1>2, <1>3 DEF Found

\* What the insertion of k with v has come to behind page p.
Owned(r, M, E, J, p, k, v) ==
  /\ Routes(r.st.pages, r.st.next, r.st.root, M, E, J)
  /\ IF r.split = NoSplit THEN J = E ELSE Pending(E, J, p, r.split[2], r.split[1])
  /\ AllTell(r.st.pages, r.st.root, E, k)
  /\ Tells(r.st.pages, r.st.root, E, k, v)
  /\ Ready(r.st, k)

\* The pages that were there before, but for p, have what they had.
Elsewhere(t, s, p) == \A q \in PageIds : q < s.next /\ q # p => Akin(t.pages[q], s.pages[q])

LEMMA OthersKeys == \A k : \A j \in Others(k) : j \in Nat
<1>1. Keys \subseteq Nat
  BY TreeAssumption DEF Keys
<1> QED BY <1>1 DEF Others

LEMMA SplitLeafOwned ==
  ASSUME NEW s, NEW b, NEW L, NEW p \in PageIds,
         Holds(s, b, None, p, None), TreeOf(s, L), s.next \in PageIds, s.root # None,
         p < s.next, s.pages[p].node_type = "Leaf", Later(s),
         NEW node, LeafNode(node), Len(node.keys) = max_keys + 1,
         node.parent = s.pages[p].parent, Increasing(node.keys),
         NEW E, Routes(s.pages, s.next, s.root, L, E, E),
         \A i \in 1 .. Len(node.keys) : node.keys[i] \in E[p],
         NEW k \in Nat, NEW v, Ready(s, k),
         \A j \in Others(k) : Retold(s.pages, s.root, E, p, node, j, contents[j]),
         Retold(s.pages, s.root, E, p, node, k, v),
         NEW r, r = split_leaf(s, p, node)
  PROVE  /\ \E D, J : Owned(r, L, D, J, p, k, v)
         /\ Elsewhere(r.st, s, p)
<1> DEFINE mid == Len(node.keys) \div 2
           right == s.next
           n == Len(node.keys)
           ks == SubSeq(node.keys, 1, mid)
           vs == SubSeq(node.values, 1, mid)
           kt == Tail_(node.keys, mid)
           vt == Tail_(node.values, mid)
           rnode == [node EXCEPT !.keys = kt, !.values = vt]
           lnode == [node EXCEPT !.keys = ks, !.values = vs, !.next_leaf = s.next]
           key == node.keys[mid + 1]
           c == create_page(s)
           t == r.st
<1>1. /\ node \in Nodes /\ node.keys \in Seq(Nat) /\ node.values \in Seq(Nat) /\ n \in Nat
      /\ Len(node.values) = n /\ n = max_keys + 1 /\ s.next \in PageOrNone
  BY DEF LeafNode, Nodes, PageOrNone
<1>2. mid \in 1 .. n - 1
  <2>1. n \div 2 \in 1 .. n - 1
    <3> HIDE DEF n
    <3> QED BY <1>1, Middle
  <2> QED BY <2>1
<1>3. /\ t = release_node(release_node(write_node(write_node(c, p, lnode), right, rnode), p), right)
      /\ r.split = <<key, right>>
  BY DEF split_leaf, SplitLeaf
<1>4. /\ ks \in Seq(Nat) /\ Len(ks) = mid /\ vs \in Seq(Nat) /\ Len(vs) = mid
      /\ kt \in Seq(Nat) /\ Len(kt) = n - mid /\ vt \in Seq(Nat) /\ Len(vt) = n - mid
      /\ key \in Nat
      /\ \A i \in 1 .. mid : ks[i] = node.keys[i] /\ vs[i] = node.values[i]
      /\ \A i \in 1 .. n - mid : kt[i] = node.keys[mid + i] /\ vt[i] = node.values[mid + i]
  <2> HIDE DEF mid
  <2>1. mid \in 0 .. Len(node.keys) /\ mid \in 0 .. Len(node.values) /\ mid + 1 \in 1 .. Len(node.keys)
    <3> HIDE DEF n
    <3>1. n \in Nat /\ mid \in 1 .. n - 1
      BY <1>1, <1>2
    <3>2. mid \in 0 .. n /\ mid + 1 \in 1 .. n
      BY <3>1
    <3> QED BY <1>1, <3>2 DEF n
  <2>2. ks \in Seq(Nat) /\ Len(ks) = mid /\ \A i \in 1 .. mid : ks[i] = node.keys[i]
    BY <1>1, <2>1, Prefix
  <2>3. vs \in Seq(Nat) /\ Len(vs) = mid /\ \A i \in 1 .. mid : vs[i] = node.values[i]
    BY <1>1, <2>1, Prefix
  <2>4. kt \in Seq(Nat) /\ Len(kt) = n - mid /\ \A i \in 1 .. n - mid : kt[i] = node.keys[mid + i]
    BY <1>1, <2>1, TailSpec
  <2>5. vt \in Seq(Nat) /\ Len(vt) = n - mid /\ \A i \in 1 .. n - mid : vt[i] = node.values[mid + i]
    <3>1. vt \in Seq(Nat) /\ Len(vt) = Len(node.values) - mid
          /\ \A i \in 1 .. Len(node.values) - mid : vt[i] = node.values[mid + i]
      BY <1>1, <2>1, TailSpec
    <3> QED BY <1>1, <3>1
  <2>6. key \in Nat
    BY <1>1, <2>1
  <2> QED BY <2>2, <2>3, <2>4, <2>5, <2>6
<1> HIDE DEF ks, kt, vs, vt, mid, right
<1>5. /\ LeafNode(lnode) /\ lnode.keys = ks /\ lnode.values = vs
      /\ LeafNode(rnode) /\ rnode.keys = kt /\ rnode.values = vt
  BY <1>1, <1>4 DEF LeafNode, Nodes
<1> HIDE DEF lnode, rnode
<1>6. LeafHalves(node, lnode, rnode, mid)
  BY <1>2, <1>4, <1>5 DEF LeafHalves
<1>7. lnode \in Nodes /\ Whole(lnode) /\ rnode \in Nodes /\ Whole(rnode)
  BY <1>5 DEF LeafNode, Whole
<1>8. Holds(c, b, None, p, right) /\ Created(c, s) /\ Ready(c, k)
  <2>1. Holds(create_page(s), b, None, p, s.next) /\ Created(create_page(s), s)
    BY CreateHolds
  <2>2. Ready(create_page(s), k)
    BY CreateReady
  <2> QED BY <2>1, <2>2 DEF right
<1>9. /\ c.next = s.next + 1 /\ c.root = s.root /\ c.merges = s.merges
      /\ \A q \in PageIds : q # right => c.pages[q] = s.pages[q]
      /\ p # right /\ right \in PageIds /\ c.pages \in [PageIds -> Nodes]
  <2>1. s.pages \in [PageIds -> Nodes] /\ s.next \in Nat /\ p \in Nat
    BY PageFacts DEF TreeOf, Tree
  <2>2. c.pages \in [PageIds -> Nodes]
    BY <1>8 DEF Holds, States
  <2> QED BY <1>8, <2>1, <2>2 DEF Created, right
<1> HIDE DEF c, t
<1>10. /\ SameRoot(t, c) /\ BothWritten(t, c, p, lnode, right, rnode)
       /\ t.cuts = c.cuts
  <2> DEFINE w1 == write_node(c, p, lnode)
             w2 == write_node(w1, right, rnode)
             w3 == release_node(w2, p)
  <2>1. t = release_node(w3, right)
    BY <1>3 DEF t, c
  <2>2. SameRoot(t, c)
    BY <1>7, <1>8, <1>9, <2>1, HalvesHold
  <2>3. BothWritten(t, c, p, lnode, right, rnode)
    BY <1>7, <1>8, <1>9, <2>1, HalvesHold
  <2>4. t.cuts = c.cuts
    BY <1>3, <1>7, <1>8, <1>9, BothCuts DEF t, c
  <2> QED BY <2>2, <2>3, <2>4
<1>11. PICK g : Wrote(g, c.pages, p, lnode) /\ Wrote(t.pages, g, right, rnode)
  BY <1>10 DEF BothWritten
<1>12. /\ t.pages \in [PageIds -> Nodes]
       /\ t.pages[p] = lnode /\ t.pages[right] = rnode
       /\ \A q \in PageIds : q # p /\ q # right => t.pages[q] = s.pages[q]
  <2>1. g \in [PageIds -> Nodes] /\ g[p] = lnode /\ \A q \in PageIds : q # p => g[q] = c.pages[q]
    BY <1>7, <1>9, <1>11 DEF Wrote
  <2>2. /\ t.pages \in [PageIds -> Nodes] /\ t.pages[right] = rnode
        /\ \A q \in PageIds : q # right => t.pages[q] = g[q]
    BY <1>7, <1>9, <1>11, <2>1 DEF Wrote
  <2> QED BY <1>9, <2>1, <2>2
<1>13. t.next = right + 1 /\ t.next = s.next + 1 /\ t.root = s.root /\ t.merges = s.merges
  BY <1>9, <1>10 DEF SameRoot, right
<1>14. PICK D, J : /\ Routes(t.pages, right + 1, s.root, L, D, J)
                   /\ Pending(D, J, p, right, key)
                   /\ \A j \in Nat : \A w : Retold(s.pages, s.root, E, p, node, j, w)
                                         => Tells(t.pages, s.root, D, j, w)
  <2> DEFINE pg == s.pages
             pg2 == t.pages
             rt == s.root
  <2>1. /\ Tree(pg, right, rt, L) /\ Routes(pg, right, rt, L, E, E)
        /\ pg[p].node_type = "Leaf" /\ rt # None
    BY DEF TreeOf, right
  <2>2. /\ pg2 \in [PageIds -> Nodes] /\ pg2[p] = lnode /\ pg2[right] = rnode
        /\ \A q \in PageIds : q # p /\ q # right => Akin(pg2[q], pg[q])
    BY <1>12 DEF Akin
  <2>3. \A i \in 1 .. Len(node.keys) : node.keys[i] \in E[p]
    OBVIOUS
  <2>4. key = node.keys[mid + 1]
    OBVIOUS
  <2> HIDE DEF pg, pg2, rt, key
  <2>5. \E D, J : /\ Routes(pg2, right + 1, rt, L, D, J)
                  /\ Pending(D, J, p, right, key)
                  /\ \A j \in Nat : \A w : Retold(pg, rt, E, p, node, j, w)
                                        => Tells(pg2, rt, D, j, w)
    BY <1>6, <1>9, <2>1, <2>2, <2>3, <2>4, LeafSplitRouted
  <2> QED BY <2>5 DEF pg, pg2, rt
<1>15. AllTell(t.pages, t.root, D, k) /\ Tells(t.pages, t.root, D, k, v)
  BY <1>13, <1>14, OthersKeys DEF AllTell
<1>16. r.split # NoSplit /\ r.split[2] = right /\ r.split[1] = key
  BY <1>3 DEF NoSplit
<1>17. Inserts(r, s, b, L, L, p)
  BY SplitLeafHolds
<1>18. Found(t, k)
  <2>1. TreeOf(t, L) /\ SplitOf(r, L, p)
    BY <1>16, <1>17 DEF Inserts, t
  <2>2. Orphan(t.pages, right) /\ right < t.next /\ L[right] = L[p]
        /\ Len(t.pages[right].keys) >= min_keys
    BY <1>16, <2>1 DEF SplitOf, t
  <2>3. Len(t.pages[right].keys) > 0
    BY <1>9, <1>12, <2>2, NodeFacts, PageFacts
  <2>4. next_page_id <= right
    BY DEF Later, right
  <2> QED BY <1>9, <1>13, <1>14, <2>1, <2>2, <2>3, <2>4, PendingFound
<1>19. Ready(t, k)
  BY <1>8, <1>10, <1>18 DEF Ready, Safe
<1>20. Owned(r, L, D, J, p, k, v)
  BY <1>13, <1>14, <1>15, <1>16, <1>19 DEF Owned, t
<1>21. Elsewhere(r.st, s, p)
  <2>1. \A q \in PageIds : q < s.next => q # right
    BY <1>9, PageFacts DEF right
  <2> QED BY <1>12, <2>1 DEF Elsewhere, Akin, t
<1> QED BY <1>20, <1>21

LEMMA PutInLeafOwned ==
  ASSUME NEW s, NEW b, NEW L, NEW p \in PageIds,
         Holds(s, b, None, None, None), TreeOf(s, L), s.root # None, p < s.next,
         s.pages[p].node_type = "Leaf", NEW k \in Nat, NEW v \in Nat,
         s.next \in PageIds \/ Takes(s.pages[p], k), Later(s),
         NEW E, Routes(s.pages, s.next, s.root, L, E, E), k \in E[p],
         AllTell(s.pages, s.root, E, k), Ready(s, k),
         NEW r, r = PutInLeaf(s, p, k, v)
  PROVE  /\ \E D, J : Owned(r, L, D, J, p, k, v)
         /\ Elsewhere(r.st, s, p)
<1> DEFINE leaf == s.pages[p]
           fuller == WithEntry(leaf, k, v)
           m == fetch(s, p)
<1>1. Tree(s.pages, s.next, s.root, L) /\ s.pages \in [PageIds -> Nodes]
  BY DEF TreeOf, Tree
<1>2. LeafNode(leaf) /\ Len(leaf.keys) <= max_keys
  BY <1>1, LeafFacts
<1>3. /\ LeafNode(fuller)
      /\ fuller.parent = leaf.parent
      /\ Len(fuller.keys) = Len(leaf.keys) + IF k \in Range(leaf.keys) THEN 0 ELSE 1
  BY <1>2, WithEntryLeaf
<1>4. RouteAt(s.pages, E, E, p)
  BY DEF Routes
<1>5. Increasing(leaf.keys) /\ \A i \in 1 .. Len(leaf.keys) : leaf.keys[i] \in E[p]
  BY <1>4 DEF RouteAt
<1>6. /\ Increasing(fuller.keys)
      /\ \A i \in 1 .. Len(fuller.keys) : fuller.keys[i] \in E[p]
      /\ Finds(fuller, k, v)
      /\ \A j, w : j # k /\ Finds(leaf, j, w) => Finds(fuller, j, w)
  BY <1>2, <1>5, LeafPut
<1>7. Holds(m, b, None, None, p) /\ SameTree(m, s) /\ Ready(m, k)
  BY FetchHolds, FetchReady
<1>8. /\ m.pages = s.pages /\ m.next = s.next /\ m.root = s.root /\ m.merges = s.merges
      /\ TreeOf(m, L) /\ Later(m)
  BY <1>1, <1>7 DEF SameTree, TreeOf, Later
<1>9. \A j \in Others(k) : j # k /\ Tells(s.pages, s.root, E, j, contents[j])
  BY DEF AllTell, Others
<1>10. \A j \in Others(k) : Retold(s.pages, s.root, E, p, fuller, j, contents[j])
  <2> SUFFICES ASSUME NEW j \in Others(k)
               PROVE  Retold(s.pages, s.root, E, p, fuller, j, contents[j])
    OBVIOUS
  <2> HIDE DEF fuller
  <2>1. Tells(s.pages, s.root, E, j, contents[j]) /\ j # k
    BY <1>9
  <2>2. j \in E[p] => Finds(leaf, j, contents[j])
    BY <2>1 DEF Tells
  <2> QED BY <1>6, <2>1, <2>2 DEF Retold
<1>11. Retold(s.pages, s.root, E, p, fuller, k, v)
  BY <1>6 DEF Retold
<1>12. CASE Len(fuller.keys) > max_keys
  <2>1. r = split_leaf(m, p, fuller)
    BY <1>12 DEF PutInLeaf, read_node
  <2>2. s.next \in PageIds /\ Len(fuller.keys) = max_keys + 1
    <3> DEFINE n == Len(leaf.keys)
               f == Len(fuller.keys)
    <3>1. /\ n \in Nat /\ max_keys \in Nat /\ n <= max_keys /\ f > max_keys
          /\ f = n + IF k \in Range(leaf.keys) THEN 0 ELSE 1
      BY <1>1, <1>2, <1>3, <1>12, NodeFacts, PageFacts
    <3> HIDE DEF n, f
    <3>2. f = max_keys + 1 /\ k \notin Range(leaf.keys) /\ ~(n < max_keys)
      BY <3>1
    <3> QED BY <3>2 DEF Takes, n, f
  <2> HIDE DEF m, fuller
  <2>3. Holds(m, b, None, p, None)
    BY <1>7, HoldsAny
  <2>4. /\ m.next \in PageIds /\ m.root # None /\ p < m.next /\ m.pages[p].node_type = "Leaf"
        /\ fuller.parent = m.pages[p].parent
        /\ Routes(m.pages, m.next, m.root, L, E, E)
    BY <1>3, <1>8, <2>2
  <2>5. /\ \A j \in Others(k) : Retold(m.pages, m.root, E, p, fuller, j, contents[j])
        /\ Retold(m.pages, m.root, E, p, fuller, k, v)
    BY <1>8, <1>10, <1>11
  <2>6. \E D, J : Owned(r, L, D, J, p, k, v)
    BY <1>3, <1>6, <1>7, <1>8, <2>1, <2>2, <2>3, <2>4, <2>5, SplitLeafOwned
  <2>7. Elsewhere(r.st, m, p)
    BY <1>3, <1>6, <1>7, <1>8, <2>1, <2>2, <2>3, <2>4, <2>5, SplitLeafOwned
  <2> QED BY <1>8, <2>6, <2>7 DEF Elsewhere
<1>13. CASE ~(Len(fuller.keys) > max_keys)
  <2> DEFINE t == Done(m, p, fuller)
  <2>1. r = [st |-> t, split |-> NoSplit]
    BY <1>13 DEF PutInLeaf, read_node
  <2> HIDE DEF m, fuller
  <2>2. deserialize(fuller) = fuller /\ fuller \in Nodes
    <3>1. fuller \in Nodes /\ Whole(fuller)
      BY <1>3 DEF LeafNode, Whole
    <3> QED BY <3>1, ReadsBack
  <2> HIDE DEF t
  <2>3. t = Done(m, p, fuller)
    BY DEF t
  <2>4. Wrote(t.pages, m.pages, p, fuller)
    BY <1>7, <2>2, <2>3, DoneHolds
  <2>5. SameRoot(t, m)
    BY <1>7, <2>2, <2>3, <2>4, DoneHolds
  <2>6. t.cuts = m.cuts
    BY <1>7, <2>2, <2>3, DoneCuts
  <2>7. Wrote(t.pages, s.pages, p, fuller) /\ t.next = s.next /\ t.root = s.root
        /\ t.merges = s.merges
    BY <1>8, <2>4, <2>5 DEF SameRoot
  <2>8. /\ Routes(t.pages, s.next, s.root, L, E, E)
        /\ \A j, w : /\ Tells(s.pages, s.root, E, j, w)
                     /\ Finds(s.pages[p], j, w) => Finds(fuller, j, w)
                     => Tells(t.pages, s.root, E, j, w)
        /\ \A j, w : j \in E[p] /\ Finds(fuller, j, w) => Tells(t.pages, s.root, E, j, w)
    <3> DEFINE pg == s.pages
               pg2 == t.pages
               rt == s.root
               nx == s.next
    <3>1. /\ Tree(pg, nx, rt, L) /\ rt # None /\ Routes(pg, nx, rt, L, E, E)
          /\ pg[p].node_type = "Leaf" /\ Wrote(pg2, pg, p, fuller)
      BY <1>1, <2>7
    <3> HIDE DEF pg, pg2, rt, nx
    <3>2. Routes(pg2, nx, rt, L, E, E)
      BY <1>3, <1>6, <3>1, LeafRouted
    <3>3. \A j, w : /\ Tells(pg, rt, E, j, w)
                    /\ Finds(pg[p], j, w) => Finds(fuller, j, w)
                    => Tells(pg2, rt, E, j, w)
      BY <1>3, <1>6, <3>1, LeafRouted
    <3>4. \A j, w : j \in E[p] /\ Finds(fuller, j, w) => Tells(pg2, rt, E, j, w)
      BY <1>3, <1>6, <3>1, LeafRouted
    <3> QED BY <3>2, <3>3, <3>4 DEF pg, pg2, rt, nx
  <2>9. AllTell(t.pages, t.root, E, k) /\ Tells(t.pages, t.root, E, k, v)
    BY <1>6, <1>9, <2>7, <2>8 DEF AllTell
  <2>10. Tree(t.pages, t.next, t.root, L)
    <3>1. Inserts(r, s, b, L, L, p)
      BY PutInLeafHolds
    <3> QED BY <2>1, <3>1 DEF Inserts, TreeOf
  <2>11. Found(t, k)
    BY <2>7, <2>8, <2>9, <2>10 DEF Found
  <2>12. Ready(t, k)
    BY <1>7, <2>6, <2>11 DEF Ready, Safe
  <2>13. Owned(r, L, E, E, p, k, v)
    BY <2>1, <2>7, <2>8, <2>9, <2>12 DEF Owned
  <2>14. Elsewhere(r.st, s, p)
    BY <1>1, <2>1, <2>7 DEF Elsewhere, Akin, Wrote
  <2> QED BY <2>13, <2>14
<1> QED BY <1>12, <1>13

---------------------------------------------------------------------------
(* A parent takes in the other half of a split child.                      *)

\* Node w is node with the key s behind its i-th child c, and q behind that.
WiderAt(w, node, i, s, q) ==
  LET n == Len(node.keys)
  IN  /\ n \in Nat /\ Len(node.children) = n + 1 /\ i \in 1 .. n + 1
      /\ Len(w.keys) = n + 1 /\ Len(w.children) = n + 2
      /\ \A j \in 1 .. n + 1 : w.keys[j] = IF j < i THEN node.keys[j]
                                           ELSE IF j = i THEN s ELSE node.keys[j - 1]
      /\ \A j \in 1 .. n + 2 : w.children[j] = IF j < i + 1 THEN node.children[j]
                                               ELSE IF j = i + 1 THEN q ELSE node.children[j - 1]

LEMMA WiderMade ==
  ASSUME NEW node \in Nodes, Len(node.children) = Len(node.keys) + 1,
         NEW s \in Nat, NEW q \in PageIds, NEW w, w = Wider(node, s, q),
         NEW i, i = find_position(node.keys, s)
  PROVE  WiderAt(w, node, i, s, q)
<1> DEFINE ks == InsertAt(node.keys, i, s)
           cs == InsertAt(node.children, i + 1, q)
           n == Len(node.keys)
<1>1. node.keys \in Seq(Nat) /\ node.children \in Seq(PageIds) /\ n \in Nat
  BY DEF Nodes
<1>2. i \in 1 .. n + 1 /\ i + 1 \in 1 .. Len(node.children) + 1
  <2>1. i \in 1 .. n + 1
    BY <1>1, PositionFound
  <2> HIDE DEF n
  <2>2. Len(node.children) = n + 1
    BY DEF n
  <2> QED BY <1>1, <2>1, <2>2
<1>3. w = [node EXCEPT !.keys = ks, !.children = cs]
  BY DEF Wider
<1> HIDE DEF ks, cs
<1>4. InsertedAt(ks, node.keys, i, s) /\ InsertedAt(cs, node.children, i + 1, q)
  <2>1. InsertedAt(ks, node.keys, i, s)
    BY <1>1, <1>2, InsertAtSpec DEF ks
  <2>2. InsertedAt(cs, node.children, i + 1, q)
    BY <1>1, <1>2, InsertAtSpec DEF cs
  <2> QED BY <2>1, <2>2
<1>5. w.keys = ks /\ w.children = cs
  BY <1>3 DEF Nodes
<1> HIDE DEF n
<1>6. Len(node.children) = n + 1 /\ (n + 1) + 1 = n + 2
  BY <1>1 DEF n
<1>7. Len(ks) = n + 1 /\ \A j \in 1 .. n + 1 : ks[j] = IF j < i THEN node.keys[j]
                                           ELSE IF j = i THEN s ELSE node.keys[j - 1]
  BY <1>4 DEF InsertedAt, n
<1>8. Len(cs) = n + 2 /\ \A j \in 1 .. n + 2 : cs[j] = IF j < i + 1 THEN node.children[j]
                                           ELSE IF j = i + 1 THEN q ELSE node.children[j - 1]
  BY <1>4, <1>6 DEF InsertedAt
<1> QED BY <1>1, <1>2, <1>5, <1>6, <1>7, <1>8 DEF WiderAt, n

\* A node whose children own just what it sends them.
Sends(node, E, X) ==
  /\ Increasing(node.keys)
  /\ \A i \in 1 .. Len(node.keys) : node.keys[i] \in X
  /\ \A i \in 1 .. Len(node.children) :
       /\ E[node.children[i]] = Slot(node.keys, i, X)
       /\ E[node.children[i]] # {}

LEMMA TakesPlace ==
  ASSUME NEW pg, NEW nx, NEW rt, NEW L, Tree(pg, nx, rt, L),
         NEW E, NEW J, Routes(pg, nx, rt, L, E, J),
         NEW c \in PageIds, NEW q \in PageIds, NEW s, Pending(E, J, c, q, s), Orphan(pg, q),
         NEW p \in PageIds, pg[p].node_type # "Leaf", c \in Kids(pg[p])
  PROVE  LET keys == pg[p].keys
             i    == find_position(keys, s)
         IN  /\ s \in Nat /\ i \in 1 .. Len(keys) + 1
             /\ Increasing(keys) /\ \A j \in 1 .. Len(keys) : keys[j] \in E[p]
             /\ s \in E[p]
             /\ i <= Len(keys) => s < keys[i]
             /\ i > 1 => keys[i - 1] < s
             /\ \A j \in 1 .. Len(keys) + 1 :
                  LET d == pg[p].children[j]
                  IN  /\ d # q /\ d \in PageIds
                      /\ (d = c) = (j = i)
                      /\ J[d] = Slot(keys, j, E[p]) /\ J[d] # {}
<1> DEFINE keys == pg[p].keys
           n == Len(keys)
           C(j) == pg[p].children[j]
           i == find_position(keys, s)
<1>1. /\ E \in Ranges /\ J \in Ranges /\ RouteAt(pg, E, J, p)
      /\ keys \in Seq(Nat) /\ n \in Nat /\ Len(pg[p].children) = n + 1
      /\ \A j \in 1 .. n : keys[j] \in Nat
  <2>1. keys \in Seq(Nat) /\ Len(pg[p].children) = n + 1
    BY InternalFacts DEF Wide, Nodes
  <2> QED BY <2>1 DEF Routes
<1>2. /\ s \in Nat /\ E[q] \subseteq Nat /\ E[c] \subseteq Nat
      /\ J[c] = E[c] \cup E[q] /\ s \in J[c] /\ \A x \in E[c] : x < s
  BY <1>1 DEF Pending, Ranges
<1>3. PICK i0 \in 1 .. n + 1 : c = C(i0)
  BY <1>1 DEF Kids
<1>4. \A j \in 1 .. n + 1 : J[C(j)] = Slot(keys, j, E[p])
  BY <1>1 DEF RouteAt
<1>5. s \in Slot(keys, i0, E[p]) /\ s \in E[p]
  <2>1. s \in Slot(keys, i0, E[p])
    BY <1>2, <1>3, <1>4
  <2> QED BY <2>1 DEF Slot
<1>6. /\ Increasing(keys) /\ \A j \in 1 .. n : keys[j] \in E[p]
      /\ \A j \in 1 .. n + 1 : J[C(j)] # {}
  BY <1>1, <1>5 DEF RouteAt
<1>7. \A j \in 1 .. n + 1 : C(j) \in PageIds /\ C(j) # q
  <2>1. \A j \in 1 .. n + 1 : C(j) # q
    BY <1>1 DEF Orphan
  <2>2. pg[p].children \in Seq(PageIds)
    BY InternalFacts DEF Wide, Nodes
  <2> QED BY <1>1, <2>1, <2>2
<1>8. i \in 1 .. n + 1 /\ s \in Slot(keys, i, E[p]) /\ (i <= n => s < keys[i])
  BY <1>1, <1>2, <1>5, <1>6, PositionFound, SlotFacts
<1> HIDE DEF i, C, keys, n
<1>9. \A j \in 1 .. n + 1 : s \in Slot(keys, j, E[p]) => j = i
  BY <1>1, <1>2, <1>6, <1>8, SlotFacts DEF n
<1>10. \A j \in 1 .. n + 1 : (C(j) = c) = (j = i)
  <2>1. i0 = i
    BY <1>5, <1>9
  <2>2. ASSUME NEW j \in 1 .. n + 1, C(j) = c PROVE j = i
    BY <1>2, <1>4, <1>9, <2>2
  <2> QED BY <1>3, <2>1, <2>2
<1>11. i > 1 => keys[i - 1] < s
  <2> SUFFICES ASSUME i > 1 PROVE keys[i - 1] < s
    OBVIOUS
  <2>1. PICK x \in E[c] : TRUE
    BY DEF Pending
  <2>2. x \in Slot(keys, i, E[p])
    BY <1>2, <1>4, <1>8, <1>10
  <2>3. keys[i - 1] <= x /\ x < s /\ x \in Nat
    BY <1>2, <2>2 DEF Slot
  <2>4. i - 1 \in 1 .. n
    BY <1>1, <1>8
  <2> QED BY <1>1, <1>2, <2>3, <2>4
<1> QED BY <1>2, <1>4, <1>5, <1>6, <1>7, <1>8, <1>10, <1>11 DEF keys, n, C, i

LEMMA TakenSends ==
  ASSUME NEW pg, NEW nx, NEW rt, NEW L, Tree(pg, nx, rt, L),
         NEW E, NEW J, Routes(pg, nx, rt, L, E, J),
         NEW c \in PageIds, NEW q \in PageIds, NEW s, Pending(E, J, c, q, s), Orphan(pg, q),
         NEW p \in PageIds, pg[p].node_type # "Leaf", c \in Kids(pg[p]),
         NEW w, w = Wider(pg[p], s, q)
  PROVE  Sends(w, E, E[p])
<1> DEFINE node == pg[p]
           keys == node.keys
           n == Len(keys)
           C(j) == node.children[j]
           W(j) == w.children[j]
           wk == w.keys
           i == find_position(keys, s)
           X == E[p]
<1>1. /\ s \in Nat /\ i \in 1 .. n + 1
      /\ Increasing(keys) /\ \A j \in 1 .. n : keys[j] \in X
      /\ s \in X
      /\ i <= n => s < keys[i]
      /\ i > 1 => keys[i - 1] < s
      /\ \A j \in 1 .. n + 1 : /\ C(j) # q /\ C(j) \in PageIds
                               /\ (C(j) = c) = (j = i)
                               /\ J[C(j)] = Slot(keys, j, X) /\ J[C(j)] # {}
  BY TakesPlace
<1>2. /\ node \in Nodes /\ Len(node.children) = n + 1 /\ n \in Nat /\ X \subseteq Nat
      /\ \A j \in 1 .. n : keys[j] \in Nat
      /\ E \in Ranges /\ J \in Ranges
  <2>1. node \in Nodes /\ Len(node.children) = n + 1
    BY InternalFacts DEF Wide
  <2>2. E \in Ranges /\ J \in Ranges
    BY DEF Routes
  <2> QED BY <2>1, <2>2 DEF Nodes, Ranges
<1>3. WiderAt(w, node, i, s, q)
  BY <1>1, <1>2, WiderMade
<1>4. /\ Len(wk) = n + 1 /\ Len(w.children) = n + 2
      /\ \A j \in 1 .. n + 1 : wk[j] = IF j < i THEN keys[j]
                                       ELSE IF j = i THEN s ELSE keys[j - 1]
      /\ \A j \in 1 .. n + 2 : W(j) = IF j < i + 1 THEN C(j)
                                      ELSE IF j = i + 1 THEN q ELSE C(j - 1)
  BY <1>3 DEF WiderAt
<1>5. /\ E[c] # {} /\ E[q] # {}
      /\ \A x \in E[c] : x < s
      /\ \A x \in E[q] : s <= x
      /\ J[c] = E[c] \cup E[q]
      /\ \A d \in PageIds : d # c => J[d] = E[d]
      /\ E[c] \subseteq Nat /\ E[q] \subseteq Nat
  BY <1>2 DEF Pending, Ranges
<1>6. \A j, l \in 1 .. n : j < l => keys[j] < keys[l]
  BY <1>1 DEF Increasing
<1> HIDE DEF node, keys, n, C, W, wk, i, X
<1>7. ASSUME NEW j \in 1 .. n + 1
      PROVE  /\ wk[j] \in X /\ wk[j] \in Nat
             /\ j < i => wk[j] = keys[j] /\ wk[j] < s /\ j \in 1 .. n
             /\ j = i => wk[j] = s
             /\ j > i => wk[j] = keys[j - 1] /\ s < wk[j] /\ j - 1 \in 1 .. n
  <2>1. CASE j < i
    <3>1. j \in 1 .. n /\ wk[j] = keys[j] /\ i - 1 \in 1 .. n /\ i > 1
      BY <1>1, <1>2, <1>4, <2>1
    <3>2. j = i - 1 \/ j < i - 1
      BY <1>1, <2>1
    <3>3. keys[j] <= keys[i - 1]
      BY <1>2, <1>6, <3>1, <3>2
    <3>4. keys[j] < s
      BY <1>1, <1>2, <3>1, <3>3
    <3> QED BY <1>1, <1>2, <2>1, <3>1, <3>4
  <2>2. CASE j = i
    BY <1>1, <1>4, <2>2
  <2>3. CASE j > i
    <3>1. j - 1 \in 1 .. n /\ wk[j] = keys[j - 1] /\ i \in 1 .. n /\ i <= n
      BY <1>1, <1>2, <1>4, <2>3
    <3>2. i = j - 1 \/ i < j - 1
      BY <1>1, <2>3
    <3>3. keys[i] <= keys[j - 1]
      BY <1>2, <1>6, <3>1, <3>2
    <3>4. s < keys[j - 1]
      BY <1>1, <1>2, <3>1, <3>3
    <3> QED BY <1>1, <1>2, <2>3, <3>1, <3>4
  <2> QED BY <1>1, <2>1, <2>2, <2>3
<1>8. Increasing(wk)
  <2> SUFFICES ASSUME NEW j \in 1 .. n + 1, NEW l \in 1 .. n + 1, j < l
               PROVE  wk[j] < wk[l]
    BY <1>4 DEF Increasing
  <2>1. CASE l < i
    BY <1>1, <1>6, <1>7, <2>1
  <2>2. CASE l = i
    BY <1>7, <2>2
  <2>3. CASE l > i /\ j <= i
    BY <1>1, <1>7, <2>3
  <2>4. CASE j > i
    <3>1. j - 1 \in 1 .. n /\ l - 1 \in 1 .. n /\ j - 1 < l - 1 /\ l > i
          /\ wk[j] = keys[j - 1] /\ wk[l] = keys[l - 1]
      BY <1>1, <1>7, <2>4
    <3> QED BY <1>6, <3>1
  <2> QED BY <1>1, <2>1, <2>2, <2>3, <2>4
<1>9. ASSUME NEW j \in 1 .. n + 2
      PROVE  E[W(j)] = Slot(wk, j, X) /\ E[W(j)] # {}
  <2>1. CASE j < i
    <3>1. /\ j \in 1 .. n /\ j \in 1 .. n + 1 /\ j < i + 1 /\ j # i
          /\ j > 1 => j - 1 \in 1 .. n + 1 /\ j - 1 < i
      BY <1>1, <1>2, <2>1
    <3>2. W(j) = C(j) /\ E[C(j)] = Slot(keys, j, X) /\ E[C(j)] # {}
      BY <1>1, <1>4, <1>5, <3>1
    <3>3. wk[j] = keys[j] /\ (j > 1 => wk[j - 1] = keys[j - 1])
      BY <1>7, <2>1, <3>1
    <3>4. j <= Len(wk) /\ j <= Len(keys)
      BY <1>2, <1>4, <3>1 DEF n
    <3> QED BY <3>2, <3>3, <3>4 DEF Slot
  <2>2. CASE j = i
    <3>1. /\ j \in 1 .. n + 1 /\ j < i + 1
          /\ j > 1 => j - 1 \in 1 .. n + 1 /\ j - 1 < i
      BY <1>1, <1>2, <2>2
    <3>2. W(j) = c /\ J[c] = Slot(keys, i, X)
      BY <1>1, <1>4, <2>2, <3>1
    <3>3. wk[i] = s /\ (i > 1 => wk[i - 1] = keys[i - 1])
      BY <1>7, <2>2, <3>1
    <3>4. i <= Len(wk) /\ (i <= Len(keys) => keys[i] \in Nat /\ s < keys[i])
      BY <1>1, <1>2, <1>4 DEF n
    <3>5. ASSUME NEW x \in E[c] PROVE x \in Slot(wk, i, X)
      <4>1. x \in Slot(keys, i, X) /\ x < s
        BY <1>5, <3>2, <3>5
      <4> QED BY <3>3, <4>1 DEF Slot
    <3>6. ASSUME NEW x \in Slot(wk, i, X) PROVE x \in E[c]
      <4>1. x < s /\ x \in X /\ x \in Nat /\ (i > 1 => keys[i - 1] <= x)
        BY <1>2, <3>3, <3>4, <3>6 DEF Slot
      <4>2. i <= Len(keys) => x < keys[i]
        BY <1>1, <3>4, <4>1
      <4>3. x \in J[c]
        BY <3>2, <4>1, <4>2 DEF Slot
      <4>4. x \notin E[q]
        BY <1>1, <1>5, <4>1
      <4> QED BY <1>5, <4>3, <4>4
    <3>7. E[c] = Slot(wk, i, X)
      BY <3>5, <3>6
    <3> QED BY <1>5, <2>2, <3>2, <3>7
  <2>3. CASE j = i + 1
    <3>1. /\ ~(j < i + 1) /\ j > 1 /\ j - 1 = i /\ i \in 1 .. n + 1
          /\ j <= n + 1 => j \in 1 .. n + 1 /\ j > i /\ i <= n
      BY <1>1, <1>2, <2>3
    <3>2. W(j) = q /\ J[c] = Slot(keys, i, X)
      BY <1>1, <1>4, <2>3, <3>1
    <3>3. wk[j - 1] = s /\ (j <= n + 1 => wk[j] = keys[i])
      BY <1>7, <3>1
    <3>4. /\ j <= Len(wk) <=> i <= Len(keys)
          /\ j <= Len(wk) => j <= n + 1
      BY <1>1, <1>2, <1>4, <2>3 DEF n
    <3>5. ASSUME NEW x \in E[q] PROVE x \in Slot(wk, j, X)
      <4>1. x \in Slot(keys, i, X) /\ s <= x
        BY <1>5, <3>2, <3>5
      <4> QED BY <3>1, <3>3, <3>4, <4>1 DEF Slot
    <3>6. ASSUME NEW x \in Slot(wk, j, X) PROVE x \in E[q]
      <4>1. s <= x /\ x \in X /\ x \in Nat /\ (i <= Len(keys) => x < keys[i])
        BY <1>2, <3>1, <3>3, <3>4, <3>6 DEF Slot
      <4>2. i > 1 => keys[i - 1] <= x
        <5> SUFFICES ASSUME i > 1 PROVE keys[i - 1] <= x
          OBVIOUS
        <5>1. i - 1 \in 1 .. n
          BY <1>1, <1>2
        <5> QED BY <1>1, <1>2, <4>1, <5>1
      <4>3. x \in J[c]
        BY <3>2, <4>1, <4>2 DEF Slot
      <4>4. x \notin E[c]
        BY <1>1, <1>5, <4>1
      <4> QED BY <1>5, <4>3, <4>4
    <3>7. E[q] = Slot(wk, j, X)
      BY <3>5, <3>6
    <3> QED BY <1>5, <3>2, <3>7
  <2>4. CASE j > i + 1
    <3>1. /\ ~(j < i + 1) /\ j # i + 1 /\ j - 1 \in 1 .. n + 1 /\ j - 1 # i /\ j > 1
          /\ j - 1 > i /\ j - 1 > 1
          /\ j <= n + 1 => j \in 1 .. n + 1 /\ j > i
          /\ (j - 1) - 1 = j - 2
      BY <1>1, <1>2, <2>4
    <3>2. W(j) = C(j - 1) /\ E[C(j - 1)] = Slot(keys, j - 1, X) /\ E[C(j - 1)] # {}
      BY <1>1, <1>4, <1>5, <3>1
    <3>3. wk[j - 1] = keys[(j - 1) - 1] /\ (j <= n + 1 => wk[j] = keys[j - 1])
      BY <1>7, <3>1
    <3>4. /\ j <= Len(wk) <=> j - 1 <= Len(keys)
          /\ j <= Len(wk) => j <= n + 1
      BY <1>1, <1>2, <1>4, <2>4 DEF n
    <3>5. Slot(wk, j, X) = Slot(keys, j - 1, X)
      BY <3>1, <3>3, <3>4 DEF Slot
    <3> QED BY <3>2, <3>5
  <2> QED BY <1>1, <2>1, <2>2, <2>3, <2>4
<1> QED BY <1>4, <1>7, <1>8, <1>9 DEF Sends, W, wk, X

LEMMA TakenBut ==
  ASSUME NEW pg, NEW nx, NEW rt, NEW L, Tree(pg, nx, rt, L),
         NEW E, NEW J, Routes(pg, nx, rt, L, E, J),
         NEW c \in PageIds, NEW q \in PageIds, NEW s, Pending(E, J, c, q, s), Orphan(pg, q),
         NEW p \in PageIds, pg[p].node_type # "Leaf", c \in Kids(pg[p])
  PROVE  RoutesBut(pg, nx, rt, L, E, p)
<1>1. /\ E \in Ranges /\ J \in Ranges /\ L \in [PageIds -> Nat]
      /\ rt # None /\ rt \in PageIds
  <2>1. E \in Ranges /\ J \in Ranges
    BY DEF Routes
  <2>2. L \in [PageIds -> Nat]
    BY DEF Tree
  <2>3. rt \in PageIds
    BY InternalFacts, PageFacts DEF Tree
  <2>4. rt # None
    BY <2>3, PageFacts
  <2> QED BY <2>1, <2>2, <2>3, <2>4
<1>2. /\ \A d \in PageIds : d # c => J[d] = E[d]
      /\ s \in J[c]
  BY <1>1 DEF Pending, Ranges
<1>3. c # rt /\ L[c] = L[p] - 1
  <2>1. PICK i \in 1 .. Len(pg[p].children) : c = pg[p].children[i]
    BY DEF Kids
  <2> QED BY <2>1, ChildAt
<1>4. s \in E[p]
  BY TakesPlace
<1>5. ASSUME NEW d \in PageIds, d # p PROVE RouteAt(pg, E, E, d)
  <2>1. RouteAt(pg, E, J, d) /\ Akin(pg[d], pg[d])
    BY DEF Routes, Akin
  <2>2. ASSUME pg[d].node_type # "Leaf", NEW i \in 1 .. Len(pg[d].children)
        PROVE  E[pg[d].children[i]] = J[pg[d].children[i]]
    <3> DEFINE e == pg[d].children[i]
    <3>1. /\ e \in PageIds /\ L[e] = L[d] - 1
          /\ J[e] = Slot(pg[d].keys, i, E[d])
      BY <2>1, <2>2, ChildAt DEF RouteAt
    <3>2. e # c
      <4> SUFFICES ASSUME e = c PROVE FALSE
        OBVIOUS
      <4>1. s \in E[d]
        BY <1>2, <3>1 DEF Slot
      <4>2. L[d] = L[p]
        BY <1>1, <1>3, <3>1
      <4> QED BY <1>4, <1>5, <4>1, <4>2 DEF Routes, Disjoint
    <3> QED BY <1>2, <3>1, <3>2
  <2> QED BY <2>1, <2>2, RouteSame
<1>6. E[rt] = Nat
  BY <1>1, <1>2, <1>3 DEF Routes
<1> QED BY <1>1, <1>5, <1>6 DEF RoutesBut, Routes

LEMMA NodeRouted ==
  ASSUME NEW pg, NEW nx, NEW rt, NEW L, NEW E, NEW p \in PageIds,
         RoutesBut(pg, nx, rt, L, E, p), pg[p].node_type # "Leaf",
         NEW w, w.node_type # "Leaf", Sends(w, E, E[p]),
         NEW pg2, pg2[p] = w, \A q \in PageIds : q # p => Akin(pg2[q], pg[q])
  PROVE  /\ Routes(pg2, nx, rt, L, E, E)
         /\ \A j, v : Tells(pg, rt, E, j, v) => Tells(pg2, rt, E, j, v)
<1>1. ASSUME NEW q \in PageIds PROVE RouteAt(pg2, E, E, q)
  <2>1. CASE q = p
    BY <2>1 DEF Sends, RouteAt
  <2>2. CASE q # p
    BY <2>2, RouteSame DEF RoutesBut
  <2> QED BY <2>1, <2>2
<1>2. Routes(pg2, nx, rt, L, E, E)
  BY <1>1 DEF RoutesBut, Routes
<1>3. ASSUME NEW j, NEW v, Tells(pg, rt, E, j, v) PROVE Tells(pg2, rt, E, j, v)
  <2> SUFFICES ASSUME NEW q \in PageIds, pg2[q].node_type = "Leaf", j \in E[q], rt # None
               PROVE  Finds(pg2[q], j, v)
    BY <1>3 DEF Tells
  <2>1. Akin(pg2[q], pg[q])
    OBVIOUS
  <2>2. Finds(pg[q], j, v)
    BY <1>3, <2>1 DEF Tells, Akin
  <2> QED BY <2>1, <2>2 DEF Finds, Akin
<1> QED BY <1>2, <1>3

Halved(node, n, l, r, mid) ==
  /\ Len(l.keys) = mid /\ Len(l.children) = mid + 1
  /\ Len(r.keys) = n - mid - 1 /\ Len(r.children) = n - mid
  /\ \A i \in 1 .. mid : l.keys[i] = node.keys[i]
  /\ \A i \in 1 .. mid + 1 : l.children[i] = node.children[i]
  /\ \A i \in 1 .. n - mid - 1 : r.keys[i] = node.keys[mid + 1 + i]
  /\ \A i \in 1 .. n - mid : r.children[i] = node.children[mid + 1 + i]

LEMMA HalfKeys ==
  ASSUME NEW node \in Nodes, NEW n, n = Len(node.keys), Len(node.children) = n + 1,
         NEW mid \in 1 .. n - 1,
         NEW l, l = LeftHalf(node, mid), NEW r, r = RightHalf(node, mid)
  PROVE  Halved(node, n, l, r, mid)
<1> DEFINE ks == SubSeq(node.keys, 1, mid)
           cs == SubSeq(node.children, 1, mid + 1)
           kt == Tail_(node.keys, mid + 1)
           ct == Tail_(node.children, mid + 1)
<1>1. /\ node.keys \in Seq(Nat) /\ node.children \in Seq(PageIds) /\ n \in Nat
      /\ mid \in 0 .. Len(node.keys) /\ mid + 1 \in 0 .. Len(node.keys)
      /\ mid + 1 \in 0 .. Len(node.children)
      /\ n - (mid + 1) = n - mid - 1 /\ (n + 1) - (mid + 1) = n - mid
  <2>1. node.keys \in Seq(Nat) /\ node.children \in Seq(PageIds) /\ n \in Nat
    BY DEF Nodes
  <2> QED BY <2>1
<1>2. l = [node EXCEPT !.keys = ks, !.children = cs] /\ r = [node EXCEPT !.keys = kt, !.children = ct]
  BY DEF LeftHalf, RightHalf
<1>3. l.keys = ks /\ l.children = cs /\ r.keys = kt /\ r.children = ct
  BY <1>2 DEF Nodes
<1> HIDE DEF ks, cs, kt, ct
<1>4. Len(ks) = mid /\ \A i \in 1 .. mid : ks[i] = node.keys[i]
  BY <1>1, Prefix DEF ks
<1>5. Len(cs) = mid + 1 /\ \A i \in 1 .. mid + 1 : cs[i] = node.children[i]
  BY <1>1, Prefix DEF cs
<1>6. Len(kt) = n - mid - 1 /\ \A i \in 1 .. n - mid - 1 : kt[i] = node.keys[mid + 1 + i]
  <2>1. Len(kt) = Len(node.keys) - (mid + 1)
        /\ \A i \in 1 .. Len(node.keys) - (mid + 1) : kt[i] = node.keys[(mid + 1) + i]
    BY <1>1, TailSpec DEF kt
  <2> QED BY <1>1, <2>1
<1>7. Len(ct) = n - mid /\ \A i \in 1 .. n - mid : ct[i] = node.children[mid + 1 + i]
  <2> DEFINE d == node.children
             a == mid + 1
  <2>1. d \in Seq(PageIds) /\ a \in 0 .. Len(d) /\ Len(d) = n + 1
    BY <1>1
  <2>2. ct = Tail_(d, a)
    BY DEF ct
  <2> HIDE DEF d, a
  <2>3. Len(ct) = Len(d) - a /\ \A i \in 1 .. Len(d) - a : ct[i] = d[a + i]
    BY <2>1, <2>2, TailSpec
  <2>4. Len(d) - a = n - mid
    BY <1>1, <2>1 DEF a
  <2> QED BY <2>3, <2>4 DEF d, a
<1> QED BY <1>3, <1>4, <1>5, <1>6, <1>7 DEF Halved

\* The keys of X below s, and those from s on.
Under(X, s) == {x \in X : x < s}
From(X, s) == {x \in X : s <= x}

\* Each half of a node sends its children what the node did.
LEMMA HalvesSend ==
  ASSUME NEW node \in Nodes, NEW n, n = Len(node.keys), Len(node.children) = n + 1,
         NEW mid \in 1 .. n - 1, NEW E, NEW X, X \subseteq Nat, Sends(node, E, X),
         NEW l, l = LeftHalf(node, mid), NEW r, r = RightHalf(node, mid),
         NEW s, s = node.keys[mid + 1]
  PROVE  /\ s \in X /\ Under(X, s) # {}
         /\ Sends(l, E, Under(X, s))
         /\ Sends(r, E, From(X, s))
<1> DEFINE K(i) == node.keys[i]
           C(i) == node.children[i]
           A == {x \in X : x < s}
           B == {x \in X : s <= x}
<1>1. /\ Len(l.keys) = mid /\ Len(l.children) = mid + 1
      /\ Len(r.keys) = n - mid - 1 /\ Len(r.children) = n - mid
      /\ \A i \in 1 .. mid : l.keys[i] = K(i)
      /\ \A i \in 1 .. mid + 1 : l.children[i] = C(i)
      /\ \A i \in 1 .. n - mid - 1 : r.keys[i] = K(mid + 1 + i)
      /\ \A i \in 1 .. n - mid : r.children[i] = C(mid + 1 + i)
  <2>1. Halved(node, n, l, r, mid)
    BY HalfKeys
  <2> QED BY <2>1 DEF Halved
<1>2. /\ n \in Nat
      /\ \A i, j \in 1 .. n : i < j => K(i) < K(j)
      /\ \A i \in 1 .. n : K(i) \in X /\ K(i) \in Nat
      /\ \A i \in 1 .. n + 1 : E[C(i)] = Slot(node.keys, i, X) /\ E[C(i)] # {}
  <2>1. node.keys \in Seq(Nat)
    BY DEF Nodes
  <2>2. n \in Nat /\ \A i \in 1 .. n : node.keys[i] \in Nat
    BY <2>1, LenProperties
  <2>3. \A i, j \in 1 .. n : i < j => K(i) < K(j)
    BY DEF Sends, Increasing
  <2>4. \A i \in 1 .. n : K(i) \in X
    BY DEF Sends
  <2>5. \A i \in 1 .. n + 1 : E[C(i)] = Slot(node.keys, i, X) /\ E[C(i)] # {}
    BY DEF Sends
  <2> QED BY <2>2, <2>3, <2>4, <2>5
<1>3. s = K(mid + 1) /\ mid + 1 \in 1 .. n /\ 1 \in 1 .. mid
  <2>1. s = K(mid + 1)
    BY DEF K
  <2>2. n \in Nat /\ mid \in 1 .. n - 1
    BY <1>2
  <2>3. mid + 1 \in 1 .. n /\ 1 \in 1 .. mid
    BY <2>2
  <2> QED BY <2>1, <2>3
<1> HIDE DEF K, C
<1>4. s \in X /\ s \in Nat
  BY <1>2, <1>3
<1>5. \A i \in 1 .. mid : K(i) \in A /\ K(i) < s /\ K(i) \in Nat
  <2> SUFFICES ASSUME NEW i \in 1 .. mid PROVE K(i) \in A /\ K(i) < s /\ K(i) \in Nat
    OBVIOUS
  <2>1. i \in 1 .. n /\ i < mid + 1
    BY <1>2
  <2> QED BY <1>2, <1>3, <2>1
<1>6. \A i \in 1 .. n - mid - 1 : /\ mid + 1 + i \in 1 .. n
                                  /\ K(mid + 1 + i) \in B /\ s < K(mid + 1 + i)
                                  /\ K(mid + 1 + i) \in Nat
  <2> SUFFICES ASSUME NEW i \in 1 .. n - mid - 1
               PROVE  /\ mid + 1 + i \in 1 .. n
                      /\ K(mid + 1 + i) \in B /\ s < K(mid + 1 + i)
                      /\ K(mid + 1 + i) \in Nat
    OBVIOUS
  <2>1. mid + 1 + i \in 1 .. n /\ mid + 1 < mid + 1 + i
    BY <1>2
  <2>2. s < K(mid + 1 + i) /\ K(mid + 1 + i) \in X /\ K(mid + 1 + i) \in Nat
    BY <1>2, <1>3, <2>1
  <2> QED BY <1>4, <2>1, <2>2
<1>7. A # {}
  BY <1>3, <1>5
<1> HIDE DEF A, B
<1>8. Increasing(l.keys)
  <2>1. \A i \in 1 .. mid : i \in 1 .. n
    BY <1>2
  <2> QED BY <1>1, <1>2, <2>1, SMTT(20) DEF Increasing
<1>9. Increasing(r.keys)
  <2> SUFFICES ASSUME NEW i \in 1 .. n - mid - 1, NEW j \in 1 .. n - mid - 1, i < j
               PROVE  r.keys[i] < r.keys[j]
    BY <1>1 DEF Increasing
  <2>1. mid + 1 + i < mid + 1 + j
    BY <1>2
  <2> QED BY <1>1, <1>2, <1>6, <2>1
<1>10. ASSUME NEW i \in 1 .. mid + 1 PROVE E[l.children[i]] = Slot(l.keys, i, A)
  <2>1. i \in 1 .. n + 1 /\ i <= n /\ (i > 1 => i - 1 \in 1 .. mid)
        /\ i \in 1 .. n
        /\ (i <= mid => i \in 1 .. mid) /\ (~(i <= mid) => i = mid + 1)
    BY <1>2, <1>3
  <2>2. E[l.children[i]] = Slot(node.keys, i, X)
    BY <1>1, <1>2, <2>1
  <2>3. (i > 1 => l.keys[i - 1] = K(i - 1)) /\ (i <= mid => l.keys[i] = K(i))
        /\ K(i) \in Nat /\ (i <= mid => K(i) < s) /\ (~(i <= mid) => K(i) = s)
    BY <1>1, <1>2, <1>3, <1>5, <2>1
  <2>4. \A x : x \in Slot(node.keys, i, X) <=> x \in X /\ x < K(i) /\ (i > 1 => K(i - 1) <= x)
    BY <2>1 DEF Slot, K
  <2>5. \A x : x \in Slot(l.keys, i, A) <=> /\ x \in X /\ x < s
                                            /\ i <= mid => x < K(i)
                                            /\ i > 1 => K(i - 1) <= x
    BY <1>1, <2>1, <2>3 DEF Slot, A
  <2>6. \A x \in X : x < K(i) <=> x < s /\ (i <= mid => x < K(i))
    BY <1>4, <2>3
  <2>7. \A x : x \in Slot(l.keys, i, A) <=> x \in Slot(node.keys, i, X)
    BY <2>4, <2>5, <2>6
  <2> QED BY <2>2, <2>7
<1>11. ASSUME NEW i \in 1 .. n - mid PROVE E[r.children[i]] = Slot(r.keys, i, B)
  <2> DEFINE a == mid + 1 + i
  <2>1. /\ a \in 1 .. n + 1 /\ a > 1 /\ a - 1 \in 1 .. n
        /\ a <= n <=> i <= n - mid - 1
        /\ i <= n - mid - 1 => i \in 1 .. n - mid - 1
        /\ i > 1 => i - 1 \in 1 .. n - mid - 1 /\ mid + 1 + (i - 1) = a - 1
        /\ ~(i > 1) => a - 1 = mid + 1
    BY <1>2, <1>3
  <2>2. E[r.children[i]] = Slot(node.keys, a, X)
    BY <1>1, <1>2, <2>1
  <2>3. /\ i > 1 => r.keys[i - 1] = K(a - 1) /\ s < K(a - 1)
        /\ ~(i > 1) => K(a - 1) = s
        /\ i <= n - mid - 1 => r.keys[i] = K(a)
        /\ K(a - 1) \in Nat
    BY <1>1, <1>2, <1>3, <1>6, <2>1
  <2> HIDE DEF a
  <2>4. \A x : x \in Slot(node.keys, a, X) <=> /\ x \in X
                                               /\ i <= n - mid - 1 => x < K(a)
                                               /\ K(a - 1) <= x
    BY <2>1 DEF Slot, K
  <2>5. \A x : x \in Slot(r.keys, i, B) <=> /\ x \in X /\ s <= x
                                            /\ i <= n - mid - 1 => x < K(a)
                                            /\ i > 1 => K(a - 1) <= x
    BY <1>1, <2>1, <2>3 DEF Slot, B
  <2>6. \A x \in X : K(a - 1) <= x <=> s <= x /\ (i > 1 => K(a - 1) <= x)
    BY <1>4, <2>3, SMTT(20)
  <2>7. \A x : x \in Slot(r.keys, i, B) <=> x \in Slot(node.keys, a, X)
    BY <2>4, <2>5, <2>6
  <2> QED BY <2>2, <2>7
<1>12. Sends(l, E, A)
  <2>1. \A i \in 1 .. mid + 1 : i \in 1 .. n + 1
    BY <1>2
  <2>2. \A i \in 1 .. mid + 1 : E[l.children[i]] # {}
    BY <1>1, <1>2, <2>1
  <2>3. \A i \in 1 .. mid : l.keys[i] \in A
    BY <1>1, <1>5
  <2> QED BY <1>1, <1>8, <1>10, <2>2, <2>3 DEF Sends
<1>13. Sends(r, E, B)
  <2>1. \A i \in 1 .. n - mid : mid + 1 + i \in 1 .. n + 1
    BY <1>2
  <2>2. \A i \in 1 .. n - mid : E[r.children[i]] # {}
    BY <1>1, <1>2, <2>1
  <2>3. \A i \in 1 .. n - mid - 1 : r.keys[i] \in B
    BY <1>1, <1>6
  <2> QED BY <1>1, <1>9, <1>11, <2>2, <2>3 DEF Sends
<1> QED BY <1>4, <1>7, <1>12, <1>13 DEF A, B, Under, From

\* A node that sends its children the right keys is routed.
LEMMA SentAt ==
  ASSUME NEW pg, NEW E, NEW D, NEW J, NEW p, NEW node, pg[p] = node, Sends(node, E, D[p]),
         \A i \in 1 .. Len(node.children) : J[node.children[i]] = E[node.children[i]]
  PROVE  RouteAt(pg, D, J, p)
BY DEF RouteAt, Sends

\* Splitting an internal node leaves the right half on a new page that no
\* parent names yet, and every leaf the keys it had.
LEMMA NodeSplitRouted ==
  ASSUME NEW pg, NEW nx, NEW rt, NEW L, Tree(pg, nx, rt, L), nx \in PageIds,
         NEW p \in PageIds, pg[p].node_type # "Leaf",
         NEW E, RoutesBut(pg, nx, rt, L, E, p),
         NEW w, Wide(pg, nx, rt, L, p, w), Sends(w, E, E[p]),
         NEW mid \in 1 .. Len(w.keys) - 1, NEW s, s = w.keys[mid + 1],
         NEW l, l = LeftHalf(w, mid), NEW r, r = RightHalf(w, mid),
         NEW pg2 \in [PageIds -> Nodes], pg2[p] = l, pg2[nx] = r,
         l.node_type # "Leaf", r.node_type # "Leaf",
         \A q \in PageIds : q # p /\ q # nx => Akin(pg2[q], pg[q])
  PROVE  \E D, J : /\ Routes(pg2, nx + 1, rt, Beside(L, nx, p), D, J)
                   /\ Pending(D, J, p, nx, s)
                   /\ \A j, v : Tells(pg, rt, E, j, v) => Tells(pg2, rt, D, j, v)
<1> DEFINE n == Len(w.keys)
           X == E[p]
           D == Cleft(E, p, nx, s)
           J == Rejoined(D, p, nx)
           M == Beside(L, nx, p)
           C(i) == w.children[i]
<1>1. /\ E \in Ranges /\ X \subseteq Nat /\ L \in [PageIds -> Nat]
      /\ w \in Nodes /\ Len(w.children) = n + 1 /\ n \in Nat
      /\ \A i \in 1 .. n + 1 : C(i) \in PageIds
      /\ p # nx /\ nx \in Nat /\ mid \in 1 .. n - 1
  <2>1. E \in Ranges /\ L \in [PageIds -> Nat]
    BY DEF RoutesBut, Tree
  <2>2. w \in Nodes /\ w.children \in Seq(PageIds) /\ Len(w.children) = n + 1 /\ n \in Nat
    BY DEF Wide, Nodes
  <2>3. p # nx
    BY Fresh
  <2>4. mid \in 1 .. n - 1
    OBVIOUS
  <2>5. X \subseteq Nat
    BY <2>1 DEF Ranges
  <2>6. \A i \in 1 .. n + 1 : C(i) \in PageIds
    <3> HIDE DEF n
    <3> QED BY <2>2
  <2>7. nx \in Nat
    BY PageFacts
  <2> QED BY <2>1, <2>2, <2>3, <2>4, <2>5, <2>6, <2>7
<1>2. /\ s \in X /\ Under(X, s) # {}
      /\ Sends(l, E, Under(X, s))
      /\ Sends(r, E, From(X, s))
  <2>1. n = Len(w.keys)
    OBVIOUS
  <2>2. Sends(w, E, X)
    OBVIOUS
  <2> HIDE DEF n, X
  <2>3. s \in X /\ Under(X, s) # {}
    BY <1>1, <2>1, <2>2, HalvesSend
  <2>4. Sends(l, E, Under(X, s))
    BY <1>1, <2>1, <2>2, HalvesSend
  <2>5. Sends(r, E, From(X, s))
    BY <1>1, <2>1, <2>2, HalvesSend
  <2> QED BY <2>3, <2>4, <2>5
<1>3. Halved(w, n, l, r, mid)
  <2>1. n = Len(w.keys)
    OBVIOUS
  <2> HIDE DEF n
  <2> QED BY <1>1, <2>1, HalfKeys
<1>4. \A i \in 1 .. n + 1 : C(i) # p /\ C(i) # nx
  <2>1. \A i \in 1 .. n + 1 : C(i) < nx /\ L[C(i)] = L[p] - 1
    BY <1>1 DEF Wide
  <2>2. L[p] \in Nat
    BY <1>1
  <2> HIDE DEF n, C
  <2> SUFFICES ASSUME NEW i \in 1 .. n + 1 PROVE C(i) # p /\ C(i) # nx
    OBVIOUS
  <2>3. C(i) < nx /\ L[C(i)] = L[p] - 1
    BY <2>1
  <2> QED BY <1>1, <2>2, <2>3
<1> HIDE DEF D, J, M
<1>5. /\ D[p] = Under(X, s) /\ D[nx] = From(X, s)
      /\ \A q \in PageIds : q # p /\ q # nx => D[q] = E[q]
      /\ D \in Ranges
  BY <1>1 DEF D, Ranges, Cleft, Under, From
<1>6. \A q \in PageIds : q # p /\ q # nx => J[q] = E[q]
  BY <1>1, <1>5 DEF J, Ranges, Rejoined
<1> HIDE DEF X, n, C
<1>7. RouteAt(pg2, D, J, p)
  <2>1. \A i \in 1 .. mid + 1 : l.children[i] = C(i)
    BY <1>3 DEF Halved, C
  <2>2. Len(l.children) = mid + 1
    BY <1>3 DEF Halved
  <2>3. \A i \in 1 .. mid + 1 : i \in 1 .. n + 1
    BY <1>1
  <2>4. ASSUME NEW i \in 1 .. Len(l.children) PROVE J[l.children[i]] = E[l.children[i]]
    <3>1. i \in 1 .. n + 1 /\ l.children[i] = C(i)
      BY <2>1, <2>2, <2>3
    <3> QED BY <1>1, <1>4, <1>6, <3>1
  <2>5. pg2[p] = l /\ Sends(l, E, D[p])
    BY <1>2, <1>5
  <2> QED BY <2>4, <2>5, SentAt
<1>8. RouteAt(pg2, D, J, nx)
  <2>1. \A i \in 1 .. n - mid : r.children[i] = C(mid + 1 + i)
    BY <1>3 DEF Halved, C
  <2>2. Len(r.children) = n - mid
    BY <1>3 DEF Halved
  <2>3. \A i \in 1 .. n - mid : mid + 1 + i \in 1 .. n + 1
    BY <1>1
  <2>4. ASSUME NEW i \in 1 .. Len(r.children) PROVE J[r.children[i]] = E[r.children[i]]
    <3>1. mid + 1 + i \in 1 .. n + 1 /\ r.children[i] = C(mid + 1 + i)
      BY <2>1, <2>2, <2>3
    <3> QED BY <1>1, <1>4, <1>6, <3>1
  <2>5. pg2[nx] = r /\ Sends(r, E, D[nx])
    BY <1>2, <1>5
  <2> QED BY <2>4, <2>5, SentAt
<1>9. Routes(pg2, nx + 1, rt, M, D, J) /\ Pending(D, J, p, nx, s)
  <2>1. /\ D = Cleft(E, p, nx, s) /\ J = Rejoined(D, p, nx) /\ M = Beside(L, nx, p)
        /\ s \in E[p] /\ D[p] # {}
    BY <1>2, <1>5 DEF D, J, M, X
  <2>2. Routes(pg2, nx + 1, rt, M, D, J)
    BY <1>1, <1>7, <1>8, <2>1, SplitRouted
  <2>3. Pending(D, J, p, nx, s)
    BY <1>1, <1>7, <1>8, <2>1, SplitRouted
  <2> QED BY <2>2, <2>3
<1>10. ASSUME NEW j, NEW v, Tells(pg, rt, E, j, v) PROVE Tells(pg2, rt, D, j, v)
  <2> SUFFICES ASSUME NEW q \in PageIds, pg2[q].node_type = "Leaf", j \in D[q], rt # None
               PROVE  Finds(pg2[q], j, v)
    BY <1>10 DEF Tells
  <2>1. Akin(pg2[q], pg[q]) /\ j \in E[q]
    BY <1>5
  <2>2. Finds(pg[q], j, v)
    BY <1>10, <2>1 DEF Tells, Akin
  <2> QED BY <2>1, <2>2 DEF Finds, Akin
<1> QED BY <1>9, <1>10 DEF M

LEMMA SplitInternalOwned ==
  ASSUME NEW s, NEW b, NEW L, NEW p \in PageIds,
         Holds(s, b, None, p, None), TreeOf(s, L), s.next \in PageIds,
         s.pages[p].node_type # "Leaf", Later(s),
         NEW node, Wide(s.pages, s.next, s.root, L, p, node), Len(node.keys) = max_keys + 1,
         NEW E, RoutesBut(s.pages, s.next, s.root, L, E, p), Sends(node, E, E[p]),
         NEW k \in Nat, NEW v, Ready(s, k),
         AllTell(s.pages, s.root, E, k), Tells(s.pages, s.root, E, k, v),
         NEW r, r = split_internal(s, p, node)
  PROVE  /\ \E D, J : Owned(r, Beside(L, s.next, p), D, J, p, k, v)
         /\ Elsewhere(r.st, s, p)
<1> DEFINE mid == Len(node.keys) \div 2
           right == s.next
           rnode == RightHalf(node, mid)
           lnode == LeftHalf(node, mid)
           key == node.keys[mid + 1]
           c == create_page(s)
           m == update_parents(c, rnode.children, right)
           t == r.st
           M == Beside(L, right, p)
<1>1. /\ t = release_node(release_node(write_node(write_node(m, p, lnode), right, rnode), p), right)
      /\ r.split = <<key, right>>
  BY DEF split_internal, SplitInternal, RightHalf, LeftHalf
<1>2. /\ node \in Nodes /\ node.node_type = "Internal"
      /\ Len(node.children) = Len(node.keys) + 1
      /\ \A i \in 1 .. Len(node.children) : node.children[i] # s.root
      /\ Len(node.keys) \in Nat
  BY DEF Wide, Nodes
<1>3. Halves(node, lnode, rnode, mid) /\ mid \in 1 .. Len(node.keys) - 1
  <2> HIDE DEF lnode, rnode, mid
  <2>1. mid = Len(node.keys) \div 2
    BY DEF mid
  <2>2. Halves(node, LeftHalf(node, mid), RightHalf(node, mid), mid)
    BY <1>2, <2>1, NodeHalves
  <2>3. mid \in 1 .. Len(node.keys) - 1
    BY <1>2, <2>1, Middle
  <2> QED BY <2>2, <2>3 DEF lnode, rnode
<1> HIDE DEF mid
<1>4. lnode = LeftHalf(node, mid) /\ rnode = RightHalf(node, mid) /\ key = node.keys[mid + 1]
  OBVIOUS
<1> HIDE DEF lnode, rnode, key
<1>5. /\ lnode \in Nodes /\ Whole(lnode) /\ lnode.node_type = "Internal"
      /\ rnode \in Nodes /\ Whole(rnode) /\ rnode.node_type = "Internal"
      /\ rnode.children \in Seq(PageIds)
      /\ \A i \in 1 .. Len(rnode.children) : rnode.children[i] # s.root
  <2> DEFINE n == Len(node.keys)
  <2>1. /\ lnode \in Nodes /\ rnode \in Nodes /\ mid \in Nat /\ n \in Nat
        /\ lnode.node_type = "Internal" /\ rnode.node_type = "Internal"
        /\ Len(lnode.keys) = mid /\ Len(lnode.children) = mid + 1 /\ mid >= 1
        /\ Len(rnode.keys) = n - mid - 1 /\ Len(rnode.children) = n - mid /\ n - mid - 1 >= 1
        /\ \A i \in 1 .. n - mid : rnode.children[i] = node.children[mid + 1 + i]
        /\ Len(node.children) = n + 1
    BY <1>2, <1>3 DEF Halves
  <2> HIDE DEF n
  <2>2. Len(rnode.children) = Len(rnode.keys) + 1 /\ rnode.children \in Seq(PageIds)
    BY <2>1 DEF Nodes
  <2>3. \A i \in 1 .. n - mid : mid + 1 + i \in 1 .. n + 1
    BY <2>1
  <2>4. \A i \in 1 .. n - mid : rnode.children[i] # s.root
    BY <1>2, <2>1, <2>3, SMTT(20)
  <2>5. Whole(lnode) /\ Whole(rnode)
    BY <2>1, <2>2 DEF Whole
  <2> QED BY <2>1, <2>2, <2>4, <2>5
<1>6. Holds(c, b, None, p, right) /\ Created(c, s) /\ Ready(c, k)
  <2>1. Holds(create_page(s), b, None, p, s.next) /\ Created(create_page(s), s)
    BY CreateHolds
  <2>2. Ready(create_page(s), k)
    BY CreateReady
  <2> QED BY <2>1, <2>2 DEF right
<1>7. TreeOf(c, L)
  BY <1>6, CreatedTree DEF right
<1>8. /\ c.next = s.next + 1 /\ c.root = s.root /\ c.merges = s.merges /\ right \in PageIds
      /\ \A q \in PageIds : q # right => c.pages[q] = s.pages[q]
      /\ right \in PageOrNone /\ p # right /\ c.pages \in [PageIds -> Nodes]
  <2>1. p # s.next
    BY Fresh DEF TreeOf
  <2>2. s.pages \in [PageIds -> Nodes]
    BY DEF TreeOf, Tree
  <2>3. c.pages \in [PageIds -> Nodes]
    BY <1>7 DEF TreeOf, Tree
  <2> QED BY <1>6, <2>1, <2>2, <2>3 DEF Created, right, PageOrNone
<1> HIDE DEF right, c
<1>9. /\ Holds(m, b, None, p, right)
      /\ AkinPages(m.pages, c.pages)
      /\ SameRoot(m, c)
      /\ Ready(m, k)
  <2> DEFINE ps == rnode.children
             S == {ps[i] : i \in 1 .. Len(ps)}
  <2>1. m = update_parents(c, ps, right)
    OBVIOUS
  <2>2. \A i \in 1 .. Len(ps) : ps[i] # c.root
    BY <1>5, <1>8
  <2>3. ps \in Seq(PageIds) /\ Holds(c, b, p, right, None)
    <3>1. Holds(c, b, p, None, right)
      BY <1>6, HoldsAny
    <3> QED BY <1>5, <3>1, HoldsAny
  <2>4. MayName(c, S, right)
    BY <2>2 DEF MayName
  <2> HIDE DEF m, ps
  <2>6. Holds(m, b, p, right, None)
    BY <1>7, <1>8, <2>1, <2>2, <2>3, UpdateParentsHolds
  <2>8. SameRoot(m, c)
    BY <1>7, <1>8, <2>1, <2>2, <2>3, UpdateParentsHolds
  <2>9. Ready(m, k)
    BY <1>6, <1>7, <1>8, <2>1, <2>3, <2>4, UpdateParentsReady
  <2>10. Holds(m, b, None, p, right)
    <3>1. Holds(m, b, p, None, right)
      BY <2>6, HoldsAny
    <3> QED BY <3>1, HoldsAny
  <2>11. AkinPages(m.pages, c.pages)
    BY <1>6, <1>7, <1>8, <2>1, <2>3, <2>4, UpdateParentsReady
  <2> QED BY <2>8, <2>9, <2>10, <2>11
<1> HIDE DEF m, t
<1>10. /\ SameRoot(t, m)
       /\ BothWritten(t, m, p, lnode, right, rnode)
       /\ t.cuts = m.cuts
  <2>1. t = release_node(release_node(write_node(write_node(m, p, lnode), right, rnode), p), right)
    BY <1>1 DEF m, c, t
  <2>2. SameRoot(t, m)
    BY <1>5, <1>8, <1>9, <2>1, HalvesHold
  <2>3. BothWritten(t, m, p, lnode, right, rnode)
    BY <1>5, <1>8, <1>9, <2>1, HalvesHold
  <2>4. t.cuts = m.cuts
    BY <1>5, <1>8, <1>9, <2>1, BothCuts
  <2> QED BY <2>2, <2>3, <2>4
<1>11. PICK g : Wrote(g, m.pages, p, lnode) /\ Wrote(t.pages, g, right, rnode)
  BY <1>10 DEF BothWritten
<1>12. /\ t.pages \in [PageIds -> Nodes]
       /\ t.pages[p] = lnode /\ t.pages[right] = rnode
       /\ \A q \in PageIds : q # p /\ q # right => Akin(t.pages[q], s.pages[q])
  <2>1. g \in [PageIds -> Nodes] /\ g[p] = lnode /\ \A q \in PageIds : q # p => g[q] = m.pages[q]
    BY <1>5, <1>9, <1>11 DEF Wrote, AkinPages
  <2>2. /\ t.pages \in [PageIds -> Nodes] /\ t.pages[right] = rnode
        /\ \A q \in PageIds : q # right => t.pages[q] = g[q]
    BY <1>5, <1>8, <1>11, <2>1 DEF Wrote
  <2>3. t.pages[p] = lnode
    BY <1>8, <2>1, <2>2
  <2>4. \A q \in PageIds : q # p /\ q # right => t.pages[q] = m.pages[q]
    BY <2>1, <2>2
  <2> QED BY <1>8, <1>9, <2>2, <2>3, <2>4 DEF AkinPages
<1>13. t.next = right + 1 /\ t.next = s.next + 1 /\ t.root = s.root /\ t.merges = s.merges
  BY <1>8, <1>9, <1>10 DEF SameRoot, right
<1>14. PICK D, J : /\ Routes(t.pages, right + 1, s.root, M, D, J)
                   /\ Pending(D, J, p, right, key)
                   /\ \A j, w : Tells(s.pages, s.root, E, j, w) => Tells(t.pages, s.root, D, j, w)
  <2> DEFINE pg == s.pages
             pg2 == t.pages
             rt == s.root
  <2>1. /\ Tree(pg, right, rt, L) /\ RoutesBut(pg, right, rt, L, E, p)
        /\ pg[p].node_type # "Leaf"
        /\ Wide(pg, right, rt, L, p, node)
    BY DEF TreeOf, right
  <2>2. /\ pg2 \in [PageIds -> Nodes] /\ pg2[p] = lnode /\ pg2[right] = rnode
        /\ \A q \in PageIds : q # p /\ q # right => Akin(pg2[q], pg[q])
        /\ lnode.node_type # "Leaf" /\ rnode.node_type # "Leaf"
    BY <1>5, <1>12
  <2> HIDE DEF pg, pg2, rt, M
  <2>3. \E D, J : /\ Routes(pg2, right + 1, rt, Beside(L, right, p), D, J)
                  /\ Pending(D, J, p, right, key)
                  /\ \A j, w : Tells(pg, rt, E, j, w) => Tells(pg2, rt, D, j, w)
    BY <1>3, <1>4, <1>8, <2>1, <2>2, NodeSplitRouted
  <2> QED BY <2>3 DEF pg, pg2, rt, M
<1>15. AllTell(t.pages, t.root, D, k) /\ Tells(t.pages, t.root, D, k, v)
  BY <1>13, <1>14 DEF AllTell
<1>16. r.split # NoSplit /\ r.split[2] = right /\ r.split[1] = key
  BY <1>1 DEF NoSplit
<1>17. TreeOf(t, M) /\ SplitOf(r, M, p)
  <2>1. TreeOf(r.st, Beside(L, s.next, p))
    BY SplitInternalHolds
  <2>2. SplitOf(r, Beside(L, s.next, p), p)
    BY SplitInternalHolds
  <2> QED BY <2>1, <2>2 DEF right, t
<1> HIDE DEF M
<1>18. Found(t, k)
  <2>2. Orphan(t.pages, right) /\ right < t.next /\ M[right] = M[p]
        /\ Len(t.pages[right].keys) >= min_keys
    BY <1>16, <1>17 DEF SplitOf, t
  <2>3. Len(t.pages[right].keys) > 0
    BY <1>8, <1>12, <2>2, NodeFacts, PageFacts
  <2>4. next_page_id <= right
    BY DEF Later, right
  <2> QED BY <1>8, <1>13, <1>14, <1>17, <2>2, <2>3, <2>4, PendingFound
<1>19. Ready(t, k)
  BY <1>9, <1>10, <1>18 DEF Ready, Safe
<1>20. Owned(r, M, D, J, p, k, v)
  BY <1>13, <1>14, <1>15, <1>16, <1>19 DEF Owned, t
<1>21. Elsewhere(r.st, s, p)
  <2>1. \A q \in PageIds : q < s.next => q # right
    BY <1>8, PageFacts DEF right
  <2> QED BY <1>12, <2>1 DEF Elsewhere, t
<1> QED BY <1>20, <1>21 DEF M, right

\* What the taking in of a split child by page p leads to.
TookIn(r, s, L, p, k, v) ==
  /\ \E D, I : Owned(r, After(L, r, s.next, p), D, I, p, k, v)
  /\ Elsewhere(r.st, s, p)

LEMMA TakeInOwned ==
  ASSUME NEW s, NEW b, NEW L, NEW p \in PageIds, NEW q \in PageIds, NEW key \in Nat,
         Holds(s, b, None, None, None), TreeOf(s, L), s.next \in PageIds,
         s.pages[p].node_type # "Leaf",
         q < s.next, q # s.root, L[q] = L[p] - 1, Len(s.pages[q].keys) >= min_keys,
         Orphan(s.pages, q), Later(s),
         NEW c \in PageIds, c \in Kids(s.pages[p]),
         NEW E, NEW J, Routes(s.pages, s.next, s.root, L, E, J), Pending(E, J, c, q, key),
         NEW k \in Nat, NEW v, Ready(s, k),
         AllTell(s.pages, s.root, E, k), Tells(s.pages, s.root, E, k, v),
         NEW r, r = TakeIn(fetch(s, p), p, <<key, q>>)
  PROVE  TookIn(r, s, L, p, k, v)
<1> SUFFICES /\ \E D, I : Owned(r, After(L, r, s.next, p), D, I, p, k, v)
             /\ Elsewhere(r.st, s, p)
  BY DEF TookIn
<1> DEFINE m == fetch(s, p)
           node == s.pages[p]
           w == Wider(node, key, q)
           st1 == update_parent(m, q, p)
<1>1. Holds(m, b, None, None, p) /\ SameTree(m, s) /\ Ready(m, k)
  BY FetchHolds, FetchReady
<1>2. Tree(s.pages, s.next, s.root, L) /\ s.pages \in [PageIds -> Nodes]
  BY DEF TreeOf, Tree
<1>3. Wide(s.pages, s.next, s.root, L, p, w) /\ Len(w.keys) = Len(node.keys) + 1
  <2>1. Wide(s.pages, s.next, s.root, L, p, Wider(s.pages[p], key, q))
    BY <1>2, WiderFacts
  <2>2. node \in Nodes /\ Len(node.children) = Len(node.keys) + 1
    BY <1>2, InternalFacts, NodeFacts DEF Wide
  <2> HIDE DEF w, node
  <2>3. w = Wider(node, key, q)
    BY DEF w
  <2>4. WiderAt(w, node, find_position(node.keys, key), key, q)
    BY <2>2, <2>3, WiderMade
  <2>5. Len(w.keys) = Len(node.keys) + 1
    BY <2>4 DEF WiderAt
  <2> QED BY <2>1, <2>5 DEF w, node
<1>4. m.pages = s.pages /\ m.next = s.next /\ m.root = s.root /\ m.merges = s.merges /\ TreeOf(m, L)
  BY <1>1, <1>2 DEF SameTree, TreeOf
<1>5. r = IF Len(w.keys) > max_keys THEN split_internal(st1, p, w)
          ELSE [st |-> Done(st1, p, w), split |-> NoSplit]
  BY <1>4 DEF TakeIn, read_node, Wider
<1>6. /\ Len(node.keys) <= max_keys
      /\ Len(node.keys) \in Nat /\ max_keys \in Nat
      /\ p \in PageOrNone /\ p # q
  <2>1. L[p] \in Nat
    BY <1>2 DEF Tree
  <2>2. p # q
    BY <2>1
  <2> QED BY <1>2, <2>2, InternalFacts, NodeFacts, PageFacts DEF PageOrNone
<1>7. Sends(w, E, E[p])
  BY <1>2, TakenSends
<1> HIDE DEF m, w
<1>8. /\ Holds(st1, b, None, p, None)
      /\ Reparented(st1.pages, m.pages, {q}, p)
      /\ SameRoot(st1, m)
      /\ Ready(st1, k) /\ TreeOf(st1, L) /\ AkinPages(st1.pages, m.pages)
  <2>1. Holds(m, b, None, p, None)
    BY <1>1, HoldsAny
  <2>2. MayName(m, {q}, p)
    BY <1>4 DEF MayName
  <2> HIDE DEF st1
  <2>3. st1 = update_parent(m, q, p)
    BY DEF st1
  <2>4. Holds(st1, b, None, p, None)
    BY <1>4, <1>6, <2>1, <2>3, UpdateParentHolds
  <2>5. Reparented(st1.pages, m.pages, {q}, p)
    BY <1>4, <1>6, <2>1, <2>3, UpdateParentHolds
  <2>6. SameRoot(st1, m)
    BY <1>4, <1>6, <2>1, <2>3, <2>4, <2>5, UpdateParentHolds
  <2>7. Ready(st1, k) /\ TreeOf(st1, L) /\ AkinPages(st1.pages, m.pages)
    BY <1>1, <1>4, <1>6, <2>1, <2>2, <2>3, UpdateParentReady
  <2> QED BY <2>4, <2>5, <2>6, <2>7
<1> HIDE DEF st1
<1>9. /\ st1.next = s.next /\ st1.root = s.root /\ st1.merges = s.merges
      /\ AkinPages(st1.pages, s.pages) /\ st1.pages \in [PageIds -> Nodes]
      /\ st1.pages[p] = s.pages[p]
      /\ \A x \in PageIds : Akin(st1.pages[x], s.pages[x])
      /\ Later(st1)
  <2>1. st1.pages[p] = s.pages[p]
    BY <1>4, <1>6, <1>8 DEF Reparented
  <2> QED BY <1>4, <1>8, <2>1 DEF SameRoot, AkinPages, Later
<1>10. Tree(st1.pages, s.next, s.root, L)
  BY <1>8, <1>9 DEF TreeOf
<1>11. /\ Wide(st1.pages, s.next, s.root, L, p, w)
       /\ st1.pages[p].node_type # "Leaf"
  BY <1>3, <1>9 DEF Wide
<1>12. RoutesBut(st1.pages, s.next, s.root, L, E, p)
  <2>1. Routes(st1.pages, s.next, s.root, L, E, J)
    BY <1>2, <1>9, RoutesAkin
  <2>2. Orphan(st1.pages, q)
    BY <1>9 DEF Orphan, Akin
  <2>3. c \in Kids(st1.pages[p])
    BY <1>9
  <2> QED BY <1>10, <1>11, <2>1, <2>2, <2>3, TakenBut
<1>13. AllTell(st1.pages, s.root, E, k) /\ Tells(st1.pages, s.root, E, k, v)
  BY <1>9, TellsAkin DEF AllTell
<1>14. CASE Len(w.keys) > max_keys
  <2>1. r = split_internal(st1, p, w)
    BY <1>5, <1>14
  <2>2. Len(w.keys) = max_keys + 1
    <3> DEFINE n == Len(node.keys)
               e == Len(w.keys)
    <3>1. n \in Nat /\ n <= max_keys /\ e = n + 1 /\ max_keys \in Nat /\ e > max_keys
      BY <1>3, <1>6, <1>14
    <3> HIDE DEF n, e
    <3>2. e = max_keys + 1
      BY <3>1
    <3> QED BY <3>2 DEF e
  <2>3. /\ st1.next \in PageIds /\ Wide(st1.pages, st1.next, st1.root, L, p, w)
        /\ RoutesBut(st1.pages, st1.next, st1.root, L, E, p)
        /\ AllTell(st1.pages, st1.root, E, k) /\ Tells(st1.pages, st1.root, E, k, v)
    BY <1>9, <1>11, <1>12, <1>13
  <2>4. \E D, I : Owned(r, Beside(L, st1.next, p), D, I, p, k, v)
    BY <1>7, <1>8, <1>9, <1>11, <2>1, <2>2, <2>3, SplitInternalOwned
  <2>5. Elsewhere(r.st, st1, p)
    BY <1>7, <1>8, <1>9, <1>11, <2>1, <2>2, <2>3, SplitInternalOwned
  <2>6. r.split # NoSplit
    <3>1. SplitOf(r, Beside(L, st1.next, p), p)
      BY <1>8, <1>11, <2>1, <2>2, <2>3, SplitInternalHolds
    <3>2. PICK x \in Nat, y \in PageIds : r.split = <<x, y>>
      BY <3>1 DEF SplitOf
    <3> DEFINE z == <<x, y>>
    <3>3. Len(z) # Len(<<>>)
      OBVIOUS
    <3> HIDE DEF z
    <3>4. z # <<>>
      BY <3>3
    <3> QED BY <3>2, <3>4 DEF NoSplit, z
  <2>7. Beside(L, st1.next, p) = After(L, r, s.next, p)
    BY <1>9, <2>6 DEF After
  <2> QED BY <1>9, <2>4, <2>5, <2>7 DEF Elsewhere, Akin
<1>15. CASE ~(Len(w.keys) > max_keys)
  <2> DEFINE t == Done(st1, p, w)
  <2>1. r = [st |-> t, split |-> NoSplit]
    BY <1>5, <1>15
  <2>2. w \in Nodes /\ deserialize(w) = w /\ w.node_type # "Leaf"
    <3>1. w \in Nodes /\ Whole(w) /\ w.node_type # "Leaf"
      BY <1>3, <1>6 DEF Wide, Whole
    <3> QED BY <3>1, ReadsBack
  <2>3. Holds(st1, b, None, None, p)
    BY <1>8, HoldsAny
  <2> HIDE DEF t
  <2>4. t = Done(st1, p, w)
    BY DEF t
  <2>5. Wrote(t.pages, st1.pages, p, w)
    BY <2>2, <2>3, <2>4, DoneHolds
  <2>6. SameRoot(t, st1)
    BY <2>2, <2>3, <2>4, <2>5, DoneHolds
  <2>7. t.cuts = st1.cuts
    BY <2>2, <2>3, <2>4, DoneCuts
  <2>8. t.next = s.next /\ t.root = s.root /\ t.merges = s.merges
    BY <1>9, <2>6 DEF SameRoot
  <2>9. t.pages[p] = w /\ \A x \in PageIds : x # p => Akin(t.pages[x], st1.pages[x])
    BY <1>9, <2>5 DEF Wrote, Akin
  <2>10. /\ Routes(t.pages, s.next, s.root, L, E, E)
         /\ \A j, y : Tells(st1.pages, s.root, E, j, y) => Tells(t.pages, s.root, E, j, y)
    <3> DEFINE pg == st1.pages
               pg2 == t.pages
    <3>1. /\ RoutesBut(pg, s.next, s.root, L, E, p) /\ pg[p].node_type # "Leaf"
          /\ pg2[p] = w /\ \A x \in PageIds : x # p => Akin(pg2[x], pg[x])
      BY <1>11, <1>12, <2>9
    <3> HIDE DEF pg, pg2
    <3>2. Routes(pg2, s.next, s.root, L, E, E)
      BY <1>7, <2>2, <3>1, NodeRouted
    <3>3. \A j, y : Tells(pg, s.root, E, j, y) => Tells(pg2, s.root, E, j, y)
      BY <1>7, <2>2, <3>1, NodeRouted
    <3> QED BY <3>2, <3>3 DEF pg, pg2
  <2>11. AllTell(t.pages, t.root, E, k) /\ Tells(t.pages, t.root, E, k, v)
    BY <1>13, <2>8, <2>10 DEF AllTell
  <2>12. After(L, r, s.next, p) = L
    BY <2>1 DEF After
  <2>13. Tree(t.pages, t.next, t.root, L)
    <3>1. Inserts(r, s, b, L, After(L, r, s.next, p), p)
      BY AddChildHolds
    <3> QED BY <2>1, <2>12, <3>1 DEF Inserts, TreeOf
  <2>14. Found(t, k)
    BY <2>8, <2>10, <2>11, <2>13 DEF Found
  <2>15. Ready(t, k)
    BY <1>8, <2>7, <2>14 DEF Ready, Safe
  <2>16. Owned(r, L, E, E, p, k, v)
    BY <2>1, <2>8, <2>10, <2>11, <2>15 DEF Owned
  <2>17. Elsewhere(r.st, s, p)
    BY <1>9, <2>1, <2>9 DEF Elsewhere, Akin
  <2> QED BY <2>12, <2>16, <2>17
<1> QED BY <1>14, <1>15

\* The parent p takes in what became of its child.
LEMMA AddChildOwned ==
  ASSUME NEW s, NEW b, NEW L, NEW M, TreeOf(s, L), NEW below \in PageIds, NEW p \in PageIds,
         below < s.next, p < s.next, L[below] = L[p] - 1,
         NEW r, Inserts(r, s, b, L, M, below), r.split = NoSplit \/ r.st.next \in PageIds,
         s.next <= r.st.next, Later(r.st), below \in Kids(r.st.pages[p]),
         NEW E, NEW J, NEW k \in Nat, NEW v, Owned(r, M, E, J, below, k, v),
         NEW u, u = AddChild(r, p)
  PROVE  TookIn(u, r.st, M, p, k, v)
<1>1. CASE r.split = NoSplit
  <2>1. u = r
    BY <1>1 DEF AddChild
  <2>2. After(M, u, r.st.next, p) = M
    BY <1>1, <2>1 DEF After
  <2>3. Owned(u, M, E, J, p, k, v)
    BY <1>1, <2>1 DEF Owned
  <2>4. Elsewhere(u.st, r.st, p)
    BY <2>1 DEF Elsewhere, Akin
  <2> QED BY <2>2, <2>3, <2>4 DEF TookIn
<1>2. CASE r.split # NoSplit
  <2> DEFINE t == r.st
  <2>1. /\ Holds(t, b, None, None, None) /\ TreeOf(t, M)
        /\ \A q \in PageIds : q < s.next => M[q] = L[q]
        /\ SplitOf(r, M, below)
    BY <1>2 DEF Inserts
  <2>2. PICK key \in Nat, q \in PageIds :
          /\ r.split = <<key, q>>
          /\ q < t.next /\ q # t.root /\ M[q] = M[below]
          /\ Len(t.pages[q].keys) >= min_keys
          /\ Orphan(t.pages, q)
    BY <2>1 DEF SplitOf
  <2>3. u = TakeIn(fetch(t, p), p, <<key, q>>)
    BY <1>2, <2>2 DEF AddChild
  <2>4. /\ Routes(t.pages, t.next, t.root, M, E, J) /\ Pending(E, J, below, q, key)
        /\ AllTell(t.pages, t.root, E, k) /\ Tells(t.pages, t.root, E, k, v) /\ Ready(t, k)
    BY <1>2, <2>2 DEF Owned
  <2>5. M[q] = M[p] - 1
    BY <2>1, <2>2
  <2>6. Later(t) /\ below \in Kids(t.pages[p]) /\ t.next \in PageIds
    BY <1>2
  <2> HIDE DEF t
  <2>7. t.pages[p].node_type # "Leaf"
    <3>1. M[p] - 1 \in Nat /\ M[p] \in Nat
      BY <2>1, <2>5 DEF TreeOf, Tree
    <3>2. M[p] # 0
      BY <3>1
    <3>3. Tree(t.pages, t.next, t.root, M)
      BY <2>1 DEF TreeOf
    <3> QED BY <3>2, <3>3, LeafFacts DEF Tree
  <2>8. TookIn(u, t, M, p, k, v)
    BY <2>1, <2>2, <2>3, <2>4, <2>5, <2>6, <2>7, TakeInOwned
  <2> QED BY <2>8 DEF t
<1> QED BY <1>1, <1>2

\* Page p and those below it have become r; the n pages above have not.
Upto(r, s, b, L, path, n, k, v) ==
  /\ \E M, D, I : /\ Inserts(r, s, b, L, M, path[n + 1])
                  /\ Owned(r, M, D, I, path[n + 1], k, v)
  /\ \A i \in 1 .. n : Akin(r.st.pages[path[i]], s.pages[path[i]])

LEMMA LeafUpto ==
  ASSUME NEW s, NEW b, NEW L, Holds(s, b, None, None, None), TreeOf(s, L), s.root # None,
         NEW root, NEW path, Descends(path, s, L, root), NEW h \in Nat, Len(path) = h + 1,
         NEW leaf, leaf = path[h + 1], s.pages[leaf].node_type = "Leaf",
         NEW m, m = visit_each(s, Front(path)), NEW k \in Nat, NEW v \in Nat,
         s.next \in PageIds \/ Takes(s.pages[leaf], k), Later(s),
         NEW E, Routes(s.pages, s.next, s.root, L, E, E), k \in E[leaf],
         AllTell(s.pages, s.root, E, k), Ready(s, k),
         NEW r, r = PutInLeaf(m, leaf, k, v)
  PROVE  Upto(r, s, b, L, path, h, k, v)
<1>1. /\ path \in Seq(PageIds) /\ h + 1 \in 1 .. Len(path)
      /\ leaf \in PageIds /\ leaf < s.next
      /\ Front(path) \in Seq(PageIds)
      /\ \A i \in 1 .. h : path[i] \in PageIds /\ path[i] < s.next /\ path[i] # leaf
  <2>1. path \in Seq(PageIds) /\ h + 1 \in 1 .. Len(path)
    BY DEF Descends
  <2>2. \A i \in 1 .. h + 1 : path[i] \in PageIds /\ path[i] < s.next /\ L[path[i]] = L[root] + 1 - i
    BY <2>1 DEF Descends
  <2>3. \A i \in 1 .. h : i \in 1 .. h + 1 /\ i # h + 1
    OBVIOUS
  <2>4. \A i \in 1 .. h : s.pages[path[i]].node_type # "Leaf"
    BY DEF Descends
  <2>5. Front(path) \in Seq(PageIds)
    BY <2>1, FrontOf
  <2> QED BY <2>1, <2>2, <2>3, <2>4, <2>5
<1>2. Holds(m, b, None, None, None) /\ SameTree(m, s) /\ Ready(m, k)
  BY <1>1, VisitEachHolds, VisitEachReady, PageFacts DEF PageOrNone
<1>3. /\ m.pages = s.pages /\ m.next = s.next /\ m.root = s.root /\ m.merges = s.merges
      /\ TreeOf(m, L) /\ Later(m)
  BY <1>2 DEF SameTree, TreeOf, Later
<1>4. /\ m.root # None /\ leaf < m.next /\ m.pages[leaf].node_type = "Leaf"
      /\ m.next \in PageIds \/ Takes(m.pages[leaf], k)
      /\ Routes(m.pages, m.next, m.root, L, E, E)
      /\ AllTell(m.pages, m.root, E, k)
  BY <1>1, <1>3
<1>5. \E D, I : Owned(r, L, D, I, leaf, k, v)
  BY <1>1, <1>2, <1>3, <1>4, PutInLeafOwned
<1>6. Elsewhere(r.st, m, leaf)
  BY <1>1, <1>2, <1>3, <1>4, PutInLeafOwned
<1>7. Inserts(r, m, b, L, L, leaf)
  BY <1>1, <1>2, <1>3, <1>4, PutInLeafHolds
<1>8. Inserts(r, s, b, L, L, leaf)
  BY <1>3, <1>7 DEF Inserts
<1>9. \A i \in 1 .. h : Akin(r.st.pages[path[i]], s.pages[path[i]])
  BY <1>1, <1>3, <1>6 DEF Elsewhere
<1> QED BY <1>5, <1>8, <1>9 DEF Upto

LEMMA AboveUpto ==
  ASSUME NEW s, NEW b, NEW L, TreeOf(s, L), Later(s),
         NEW root, NEW path, Descends(path, s, L, root), NEW n \in 1 .. Len(path) - 1,
         NEW k \in Nat, NEW v, NEW r, Upto(r, s, b, L, path, n, k, v),
         r.split = NoSplit \/ r.st.next \in PageIds, s.next <= r.st.next,
         NEW u, u = AddChild(r, path[n])
  PROVE  Upto(u, s, b, L, path, n - 1, k, v) /\ Higher(u, r)
<1> DEFINE p == path[n]
           below == path[n + 1]
           t == r.st
<1>1. /\ path \in Seq(PageIds) /\ n \in Nat /\ n \in 1 .. Len(path) /\ n + 1 \in 1 .. Len(path)
      /\ n - 1 + 1 = n
  BY DEF Descends
<1>2. /\ p \in PageIds /\ p < s.next /\ below \in PageIds /\ below < s.next
      /\ below \in Kids(s.pages[p]) /\ L[p] = L[root] + 1 - n /\ L[below] = L[root] + 1 - (n + 1)
      /\ \A i \in 1 .. n - 1 : /\ path[i] \in PageIds /\ path[i] < s.next
                               /\ L[path[i]] = L[root] + 1 - i
  BY <1>1 DEF Descends
<1>3. L[p] \in Nat /\ L[below] \in Nat /\ \A i \in 1 .. n - 1 : L[path[i]] \in Nat
  BY <1>2 DEF TreeOf, Tree
<1>4. L[below] = L[p] - 1 /\ \A i \in 1 .. n - 1 : path[i] # p
  <2>1. PICK x \in PageIds : x = root \/ x = p
    BY <1>2
  <2>2. L[root] \in Nat
    <3>1. 1 \in 1 .. Len(path) /\ path[1] = root /\ path[1] \in PageIds
      BY <1>1 DEF Descends
    <3> QED BY <3>1 DEF TreeOf, Tree
  <2>3. L[below] = L[p] - 1
    BY <1>1, <1>2, <1>3, <2>2
  <2>4. ASSUME NEW i \in 1 .. n - 1 PROVE L[path[i]] # L[p]
    BY <1>1, <1>2, <1>3, <2>2
  <2> QED BY <2>3, <2>4
<1>5. PICK M, D, I : Inserts(r, s, b, L, M, below) /\ Owned(r, M, D, I, below, k, v)
  BY DEF Upto
<1>6. \A i \in 1 .. n : Akin(t.pages[path[i]], s.pages[path[i]])
  BY DEF Upto
<1>7. below \in Kids(t.pages[p])
  <2>1. Akin(t.pages[p], s.pages[p])
    <3>1. n \in 1 .. n
      BY <1>1
    <3> QED BY <1>6, <3>1
  <2> QED BY <1>2, <2>1 DEF Akin, Kids
<1>8. t.next \in Nat /\ s.next \in Nat /\ Later(t)
  <2>1. t.next \in Nat /\ s.next \in Nat
    BY <1>5, PageFacts DEF Inserts, TreeOf, Tree
  <2> QED BY <2>1 DEF Later
<1> HIDE DEF p, below
<1>9. u = AddChild(r, p)
  BY DEF p
<1>10. Inserts(u, s, b, L, After(M, u, t.next, p), p)
  BY <1>2, <1>4, <1>5, <1>9, InsertsAbove
<1>11. Higher(u, r)
  BY <1>2, <1>4, <1>5, <1>9, InsertsAbove
<1>12. TookIn(u, t, M, p, k, v)
  BY <1>2, <1>4, <1>5, <1>7, <1>8, <1>9, AddChildOwned
<1>13. PICK D2, I2 : Owned(u, After(M, u, t.next, p), D2, I2, p, k, v)
  BY <1>12 DEF TookIn
<1>14. \A i \in 1 .. n - 1 : Akin(u.st.pages[path[i]], s.pages[path[i]])
  <2> SUFFICES ASSUME NEW i \in 1 .. n - 1
               PROVE  Akin(u.st.pages[path[i]], s.pages[path[i]])
    OBVIOUS
  <2>1. path[i] \in PageIds /\ path[i] < t.next /\ path[i] # p
    <3>1. path[i] \in PageIds /\ path[i] < s.next /\ path[i] # p
      BY <1>2, <1>4
    <3>2. path[i] \in Nat
      BY <3>1, PageFacts
    <3> QED BY <1>8, <3>1, <3>2
  <2>2. Akin(u.st.pages[path[i]], t.pages[path[i]])
    BY <1>12, <2>1 DEF TookIn, Elsewhere
  <2>3. Akin(t.pages[path[i]], s.pages[path[i]])
    BY <1>1, <1>6
  <2> QED BY <2>2, <2>3 DEF Akin
<1> QED BY <1>1, <1>10, <1>11, <1>13, <1>14 DEF Upto, p

\* The call for the root: a new entry is where search looks for it, and the
\* others are where they were found before.
LEMMA InsertRecursiveOwned ==
  ASSUME NEW s, NEW b, NEW L, Holds(s, b, None, None, None), TreeOf(s, L),
         NEW root \in PageIds, root = s.root, NEW k \in Nat, NEW v \in Nat,
         NEW path, path = Path(s, root, k), NEW leaf, leaf = path[Len(path)],
         s.next + 1 + Len(path) <= MaxPages \/ Takes(s.pages[leaf], k), Later(s),
         NEW E, Routes(s.pages, s.next, s.root, L, E, E),
         AllTell(s.pages, s.root, E, k), Ready(s, k),
         NEW r, r = insert_recursive(s, root, k, v)
  PROVE  /\ \E M, D, I : Inserts(r, s, b, L, M, root) /\ Owned(r, M, D, I, root, k, v)
         /\ s.next <= r.st.next
         /\ r.split = NoSplit \/ r.st.next \in PageIds
<1> DEFINE h == Len(path) - 1
           m == visit_each(s, Front(path))
           f == CHOOSE f : f = [n \in 0 .. h |->
                  IF n = 0 THEN PutInLeaf(visit_each(s, Front(path)), Last(path), k, v)
                  ELSE AddChild(f[n - 1], path[h + 1 - n])]
           Good(n) == /\ Upto(f[n], s, b, L, path, h - n, k, v)
                      /\ s.next <= f[n].st.next /\ f[n].st.next <= s.next + n + 1
                      /\ f[n].split = NoSplit \/ s.next + h + 2 <= MaxPages
           T == {n \in 0 .. h : Good(n)}
<1>1. /\ s.next \in Nat /\ s.next <= MaxPages /\ MaxPages \in Nat
      /\ root \in PageIds /\ root < s.next /\ s.root # None
  <2>1. s.next \in 0 .. MaxPages /\ RootOK(s.pages, s.next, s.root) /\ s.root # None
    BY PageFacts DEF TreeOf, Tree
  <2> QED BY <2>1, PageFacts DEF RootOK
<1>2. /\ Descends(path, s, L, root)
      /\ Len(path) = L[root] + 1
      /\ s.pages[leaf].node_type = "Leaf"
  BY <1>1, PathDescends
<1>3. k \in E[leaf]
  BY <1>1, PathOwns
<1>4. /\ path \in Seq(PageIds) /\ Len(path) \in Nat /\ Len(path) >= 1
      /\ path[1] = root /\ Last(path) = leaf
  <2>1. path \in Seq(PageIds) /\ Len(path) \in Nat /\ Len(path) >= 1 /\ path[1] = root
    BY <1>2 DEF Descends
  <2> QED BY <2>1, LastOf
<1>5. /\ h \in Nat /\ h + 1 = Len(path) /\ Len(path) - 1 = h /\ h - 0 = h /\ h - h = 0
      /\ \A n \in 1 .. h : /\ h - (n - 1) = h + 1 - n /\ h + 1 - n \in 1 .. h
                           /\ h + 1 - n - 1 = h - n
  BY <1>4
<1>6. r = f[h]
  BY DEF insert_recursive
<1> HIDE DEF h, m
<1>7. /\ f[0] = PutInLeaf(m, leaf, k, v)
      /\ \A n \in 1 .. h : f[n] = AddChild(f[n - 1], path[h + 1 - n])
  <2> HIDE DEF f
  <2>1. PICK g : Steps(g, h, "Insert", <<path, h>>, PutInLeaf(m, leaf, k, v))
    BY <1>5, StepsExist
  <2>2. g = [n \in 0 .. h |-> IF n = 0 THEN PutInLeaf(m, leaf, k, v)
                              ELSE Step("Insert", <<path, h>>, n, g[n - 1])]
    BY <2>1 DEF Steps
  <2>3. \A n : Step("Insert", <<path, h>>, n, g[n - 1]) = AddChild(g[n - 1], path[h + 1 - n])
    BY DEF Step
  <2>4. g = [n \in 0 .. h |-> IF n = 0 THEN PutInLeaf(m, leaf, k, v)
                              ELSE AddChild(g[n - 1], path[h + 1 - n])]
    BY <2>2, <2>3
  <2>5. f = [n \in 0 .. h |-> IF n = 0 THEN PutInLeaf(m, leaf, k, v)
                              ELSE AddChild(f[n - 1], path[h + 1 - n])]
    BY <1>4, <2>4 DEF f, m
  <2> QED BY <1>5, <2>5
<1> HIDE DEF f
<1>8. 0 \in T
  <2> DEFINE r0 == f[0]
  <2>1. r0 = PutInLeaf(m, leaf, k, v)
    BY <1>7
  <2>2. leaf \in PageIds /\ leaf < s.next
    <3>1. h + 1 \in 1 .. Len(path) /\ leaf = path[h + 1]
      BY <1>5
    <3> QED BY <1>2, <1>4, <3>1 DEF Descends
  <2>3. s.next \in PageIds \/ Takes(s.pages[leaf], k)
    <3>1. s.next + 1 + Len(path) <= MaxPages => s.next \in PageIds
      BY <1>1, <1>4 DEF PageIds
    <3> QED BY <3>1
  <2>4. leaf = path[h + 1] /\ m = visit_each(s, Front(path)) /\ Len(path) = h + 1
    BY <1>5 DEF m
  <2> HIDE DEF T, Good, r0
  <2>5. Upto(r0, s, b, L, path, h, k, v)
    BY <1>1, <1>2, <1>3, <1>5, <2>1, <2>3, <2>4, LeafUpto
  <2>6. Holds(m, b, None, None, None) /\ SameTree(m, s) /\ TreeOf(m, L)
    <3>1. Front(path) \in Seq(PageIds)
      BY <1>4, FrontOf
    <3>2. Holds(m, b, None, None, None) /\ SameTree(m, s)
      BY <2>4, <3>1, VisitEachHolds, PageFacts DEF PageOrNone
    <3> QED BY <3>2, SameTreeOf
  <2>7. m.pages = s.pages /\ m.next = s.next
    BY <2>6 DEF SameTree
  <2>8. m.next \in PageIds \/ Takes(m.pages[leaf], k)
    BY <2>3, <2>7
  <2>9. leaf < m.next /\ m.pages[leaf].node_type = "Leaf"
    BY <1>2, <2>2, <2>7
  <2>10. /\ r0.st.next \in {m.next, m.next + 1}
         /\ Takes(m.pages[leaf], k) => r0.split = NoSplit
    <3>1. Inserts(r0, m, b, L, L, leaf)
      BY <2>1, <2>2, <2>6, <2>8, <2>9, PutInLeafHolds
    <3>2. Grown(r0, m)
      BY <2>1, <2>2, <2>6, <2>8, <2>9, <3>1, PutInLeafHolds
    <3>3. Unsplit(r0, m.pages[leaf], k)
      BY <2>1, <2>2, <2>6, <2>8, <2>9, <3>1, PutInLeafHolds
    <3> QED BY <3>2, <3>3 DEF Grown, Unsplit
  <2>11. s.next <= r0.st.next /\ r0.st.next <= s.next + 0 + 1
    BY <1>1, <2>7, <2>10
  <2>12. r0.split = NoSplit \/ s.next + h + 2 <= MaxPages
    <3>1. s.next + 1 + Len(path) = s.next + h + 2
      BY <1>1, <1>5, <2>4
    <3> QED BY <2>7, <2>10, <3>1
  <2> QED BY <1>5, <2>5, <2>11, <2>12 DEF T, Good, r0
<1>9. ASSUME NEW n \in 1 .. h, n - 1 \in T PROVE n \in T
  <2> DEFINE g == f[n - 1]
             u == f[n]
             j == h + 1 - n
  <2>1. /\ Upto(g, s, b, L, path, j, k, v)
        /\ s.next <= g.st.next /\ g.st.next <= s.next + (n - 1) + 1
        /\ g.split = NoSplit \/ s.next + h + 2 <= MaxPages
    BY <1>5, <1>9
  <2>2. u = AddChild(g, path[j])
    BY <1>7
  <2>3. j \in 1 .. Len(path) - 1 /\ j - 1 = h - n
    BY <1>5
  <2> HIDE DEF g, u, j, T, Good
  <2>4. g.st.next \in Nat
    <3>1. \E M : TreeOf(g.st, M)
      BY <2>1 DEF Upto, Inserts
    <3> QED BY <3>1, PageFacts DEF TreeOf, Tree
  <2>5. g.split = NoSplit \/ g.st.next \in PageIds
    <3> SUFFICES ASSUME s.next + h + 2 <= MaxPages PROVE g.st.next \in PageIds
      BY <2>1
    <3> DEFINE x == g.st.next
               y == s.next
    <3>1. x \in Nat /\ y \in Nat /\ h \in Nat /\ n \in Nat /\ n <= h /\ MaxPages \in Nat
          /\ x <= y + (n - 1) + 1 /\ y + h + 2 <= MaxPages
      BY <1>1, <1>5, <2>1, <2>4
    <3> HIDE DEF x, y
    <3>2. x <= MaxPages - 1
      BY <3>1
    <3> QED BY <3>1, <3>2 DEF PageIds, x
  <2>6. Upto(u, s, b, L, path, j - 1, k, v)
    BY <1>2, <2>1, <2>2, <2>3, <2>5, AboveUpto
  <2>7. Higher(u, g)
    BY <1>2, <2>1, <2>2, <2>3, <2>5, AboveUpto
  <2>8. s.next <= u.st.next /\ u.st.next <= s.next + n + 1
    BY <1>1, <2>1, <2>4, <2>7, SMTT(20) DEF Higher
  <2>9. u.split = NoSplit \/ s.next + h + 2 <= MaxPages
    BY <2>1, <2>7 DEF Higher
  <2>10. Upto(u, s, b, L, path, h - n, k, v)
    BY <2>3, <2>6
  <2> QED BY <1>5, <2>8, <2>9, <2>10 DEF T, Good, u
<1>10. h \in T
  <2>1. h \in 0 .. h
    BY <1>5
  <2> HIDE DEF T
  <2> QED BY <1>5, <1>8, <1>9, <2>1, UpTo
<1>11. /\ Upto(r, s, b, L, path, 0, k, v)
       /\ s.next <= r.st.next /\ r.st.next <= s.next + h + 1
       /\ r.split = NoSplit \/ s.next + h + 2 <= MaxPages
  BY <1>5, <1>6, <1>10
<1>12. \E M, D, I : Inserts(r, s, b, L, M, root) /\ Owned(r, M, D, I, root, k, v)
  BY <1>4, <1>11 DEF Upto
<1>13. r.st.next \in Nat
  BY <1>12, PageFacts DEF Inserts, TreeOf, Tree
<1>14. ASSUME s.next + h + 2 <= MaxPages PROVE r.st.next \in PageIds
  <2> DEFINE x == r.st.next
             y == s.next
  <2>1. x \in Nat /\ y \in Nat /\ h \in Nat /\ MaxPages \in Nat
        /\ x <= y + h + 1 /\ y + h + 2 <= MaxPages
    BY <1>1, <1>5, <1>11, <1>13, <1>14
  <2> HIDE DEF x, y
  <2>2. x <= MaxPages - 1
    BY <2>1
  <2> QED BY <2>1, <2>2 DEF PageIds, x
<1> QED BY <1>11, <1>12, <1>14

---------------------------------------------------------------------------
(* A new root.                                                             *)

\* What a returning call with k leaves: k has v, and the other keys are
\* found as before, until a merge.
Told(t, k, v) ==
  /\ Safe(t, k)
  /\ t.merges = 0 => \E M, D : /\ TreeOf(t, M)
                               /\ Routes(t.pages, t.next, t.root, M, D, D)
                               /\ AllTell(t.pages, t.root, D, k)
                               /\ Tells(t.pages, t.root, D, k, v)

LEMMA ToldFound ==
  ASSUME NEW t, NEW k, NEW v, Told(t, k, v)
  PROVE  Ready(t, k)
BY DEF Told, Ready, Found, TreeOf

LEMMA SafeSame ==
  ASSUME NEW e, NEW t, NEW k, NEW v, e \in States, Safe(e, k),
         t = save_metadata(e), SameTree(t, e),
         \E M, D : /\ TreeOf(t, M)
                   /\ Routes(t.pages, t.next, t.root, M, D, D)
                   /\ AllTell(t.pages, t.root, D, k)
                   /\ Tells(t.pages, t.root, D, k, v)
  PROVE  Told(t, k, v)
<1>1. Found(t, k)
  BY DEF Found, TreeOf
<1>2. Found(e, k)
  <2>1. t.pages = e.pages /\ t.next = e.next /\ t.root = e.root
    BY DEF SameTree
  <2> QED BY <1>1, <2>1 DEF Found, Torn
<1>3. Ready(MayFail(e), k)
  BY <1>2, MayFailReady DEF Ready
<1> QED BY <1>3 DEF save_metadata, Told, Ready

LEMMA NewRootSafe ==
  ASSUME NEW s, NEW b, NEW L, Holds(s, b, None, None, None), TreeOf(s, L), s.next \in PageIds,
         NEW node \in Nodes, Whole(node),
         NEW M, \A pg2 : Rooted(pg2, s.pages, s.next, node) => Tree(pg2, s.next + 1, s.next, M),
         NEW k, NEW v, Ready(s, k), NEW t, t = NewRoot(s, node),
         \E N, D : /\ TreeOf(t, N)
                   /\ Routes(t.pages, s.next + 1, s.next, N, D, D)
                   /\ AllTell(t.pages, s.next, D, k)
                   /\ Tells(t.pages, s.next, D, k, v)
  PROVE  Told(t, k, v)
<1> DEFINE new == s.next
           c == create_page(s)
           u == update_parents(c, node.children, new)
           d == Done(u, new, node)
           e == [d EXCEPT !.root = new]
<1>1. new \in PageIds /\ node.children \in Seq(PageIds) /\ deserialize(node) = node /\ new \in PageOrNone
  BY ReadsBack DEF Nodes, PageOrNone
<1>2. t = save_metadata(e)
  BY DEF NewRoot
<1>3. Holds(c, b, None, None, new) /\ Created(c, s) /\ Ready(c, k)
  <2> HIDE DEF c
  <2>0. c = create_page(s)
    BY DEF c
  <2>1. Holds(c, b, None, None, new)
    BY <2>0, CreateHolds
  <2>2. Created(c, s)
    BY <2>0, <2>1, CreateHolds
  <2>3. Ready(c, k)
    BY <2>0, CreateReady
  <2> QED BY <2>1, <2>2, <2>3
<1> HIDE DEF c
<1>4. TreeOf(c, L) /\ c.pages[new].node_type = "Leaf"
  BY <1>3, CreatedTree
<1>5. c.next = new + 1 /\ new < c.next
  <2>1. new < new + 1
    BY <1>1, PageFacts
  <2> QED BY <1>3, <2>1 DEF Created
<1>6. /\ Holds(u, b, None, new, None)
      /\ SameRoot(u, c)
      /\ Ready(u, k)
  <2>1. Holds(c, b, None, new, None)
    BY <1>3, HoldsAny
  <2>2. new < c.next /\ c.pages[new].node_type = "Leaf"
    BY <1>4, <1>5
  <2> DEFINE cs == node.children
  <2>3. cs \in Seq(PageIds)
    BY <1>1
  <2>4. u = update_parents(c, cs, new)
    OBVIOUS
  <2>5. MayName(c, {cs[i] : i \in 1 .. Len(cs)}, new)
    BY <2>2 DEF MayName
  <2> HIDE DEF u, cs, new
  <2>6. Holds(u, b, None, new, None)
    BY <1>1, <1>4, <2>1, <2>2, <2>3, <2>4, UpdateParentsHolds
  <2>7. SameRoot(u, c)
    BY <1>1, <1>4, <2>1, <2>2, <2>3, <2>4, <2>6, UpdateParentsHolds
  <2>8. Ready(u, k)
    BY <1>1, <1>3, <1>4, <2>1, <2>3, <2>4, <2>5, UpdateParentsReady
  <2> QED BY <2>6, <2>7, <2>8
<1> HIDE DEF u
<1>7. /\ Holds(d, b, None, None, None)
      /\ SameRoot(d, u)
      /\ d.cuts = u.cuts
  <2>1. Holds(u, b, None, None, new)
    BY <1>6, HoldsAny
  <2>2. d = Done(u, new, node)
    OBVIOUS
  <2> HIDE DEF d, new
  <2>3. Holds(d, b, None, None, None)
    BY <1>1, <2>1, <2>2, DoneHolds
  <2>4. SameRoot(d, u)
    BY <1>1, <2>1, <2>2, <2>3, DoneHolds
  <2>5. d.cuts = u.cuts
    BY <1>1, <2>1, <2>2, DoneCuts
  <2> QED BY <2>3, <2>4, <2>5
<1> HIDE DEF d
<1>8. /\ e.next = d.next /\ e.root = new /\ e.merges = d.merges
      /\ e \in States /\ e.pins = d.pins /\ e.held = d.held /\ e.four = d.four
      /\ e.stray = d.stray /\ e.cuts = d.cuts /\ e.pages = d.pages
  <2>1. d \in States
    BY <1>7 DEF Holds
  <2> HIDE DEF new
  <2> QED BY <1>1, <2>1 DEF States
<1> HIDE DEF e
<1>9. Safe(e, k)
  BY <1>6, <1>7, <1>8 DEF Ready, Safe
<1>10. SameTree(t, e)
  <2>1. e.merges \in Nat
    BY <1>8 DEF States
  <2> QED BY <1>2 DEF save_metadata, MayFail, SameTree
<1>11. t.next = s.next + 1 /\ t.root = s.next
  BY <1>5, <1>6, <1>7, <1>8, <1>10 DEF SameRoot, SameTree
<1> QED BY <1>2, <1>8, <1>9, <1>10, <1>11, SafeSame

\* While the root is split, no page at its height but the halves has keys to
\* answer for, and so none above it.
LEMMA NothingAbove ==
  ASSUME NEW pg, NEW nx, NEW rt \in PageIds, NEW L, Tree(pg, nx, rt, L),
         NEW E, NEW J, Routes(pg, nx, rt, L, E, J),
         NEW q \in PageIds, NEW key, Pending(E, J, rt, q, key), Orphan(pg, q), L[q] = L[rt]
  PROVE  \A p \in PageIds : L[p] > L[rt] => E[p] = {}
<1>1. /\ L \in [PageIds -> Nat] /\ E \in Ranges /\ J \in Ranges /\ Disjoint(L, E)
      /\ J[rt] = Nat /\ \A p \in PageIds : RouteAt(pg, E, J, p)
      /\ rt # None
  BY PageFacts DEF Tree, Routes
<1>2. J[rt] = E[rt] \cup E[q] /\ \A p \in PageIds : p # rt => J[p] = E[p]
  BY <1>1 DEF Pending, Ranges
<1>3. ASSUME NEW p \in PageIds, NEW x \in E[p], L[p] >= L[rt] PROVE L[p] = L[rt] /\ p \in {rt, q}
  <2> DEFINE N == L[p] - L[rt]
             Bare(n) == \A a \in PageIds : L[a] = L[rt] + n /\ a \notin {rt, q} => E[a] = {}
             T == {n \in 0 .. N : Bare(n)}
  <2>1. L[p] \in Nat /\ L[rt] \in Nat /\ N \in Nat /\ L[p] = L[rt] + N
    BY <1>1, <1>3
  <2> HIDE DEF N
  <2>2. 0 \in T
    <3> SUFFICES ASSUME NEW a \in PageIds, L[a] = L[rt] + 0, a \notin {rt, q}, NEW y \in E[a]
                 PROVE  FALSE
      BY <2>1
    <3>1. L[a] = L[rt]
      BY <2>1
    <3>2. y \in Nat
      BY <1>1 DEF Ranges
    <3>3. y \in E[rt] \/ y \in E[q]
      BY <1>1, <1>2, <3>2
    <3> QED BY <1>1, <3>1, <3>3 DEF Disjoint
  <2>3. ASSUME NEW n \in 1 .. N, n - 1 \in T PROVE n \in T
    <3> SUFFICES ASSUME NEW a \in PageIds, L[a] = L[rt] + n, a \notin {rt, q}, NEW y \in E[a]
                 PROVE  FALSE
      BY <2>1
    <3>1. L[a] > 0 /\ n \in Nat
      BY <2>1
    <3>2. pg[a].node_type # "Leaf"
      BY <3>1, LeafFacts
    <3> DEFINE c == pg[a].children[1]
    <3>3. 1 \in 1 .. Len(pg[a].children)
      <4>1. Wide(pg, nx, rt, L, a, pg[a])
        BY <3>2, InternalFacts
      <4>2. Len(pg[a].children) = Len(pg[a].keys) + 1 /\ Len(pg[a].keys) \in Nat
        BY <4>1 DEF Wide, Nodes
      <4> QED BY <4>2
    <3>4. c \in PageIds /\ c # rt /\ L[c] = L[a] - 1 /\ L[a] \in Nat
      BY <3>2, <3>3, ChildAt
    <3>5. c # q
      BY <3>3 DEF Orphan
    <3>6. J[c] # {}
      BY <1>1, <3>2, <3>3 DEF RouteAt
    <3> HIDE DEF c
    <3>7. E[c] # {}
      BY <1>2, <3>4, <3>6
    <3>8. L[c] = L[rt] + (n - 1)
      BY <2>1, <3>1, <3>4
    <3> QED BY <2>3, <3>4, <3>5, <3>7, <3>8
  <2>4. N \in T
    <3>1. N \in 0 .. N
      BY <2>1
    <3> HIDE DEF T
    <3> QED BY <2>1, <2>2, <2>3, <3>1, UpTo
  <2>5. p \in {rt, q}
    BY <1>3, <2>1, <2>4
  <2> QED BY <2>5
<1> QED BY <1>1, <1>3

\* The pages below a new root are what they were.
LEMMA RootedPages ==
  ASSUME NEW pg \in [PageIds -> Nodes], NEW nx \in PageIds, NEW node \in Nodes,
         NEW pg2, Rooted(pg2, pg, nx, node)
  PROVE  /\ pg2 \in [PageIds -> Nodes] /\ pg2[nx] = node
         /\ \A p \in PageIds : p # nx => Akin(pg2[p], pg[p])
<1>1. PICK pgc, pgm : /\ Wrote(pgc, pg, nx, Zeroed)
                      /\ Reparented(pgm, pgc, Kids(node), nx)
                      /\ Wrote(pg2, pgm, nx, node)
  BY DEF Rooted
<1>2. pgc \in [PageIds -> Nodes] /\ \A p \in PageIds : p # nx => pgc[p] = pg[p]
  BY <1>1, ZeroedLeaf DEF Wrote, LeafNode
<1>3. AkinPages(pgm, pgc)
  BY <1>1, <1>2, ReparentedAkin DEF PageOrNone
<1>4. /\ pg2 \in [PageIds -> Nodes] /\ pg2[nx] = node
      /\ \A p \in PageIds : p # nx => pg2[p] = pgm[p]
  BY <1>1, <1>3 DEF Wrote, AkinPages
<1> QED BY <1>2, <1>3, <1>4 DEF AkinPages

\* What was told of a key still is.
Carries(pg2, rt2, D, pg, rt, E, k) ==
  \A j, v : j # k /\ Tells(pg, rt, E, j, v) => Tells(pg2, rt2, D, j, v)

LEMMA RootRouted ==
  ASSUME NEW pg, NEW nx \in PageIds, NEW rt \in PageIds, NEW L, Tree(pg, nx, rt, L),
         NEW E, NEW J, Routes(pg, nx, rt, L, E, J),
         NEW q \in PageIds, NEW key, Pending(E, J, rt, q, key), Orphan(pg, q), L[q] = L[rt],
         q < nx, NEW node, RootNode(node, rt, q), node.keys[1] = key,
         NEW pg2, Rooted(pg2, pg, nx, node),
         NEW D, D = [E EXCEPT ![nx] = Nat]
  PROVE  /\ Routes(pg2, nx + 1, nx, Raised(L, nx, rt), D, D)
         /\ Carries(pg2, nx, D, pg, rt, E, None)
<1>1. /\ L \in [PageIds -> Nat] /\ E \in Ranges /\ J \in Ranges /\ Disjoint(L, E)
      /\ J[rt] = Nat /\ \A p \in PageIds : RouteAt(pg, E, J, p)
      /\ \A p \in PageIds : p >= nx => E[p] = {}
      /\ pg \in [PageIds -> Nodes] /\ nx \in Nat /\ rt < nx /\ rt # None /\ nx # None
  BY PageFacts DEF Tree, Routes, RootOK
<1>2. J[rt] = E[rt] \cup E[q] /\ \A p \in PageIds : p # rt => J[p] = E[p]
  BY <1>1 DEF Pending, Ranges
<1>3. nx # rt /\ nx # q /\ PageIds \subseteq Nat
  BY <1>1, PageFacts
<1>4. /\ D \in Ranges /\ D[nx] = Nat /\ \A p \in PageIds : p # nx => D[p] = E[p]
  BY <1>1 DEF Ranges
<1> DEFINE M == Raised(L, nx, rt)
<1>5. M[nx] = L[rt] + 1 /\ \A p \in PageIds : p # nx => M[p] = L[p]
  BY <1>1 DEF Raised
<1> HIDE DEF M
<1>6. /\ node \in Nodes /\ node.node_type = "Internal"
      /\ Len(node.keys) = 1 /\ Len(node.children) = 2
      /\ node.children[1] = rt /\ node.children[2] = q
  BY DEF RootNode
<1>7. /\ pg2 \in [PageIds -> Nodes] /\ pg2[nx] = node
      /\ \A p \in PageIds : p # nx => Akin(pg2[p], pg[p])
  BY <1>1, <1>6, RootedPages
<1>8. key \in Nat /\ E[rt] = {x \in Nat : x < key} /\ E[q] = {x \in Nat : key <= x}
      /\ E[rt] # {} /\ E[q] # {}
  <2>1. /\ E[rt] # {} /\ key \in E[q] /\ E[rt] \subseteq Nat /\ E[q] \subseteq Nat
        /\ \A x \in E[rt] : x < key
        /\ \A x \in E[q] : key <= x
        /\ Nat = E[rt] \cup E[q]
    BY <1>1, <1>2 DEF Pending, Ranges
  <2>2. key \in Nat
    BY <2>1
  <2>3. ASSUME NEW x \in Nat, x < key PROVE x \in E[rt]
    BY <2>1, <2>2, <2>3
  <2>4. ASSUME NEW x \in Nat, key <= x PROVE x \in E[q]
    BY <2>1, <2>2, <2>4
  <2> QED BY <2>1, <2>2, <2>3, <2>4
<1>9. Disjoint(M, D)
  <2> SUFFICES ASSUME NEW a \in PageIds, NEW c \in PageIds, M[a] = M[c], a # c
               PROVE  D[a] \cap D[c] = {}
    BY DEF Disjoint
  <2>1. ASSUME NEW x \in PageIds, x # nx, M[x] = M[nx] PROVE D[x] = {}
    <3>1. L[x] > L[rt]
      BY <1>1, <1>5, <2>1
    <3>2. E[x] = {}
      BY <3>1, NothingAbove
    <3> QED BY <1>4, <2>1, <3>2
  <2>2. CASE a # nx /\ c # nx
    BY <1>1, <1>4, <1>5, <2>2 DEF Disjoint
  <2> QED BY <2>1, <2>2
<1>10. ASSUME NEW p \in PageIds, p # nx PROVE RouteAt(pg2, D, D, p)
  <2>1. RouteAt(pg, E, J, p) /\ Akin(pg2[p], pg[p]) /\ D[p] = E[p]
    BY <1>1, <1>4, <1>7, <1>10
  <2>2. ASSUME pg[p].node_type # "Leaf", NEW i \in 1 .. Len(pg[p].children)
        PROVE  D[pg[p].children[i]] = J[pg[p].children[i]]
    <3> DEFINE c == pg[p].children[i]
    <3>1. c \in PageIds /\ c < nx /\ c # rt
      BY <2>2, ChildAt
    <3>2. c # nx
      BY <1>1, <1>3, <3>1
    <3> QED BY <1>2, <1>4, <3>1, <3>2
  <2>3. pg[p].node_type # "Leaf" =>
          \A i \in 1 .. Len(pg[p].children) : D[pg[p].children[i]] = J[pg[p].children[i]]
    BY <2>2
  <2> QED BY ONLY <2>1, <2>3 DEF RouteAt, Akin
<1>11. RouteAt(pg2, D, D, nx)
  <2> DEFINE ks == node.keys
  <2>1. Len(ks) = 1 /\ ks[1] = key /\ 1 .. Len(ks) = {1} /\ 1 .. Len(node.children) = {1, 2}
    BY <1>6
  <2>2. Increasing(ks)
    BY <2>1 DEF Increasing
  <2>3. Slot(ks, 1, Nat) = {x \in Nat : x < key} /\ Slot(ks, 2, Nat) = {x \in Nat : key <= x}
    BY <2>1 DEF Slot
  <2>4. D[rt] = Slot(ks, 1, Nat) /\ D[q] = Slot(ks, 2, Nat) /\ D[rt] # {} /\ D[q] # {}
    BY <1>3, <1>4, <1>8, <2>3
  <2>5. ASSUME NEW i \in 1 .. Len(node.children)
        PROVE  D[node.children[i]] = Slot(ks, i, Nat) /\ D[node.children[i]] # {}
    <3>1. i = 1 \/ i = 2
      BY <2>1
    <3>2. CASE i = 1
      BY <1>6, <2>4, <3>2
    <3>3. CASE i = 2
      BY <1>6, <2>4, <3>3
    <3> QED BY <3>1, <3>2, <3>3
  <2>6. \A i \in 1 .. Len(ks) : ks[i] \in Nat
    BY <1>8, <2>1
  <2> QED BY <1>4, <1>7, <2>2, <2>5, <2>6 DEF RouteAt
<1>12. \A p \in PageIds : p >= nx + 1 => D[p] = {}
  BY <1>1, <1>3, <1>4
<1>13. Routes(pg2, nx + 1, nx, M, D, D)
  BY <1>1, <1>4, <1>9, <1>10, <1>11, <1>12 DEF Routes
<1>14. ASSUME NEW j, NEW v, Tells(pg, rt, E, j, v) PROVE Tells(pg2, nx, D, j, v)
  <2> SUFFICES ASSUME NEW p \in PageIds, pg2[p].node_type = "Leaf", j \in D[p]
               PROVE  Finds(pg2[p], j, v)
    BY <1>1 DEF Tells
  <2>1. p # nx
    BY <1>6, <1>7
  <2>2. Akin(pg2[p], pg[p]) /\ j \in E[p]
    BY <1>4, <1>7, <2>1
  <2>3. Finds(pg[p], j, v)
    BY <1>1, <1>14, <2>2 DEF Tells, Akin
  <2> QED BY <2>2, <2>3 DEF Finds, Akin
<1> QED BY <1>13, <1>14 DEF M, Carries

\* The first leaf.
LEMMA FirstRouted ==
  ASSUME NEW pg, NEW nx \in PageIds, NEW L, Tree(pg, nx, None, L),
         NEW E, NEW J, Routes(pg, nx, None, L, E, J),
         NEW k \in Nat, NEW v, NEW node, LeafNode(node),
         Len(node.keys) = 1, node.keys[1] = k, node.values[1] = v,
         NEW pg2, Rooted(pg2, pg, nx, node),
         NEW D, D = [E EXCEPT ![nx] = Nat]
  PROVE  /\ Routes(pg2, nx + 1, nx, L, D, D)
         /\ Carries(pg2, nx, D, pg, None, E, k)
         /\ Tells(pg2, nx, D, k, v)
<1>1. /\ L \in [PageIds -> Nat] /\ E \in Ranges
      /\ \A p \in PageIds : E[p] = {}
      /\ pg \in [PageIds -> Nodes] /\ nx \in Nat /\ nx # None /\ PageIds \subseteq Nat
      /\ \A p \in PageIds : pg[p].node_type = "Leaf"
  BY PageFacts DEF Tree, Routes, NodeOK
<1>2. /\ D \in Ranges /\ D[nx] = Nat /\ \A p \in PageIds : p # nx => D[p] = {}
  BY <1>1 DEF Ranges
<1>3. /\ pg2 \in [PageIds -> Nodes] /\ pg2[nx] = node
      /\ \A p \in PageIds : p # nx => Akin(pg2[p], pg[p])
  BY <1>1, RootedPages DEF LeafNode
<1>4. Disjoint(L, D)
  BY <1>2 DEF Disjoint
<1>5. ASSUME NEW p \in PageIds PROVE RouteAt(pg2, D, D, p)
  <2>1. CASE p # nx
    BY <1>1, <1>2, <1>3, <2>1 DEF RouteAt, Akin
  <2>2. CASE p = nx
    <3>1. 1 .. Len(node.keys) = {1} /\ node.node_type = "Leaf"
      BY DEF LeafNode
    <3>2. Increasing(node.keys)
      BY <3>1 DEF Increasing
    <3> QED BY <1>2, <1>3, <2>2, <3>1, <3>2 DEF RouteAt
  <2> QED BY <2>1, <2>2
<1>6. \A p \in PageIds : p >= nx + 1 => D[p] = {}
  BY <1>1, <1>2
<1>7. Routes(pg2, nx + 1, nx, L, D, D)
  BY <1>1, <1>2, <1>4, <1>5, <1>6 DEF Routes
<1>8. ASSUME NEW j, NEW w, Finds(node, j, w) PROVE Tells(pg2, nx, D, j, w)
  <2> SUFFICES ASSUME NEW p \in PageIds, j \in D[p] PROVE Finds(pg2[p], j, w)
    BY <1>1 DEF Tells
  <2> QED BY <1>2, <1>3, <1>8
<1>9. Finds(node, k, v)
  <2>1. 1 \in 1 .. Len(node.keys)
    OBVIOUS
  <2> QED BY <2>1 DEF Finds
<1>10. ASSUME NEW j, NEW w, j # k, Tells(pg, None, E, j, w) PROVE Finds(node, j, w)
  <2>1. 1 .. Len(node.keys) = {1}
    OBVIOUS
  <2> QED BY <1>10, <2>1 DEF Tells, Finds
<1> QED BY <1>7, <1>8, <1>9, <1>10 DEF Carries

LEMMA RootOverTold ==
  ASSUME NEW s, NEW b, NEW L, NEW M, TreeOf(s, L),
         NEW root \in PageIds, root = s.root, root < s.next,
         NEW r, Inserts(r, s, b, L, M, root), r.split = NoSplit \/ r.st.next \in PageIds,
         NEW k \in Nat, NEW v, NEW E, NEW J, Owned(r, M, E, J, root, k, v),
         NEW t, t = RootOver(root, r)
  PROVE  Told(t, k, v)
<1>1. CASE r.split = NoSplit
  <2>1. t = r.st /\ J = E
    BY <1>1 DEF RootOver, Owned
  <2>2. TreeOf(t, M)
    BY <2>1 DEF Inserts
  <2> QED BY <2>1, <2>2 DEF Told, Owned, Ready
<1>2. CASE r.split # NoSplit
  <2> DEFINE u == r.st
  <2>1. /\ Holds(u, b, None, None, None) /\ TreeOf(u, M)
        /\ u.root = root
        /\ SplitOf(r, M, root) /\ u.next \in PageIds
    BY <1>2 DEF Inserts
  <2>2. PICK key \in Nat, q \in PageIds :
          /\ r.split = <<key, q>>
          /\ q < u.next /\ q # u.root /\ M[q] = M[root]
          /\ Len(u.pages[root].keys) >= min_keys
          /\ Len(u.pages[q].keys) >= min_keys
          /\ Orphan(u.pages, q)
    BY <2>1 DEF SplitOf
  <2>3. /\ Routes(u.pages, u.next, root, M, E, J) /\ Pending(E, J, root, q, key)
        /\ AllTell(u.pages, root, E, k) /\ Tells(u.pages, root, E, k, v) /\ Ready(u, k)
    BY <1>2, <2>1, <2>2 DEF Owned
  <2> DEFINE node == [new_internal EXCEPT !.keys = <<key>>, !.children = <<root, q>>]
  <2>4. t = NewRoot(u, node)
    BY <1>2, <2>2 DEF RootOver
  <2>5. RootNode(node, root, q) /\ node.keys[1] = key
    <3>1. new_leaf \in Nodes /\ DOMAIN new_leaf = {"node_type", "keys", "values", "children", "next_leaf", "parent"}
      BY ZeroedLeaf DEF LeafNode, new_leaf
    <3> DEFINE ks == <<key>>
               cs == <<root, q>>
    <3>2. ks \in Seq(Nat) /\ Len(ks) = 1 /\ ks[1] = key
          /\ cs \in Seq(PageIds) /\ Len(cs) = 2 /\ cs[1] = root /\ cs[2] = q
      OBVIOUS
    <3>3. node = [new_internal EXCEPT !.keys = ks, !.children = cs]
      OBVIOUS
    <3>4. new_leaf.parent = None
      BY DEF new_leaf
    <3> HIDE DEF ks, cs, node
    <3>5. node \in Nodes /\ node.node_type = "Internal" /\ node.parent = None
          /\ node.keys = ks /\ node.children = cs
      BY <3>1, <3>2, <3>3, <3>4 DEF new_internal, Nodes
    <3> QED BY <3>2, <3>5 DEF RootNode
  <2> HIDE DEF u, node
  <2> DEFINE nx == u.next
             pg == u.pages
             N == Raised(M, nx, root)
             D == [E EXCEPT ![nx] = Nat]
  <2>6. Tree(pg, nx, root, M) /\ nx \in PageIds /\ Orphan(pg, q) /\ M[q] = M[root] /\ q < nx
        /\ q # root /\ Len(pg[root].keys) >= min_keys /\ Len(pg[q].keys) >= min_keys
        /\ Routes(pg, nx, root, M, E, J)
    BY <2>1, <2>2, <2>3 DEF TreeOf
  <2>7. ASSUME NEW pg2, Rooted(pg2, pg, nx, node) PROVE Tree(pg2, nx + 1, nx, N)
    <3>1. PICK pgc, pgm : /\ Wrote(pgc, pg, nx, Zeroed)
                          /\ Reparented(pgm, pgc, Kids(node), nx)
                          /\ Wrote(pg2, pgm, nx, node)
      BY <2>7 DEF Rooted
    <3> HIDE DEF pg, nx, N
    <3> QED BY <2>5, <2>6, <3>1, RaisedTree DEF N
  <2>8. ASSUME NEW pg2, Rooted(pg2, pg, nx, node)
        PROVE  /\ Routes(pg2, nx + 1, nx, N, D, D)
               /\ Carries(pg2, nx, D, pg, root, E, None)
    <3> HIDE DEF pg, nx
    <3> DEFINE C == D
    <3>1. C = [E EXCEPT ![nx] = Nat]
      OBVIOUS
    <3> HIDE DEF C
    <3>2. Routes(pg2, nx + 1, nx, Raised(M, nx, root), C, C)
      BY <2>3, <2>5, <2>6, <2>8, <3>1, RootRouted
    <3>3. Carries(pg2, nx, C, pg, root, E, None)
      BY <2>3, <2>5, <2>6, <2>8, <3>1, RootRouted
    <3> QED BY <3>2, <3>3 DEF C
  <2>9. node \in Nodes /\ Whole(node)
    BY <2>5 DEF RootNode, Whole
  <2>10. \A pg2 : Rooted(pg2, u.pages, u.next, node) => Tree(pg2, u.next + 1, u.next, N)
    BY <2>7
  <2> HIDE DEF N, D
  <2>11. TreeOf(t, N) /\ Rooted(t.pages, u.pages, u.next, node)
    BY <2>1, <2>4, <2>9, <2>10, NewRootHolds
  <2>12. /\ Routes(t.pages, u.next + 1, u.next, N, D, D)
         /\ AllTell(t.pages, u.next, D, k) /\ Tells(t.pages, u.next, D, k, v)
    <3>1. k # None /\ \A j \in Others(k) : j # None
      BY OthersKeys, TreeAssumption
    <3> QED BY <2>3, <2>8, <2>11, <3>1 DEF AllTell, Carries
  <2>13. \E N2, D2 : /\ TreeOf(t, N2)
                     /\ Routes(t.pages, u.next + 1, u.next, N2, D2, D2)
                     /\ AllTell(t.pages, u.next, D2, k)
                     /\ Tells(t.pages, u.next, D2, k, v)
    BY <2>11, <2>12
  <2> QED BY <2>1, <2>3, <2>4, <2>9, <2>10, <2>13, NewRootSafe
<1> QED BY <1>1, <1>2

\* The whole of insert.
LEMMA InsertTold ==
  ASSUME NEW s, NEW b, NEW L, Holds(s, b, None, None, None), TreeOf(s, L),
         NEW k \in Nat, NEW v \in Nat, RoomFor(s, k), Later(s),
         NEW E, Routes(s.pages, s.next, s.root, L, E, E),
         AllTell(s.pages, s.root, E, k), Ready(s, k),
         NEW t, t = insert(s, k, v)
  PROVE  Told(t, k, v)
<1>1. s.next \in Nat /\ s.root \in PageOrNone /\ MaxPages \in Nat
  BY PageFacts DEF TreeOf, Tree
<1>2. CASE s.root = None
  <2> DEFINE node == [new_leaf EXCEPT !.keys = <<k>>, !.values = <<v>>]
  <2>1. t = NewRoot(s, node)
    BY <1>2 DEF insert
  <2>2. s.next \in PageIds
    BY <1>1, <1>2 DEF RoomFor, PageIds
  <2>3. /\ LeafNode(node) /\ Len(node.keys) = 1 /\ node.parent = None
        /\ node.keys[1] = k /\ node.values[1] = v
    <3> DEFINE ks == <<k>>
               vs == <<v>>
    <3>1. ks \in Seq(Nat) /\ Len(ks) = 1 /\ vs \in Seq(Nat) /\ Len(vs) = 1 /\ ks[1] = k /\ vs[1] = v
      OBVIOUS
    <3>2. LeafNode(new_leaf) /\ new_leaf.parent = None
      BY <2>2, ZeroedLeaf DEF new_leaf
    <3>3. node = [new_leaf EXCEPT !.keys = ks, !.values = vs]
      OBVIOUS
    <3> HIDE DEF node, ks, vs
    <3>4. new_leaf \in Nodes
      BY <3>2 DEF LeafNode
    <3>5. /\ node \in Nodes /\ node.keys = ks /\ node.values = vs /\ node.parent = new_leaf.parent
          /\ node.node_type = new_leaf.node_type /\ node.children = new_leaf.children
      BY <3>1, <3>3, <3>4 DEF Nodes
    <3> QED BY <3>1, <3>2, <3>5 DEF LeafNode
  <2> HIDE DEF node
  <2>4. node \in Nodes /\ Whole(node) /\ Len(node.keys) <= max_keys /\ Kids(node) = {}
    <3>1. node \in Nodes /\ Whole(node) /\ Len(node.children) = 0
      BY <2>3 DEF LeafNode, Whole
    <3> QED BY <2>3, <3>1, PageFacts DEF Kids
  <2> DEFINE nx == s.next
             pg == s.pages
             D == [E EXCEPT ![nx] = Nat]
  <2>5. Tree(pg, nx, None, L) /\ Routes(pg, nx, None, L, E, E)
    BY <1>2 DEF TreeOf
  <2>6. ASSUME NEW pg2, Rooted(pg2, pg, nx, node)
        PROVE  Tree(pg2, nx + 1, nx, L)
    <3>1. PICK pgc, pgm : /\ Wrote(pgc, pg, nx, Zeroed)
                          /\ Reparented(pgm, pgc, Kids(node), nx)
                          /\ Wrote(pg2, pgm, nx, node)
      BY <2>6 DEF Rooted
    <3>2. pgm = pgc
      <4>1. pgc \in [PageIds -> Nodes]
        BY <2>2, <2>5, <3>1, ZeroedLeaf DEF Wrote, LeafNode, Tree
      <4> QED BY <2>4, <3>1, <4>1 DEF Reparented
    <3> HIDE DEF pg, nx
    <3>3. nx \in PageIds
      BY <2>2 DEF nx
    <3>4. Wrote(pg2, pgc, nx, node)
      BY <3>1, <3>2
    <3> QED BY <2>3, <2>4, <2>5, <3>1, <3>3, <3>4, FirstTree
  <2>7. ASSUME NEW pg2, Rooted(pg2, pg, nx, node)
        PROVE  /\ Routes(pg2, nx + 1, nx, L, D, D)
               /\ AllTell(pg2, nx, D, k) /\ Tells(pg2, nx, D, k, v)
    <3>1. AllTell(pg, None, E, k)
      BY <1>2
    <3>2. nx \in PageIds
      BY <2>2
    <3> HIDE DEF pg, nx
    <3> DEFINE C == D
    <3>3. C = [E EXCEPT ![nx] = Nat]
      OBVIOUS
    <3> HIDE DEF C
    <3>4. Routes(pg2, nx + 1, nx, L, C, C)
      BY <2>3, <2>5, <2>7, <3>2, <3>3, FirstRouted
    <3>5. Carries(pg2, nx, C, pg, None, E, k)
      BY <2>3, <2>5, <2>7, <3>2, <3>3, FirstRouted
    <3>6. Tells(pg2, nx, C, k, v)
      BY <2>3, <2>5, <2>7, <3>2, <3>3, FirstRouted
    <3>7. AllTell(pg2, nx, C, k)
      BY <3>1, <3>5 DEF AllTell, Others, Carries
    <3> QED BY <3>4, <3>6, <3>7 DEF C
  <2>8. \A pg2 : Rooted(pg2, s.pages, s.next, node) => Tree(pg2, s.next + 1, s.next, L)
    BY <2>6
  <2>9. TreeOf(t, L) /\ Rooted(t.pages, s.pages, s.next, node)
    BY <2>1, <2>2, <2>4, <2>8, NewRootHolds
  <2>10. \E N2, D2 : /\ TreeOf(t, N2)
                     /\ Routes(t.pages, s.next + 1, s.next, N2, D2, D2)
                     /\ AllTell(t.pages, s.next, D2, k)
                     /\ Tells(t.pages, s.next, D2, k, v)
    BY <2>7, <2>9
  <2> QED BY <2>1, <2>2, <2>4, <2>8, <2>10, NewRootSafe
<1>3. CASE s.root # None
  <2> DEFINE root == s.root
             path == Path(s, root, k)
             leaf == path[Len(path)]
             r == insert_recursive(s, root, k, v)
  <2>1. root \in PageIds /\ root < s.next
    BY <1>1, <1>3 DEF PageOrNone, TreeOf, Tree, RootOK
  <2>2. t = RootOver(root, r)
    BY <1>3 DEF insert
  <2>3. Last(path) = leaf
    BY <2>1, PathOwns
  <2>4. s.next + 1 + Len(path) <= MaxPages \/ Takes(s.pages[leaf], k)
    BY <1>3, <2>3 DEF RoomFor, find_leaf
  <2> HIDE DEF root, path, r, leaf
  <2>5. /\ path = Path(s, root, k) /\ leaf = path[Len(path)] /\ root = s.root
        /\ r = insert_recursive(s, root, k, v)
    BY DEF root, path, r, leaf
  <2>6. \E M, D, I : Inserts(r, s, b, L, M, root) /\ Owned(r, M, D, I, root, k, v)
    BY <2>1, <2>4, <2>5, InsertRecursiveOwned
  <2>7. r.split = NoSplit \/ r.st.next \in PageIds
    BY <2>1, <2>4, <2>5, InsertRecursiveOwned
  <2> QED BY <2>1, <2>2, <2>5, <2>6, <2>7, RootOverTold
<1> QED BY <1>2, <1>3

---------------------------------------------------------------------------
(* Borrowing.                                                              *)

\* The last entry of leaf l has become the first of leaf r.
Rightwards(l, r, l2, r2) ==
  LET n == Len(l.keys)
      m == Len(r.keys)
  IN  /\ n \in Nat /\ m \in Nat /\ n >= 2
      /\ Len(l2.keys) = n - 1 /\ Len(r2.keys) = m + 1
      /\ \A i \in 1 .. n - 1 : l2.keys[i] = l.keys[i] /\ l2.values[i] = l.values[i]
      /\ \A i \in 1 .. m : r2.keys[i + 1] = r.keys[i] /\ r2.values[i + 1] = r.values[i]
      /\ r2.keys[1] = l.keys[n] /\ r2.values[1] = l.values[n]

\* The first entry of leaf r has become the last of leaf l.
Leftwards(l, r, l2, r2) ==
  LET n == Len(l.keys)
      m == Len(r.keys)
  IN  /\ n \in Nat /\ m \in Nat /\ m >= 2
      /\ Len(l2.keys) = n + 1 /\ Len(r2.keys) = m - 1
      /\ \A i \in 1 .. n : l2.keys[i] = l.keys[i] /\ l2.values[i] = l.values[i]
      /\ \A i \in 1 .. m - 1 : r2.keys[i] = r.keys[i + 1] /\ r2.values[i] = r.values[i + 1]
      /\ l2.keys[n + 1] = r.keys[1] /\ l2.values[n + 1] = r.values[1]

\* Leaves l and r, with keys from X and from Y, have become l2 and r2, with
\* the border between them at s.
ShiftsTo(l, r, l2, r2, s, X, Y) ==
  /\ Increasing(l2.keys) /\ Increasing(r2.keys)
  /\ s \in X \cup Y /\ \E y \in X \cup Y : y < s
  /\ \A i \in 1 .. Len(l2.keys) : l2.keys[i] \in X \cup Y /\ l2.keys[i] < s
  /\ \A i \in 1 .. Len(r2.keys) : r2.keys[i] \in X \cup Y /\ s <= r2.keys[i]
  /\ \A j, v : (j \in X /\ Finds(l, j, v)) \/ (j \in Y /\ Finds(r, j, v))
                 => (j < s => Finds(l2, j, v)) /\ (s <= j => Finds(r2, j, v))

LEMMA RightwardsShifts ==
  ASSUME NEW l, NEW r, NEW l2, NEW r2, Rightwards(l, r, l2, r2),
         Increasing(l.keys), Increasing(r.keys),
         NEW X \in SUBSET Nat, NEW Y \in SUBSET Nat, \A x \in X, y \in Y : x < y,
         \A i \in 1 .. Len(l.keys) : l.keys[i] \in X,
         \A i \in 1 .. Len(r.keys) : r.keys[i] \in Y,
         NEW s, s = r2.keys[1]
  PROVE  ShiftsTo(l, r, l2, r2, s, X, Y)
<1> DEFINE n == Len(l.keys)
           m == Len(r.keys)
<1>1. /\ n \in Nat /\ m \in Nat /\ n >= 2
      /\ Len(l2.keys) = n - 1 /\ Len(r2.keys) = m + 1
      /\ \A i \in 1 .. n - 1 : l2.keys[i] = l.keys[i] /\ l2.values[i] = l.values[i]
      /\ \A i \in 1 .. m : r2.keys[i + 1] = r.keys[i] /\ r2.values[i + 1] = r.values[i]
      /\ r2.keys[1] = l.keys[n] /\ r2.values[1] = l.values[n] /\ s = l.keys[n]
  BY DEF Rightwards
<1>2. /\ \A i \in 1 .. n : l.keys[i] \in X /\ l.keys[i] \in Nat
      /\ \A i \in 1 .. m : r.keys[i] \in Y /\ r.keys[i] \in Nat
      /\ \A i, j \in 1 .. n : i < j => l.keys[i] < l.keys[j]
      /\ \A i, j \in 1 .. m : i < j => r.keys[i] < r.keys[j]
  BY DEF Increasing
<1>3. \A j, v : /\ Finds(l, j, v) <=> \/ \E i \in 1 .. n : l.keys[i] = j /\ l.values[i] = v
                                      \/ v = None /\ \A i \in 1 .. n : l.keys[i] # j
                /\ Finds(r, j, v) <=> \/ \E i \in 1 .. m : r.keys[i] = j /\ r.values[i] = v
                                      \/ v = None /\ \A i \in 1 .. m : r.keys[i] # j
  BY DEF Finds
<1> HIDE DEF n, m
<1>4. n \in 1 .. n /\ s \in X /\ s \in Nat /\ \A i \in 1 .. n - 1 : i \in 1 .. n /\ i < n
  <2>1. n \in 1 .. n /\ \A i \in 1 .. n - 1 : i \in 1 .. n /\ i < n
    BY <1>1
  <2> QED BY <1>1, <1>2, <2>1
<1>5. \A i \in 1 .. n - 1 : l2.keys[i] < s /\ l2.keys[i] \in X
  BY <1>1, <1>2, <1>4, ZenonT(40)
<1>6. ASSUME NEW i \in 1 .. m + 1
      PROVE  \/ i = 1 /\ r2.keys[i] = s
             \/ i - 1 \in 1 .. m /\ r2.keys[i] = r.keys[i - 1] /\ s < r2.keys[i] /\ r2.keys[i] \in Y
  <2>1. CASE i = 1
    BY <1>1, <2>1
  <2>2. CASE i # 1
    <3>1. i - 1 \in 1 .. m /\ (i - 1) + 1 = i
      BY <1>1, <2>2
    <3>2. r2.keys[i] = r.keys[i - 1] /\ r.keys[i - 1] \in Y
      BY <1>1, <1>2, <3>1
    <3>3. s < r2.keys[i]
      BY <1>4, <3>2
    <3> QED BY <3>1, <3>2, <3>3
  <2> QED BY <2>1, <2>2
<1>7. Increasing(l2.keys)
  BY <1>1, <1>2, <1>4 DEF Increasing
<1>8. Increasing(r2.keys)
  <2> SUFFICES ASSUME NEW i \in 1 .. m + 1, NEW j \in 1 .. m + 1, i < j
               PROVE  r2.keys[i] < r2.keys[j]
    BY <1>1 DEF Increasing
  <2>1. j # 1 /\ i \in Nat /\ j \in Nat
    BY <1>1
  <2>2. j - 1 \in 1 .. m /\ r2.keys[j] = r.keys[j - 1] /\ s < r2.keys[j]
    BY <1>6, <2>1
  <2>3. CASE i = 1
    BY <1>6, <2>2, <2>3
  <2>4. CASE i # 1
    <3>1. i - 1 \in 1 .. m /\ r2.keys[i] = r.keys[i - 1] /\ i - 1 < j - 1
      BY <1>6, <2>1, <2>4
    <3> QED BY <1>2, <2>2, <3>1
  <2> QED BY <2>3, <2>4
<1>9. \A i \in 1 .. m + 1 : r2.keys[i] \in X \cup Y /\ s <= r2.keys[i]
  <2> SUFFICES ASSUME NEW i \in 1 .. m + 1
               PROVE  r2.keys[i] \in X \cup Y /\ s <= r2.keys[i]
    OBVIOUS
  <2>1. r2.keys[i] = s \/ (s < r2.keys[i] /\ r2.keys[i] \in Y)
    BY <1>6
  <2>2. r2.keys[i] \in X \cup Y /\ r2.keys[i] \in Nat
    BY <1>4, <2>1
  <2> QED BY <1>4, <2>1, <2>2
<1>10. \E y \in X \cup Y : y < s
  <2>1. 1 \in 1 .. n - 1
    BY <1>1
  <2> QED BY <1>5, <2>1
<1>11. ASSUME NEW j, NEW v, j \in X, Finds(l, j, v)
       PROVE  (j < s => Finds(l2, j, v)) /\ (s <= j => Finds(r2, j, v))
  <2>1. CASE \E i \in 1 .. n : l.keys[i] = j /\ l.values[i] = v
    <3>1. PICK i \in 1 .. n : l.keys[i] = j /\ l.values[i] = v
      BY <2>1
    <3>2. CASE i = n
      <4>1. j = s /\ r2.keys[1] = j /\ r2.values[1] = v /\ 1 \in 1 .. m + 1
        BY <1>1, <3>1, <3>2
      <4>2. ~(j < s)
        BY <1>4, <4>1
      <4> QED BY <1>1, <4>1, <4>2 DEF Finds
    <3>3. CASE i # n
      <4>1. i \in 1 .. n - 1
        BY <1>1, <3>3
      <4>2. l2.keys[i] = j /\ l2.values[i] = v /\ j < s
        BY <1>1, <1>5, <3>1, <4>1
      <4>3. Finds(l2, j, v)
        BY <1>1, <4>1, <4>2 DEF Finds
      <4>4. ~(s <= j)
        <5>1. j \in Nat /\ s \in Nat /\ j < s
          BY <1>4, <1>11, <4>2
        <5> QED BY <5>1
      <4> QED BY <4>3, <4>4
    <3> QED BY <3>2, <3>3
  <2>2. CASE v = None /\ \A i \in 1 .. n : l.keys[i] # j
    <3>1. Finds(l2, j, v)
      BY <1>1, <1>4, <2>2 DEF Finds
    <3>2. \A i \in 1 .. m + 1 : r2.keys[i] # j
      <4>1. s # j /\ j \notin Y
        BY <1>1, <1>4, <1>11, <2>2
      <4> QED BY <1>6, <4>1
    <3> QED BY <1>1, <2>2, <3>1, <3>2 DEF Finds
  <2> QED BY <1>3, <1>11, <2>1, <2>2
<1>12. ASSUME NEW j, NEW v, j \in Y, Finds(r, j, v)
       PROVE  (j < s => Finds(l2, j, v)) /\ (s <= j => Finds(r2, j, v))
  <2>1. s < j /\ ~(j < s) /\ s # j
    <3>1. s < j /\ j \in Nat
      BY <1>4, <1>12
    <3> QED BY <1>4, <3>1
  <2>2. CASE \E i \in 1 .. m : r.keys[i] = j /\ r.values[i] = v
    <3>1. PICK i \in 1 .. m : r.keys[i] = j /\ r.values[i] = v
      BY <2>2
    <3>2. r2.keys[i + 1] = j /\ r2.values[i + 1] = v /\ i + 1 \in 1 .. m + 1
      BY <1>1, <3>1
    <3> QED BY <1>1, <2>1, <3>2 DEF Finds
  <2>3. CASE v = None /\ \A i \in 1 .. m : r.keys[i] # j
    <3>1. \A i \in 1 .. m + 1 : r2.keys[i] # j
      BY <1>6, <2>1, <2>3
    <3> QED BY <1>1, <2>1, <2>3, <3>1 DEF Finds
  <2> QED BY <1>3, <1>12, <2>2, <2>3
<1> QED BY <1>1, <1>4, <1>5, <1>7, <1>8, <1>9, <1>10, <1>11, <1>12 DEF ShiftsTo

LEMMA LeftwardsShifts ==
  ASSUME NEW l, NEW r, NEW l2, NEW r2, Leftwards(l, r, l2, r2),
         Increasing(l.keys), Increasing(r.keys),
         NEW X \in SUBSET Nat, NEW Y \in SUBSET Nat, \A x \in X, y \in Y : x < y,
         \A i \in 1 .. Len(l.keys) : l.keys[i] \in X,
         \A i \in 1 .. Len(r.keys) : r.keys[i] \in Y,
         NEW s, s = r2.keys[1]
  PROVE  ShiftsTo(l, r, l2, r2, s, X, Y)
<1> DEFINE n == Len(l.keys)
           m == Len(r.keys)
           f == r.keys[1]
<1>1. /\ n \in Nat /\ m \in Nat /\ m >= 2
      /\ Len(l2.keys) = n + 1 /\ Len(r2.keys) = m - 1
      /\ \A i \in 1 .. n : l2.keys[i] = l.keys[i] /\ l2.values[i] = l.values[i]
      /\ \A i \in 1 .. m - 1 : r2.keys[i] = r.keys[i + 1] /\ r2.values[i] = r.values[i + 1]
      /\ l2.keys[n + 1] = f /\ l2.values[n + 1] = r.values[1]
  BY DEF Leftwards
<1>2. /\ \A i \in 1 .. n : l.keys[i] \in X /\ l.keys[i] \in Nat
      /\ \A i \in 1 .. m : r.keys[i] \in Y /\ r.keys[i] \in Nat
      /\ \A i, j \in 1 .. n : i < j => l.keys[i] < l.keys[j]
      /\ \A i, j \in 1 .. m : i < j => r.keys[i] < r.keys[j]
  BY DEF Increasing
<1>3. \A j, v : /\ Finds(l, j, v) <=> \/ \E i \in 1 .. n : l.keys[i] = j /\ l.values[i] = v
                                      \/ v = None /\ \A i \in 1 .. n : l.keys[i] # j
                /\ Finds(r, j, v) <=> \/ \E i \in 1 .. m : r.keys[i] = j /\ r.values[i] = v
                                      \/ v = None /\ \A i \in 1 .. m : r.keys[i] # j
  BY DEF Finds
<1>4. /\ 1 \in 1 .. m /\ 2 \in 1 .. m /\ 1 \in 1 .. m - 1 /\ f = r.keys[1]
      /\ \A i \in 1 .. m - 1 : i + 1 \in 1 .. m /\ 1 < i + 1
      /\ \A i \in 1 .. n + 1 : i \in 1 .. n \/ i = n + 1
  <2> HIDE DEF n, m
  <2> QED BY <1>1
<1> HIDE DEF n, m, f
<1>5. /\ s = r.keys[2] /\ s \in Y /\ s \in Nat /\ f \in Y /\ f \in Nat /\ f < s
  BY <1>1, <1>2, <1>4
<1>6. \A i \in 1 .. n + 1 : \/ i \in 1 .. n /\ l2.keys[i] = l.keys[i] /\ l2.keys[i] \in X
                            \/ i = n + 1 /\ l2.keys[i] = f
  BY <1>1, <1>2, <1>4
<1>7. \A i \in 1 .. n + 1 : l2.keys[i] \in X \cup Y /\ l2.keys[i] < s
  BY <1>5, <1>6
<1>8. \A i \in 1 .. m - 1 : r2.keys[i] \in X \cup Y /\ s <= r2.keys[i]
  <2> SUFFICES ASSUME NEW i \in 1 .. m - 1
               PROVE  r2.keys[i] \in X \cup Y /\ s <= r2.keys[i]
    OBVIOUS
  <2>1. r2.keys[i] = r.keys[i + 1] /\ i + 1 \in 1 .. m
    BY <1>1, <1>4
  <2>2. i = 1 \/ 2 < i + 1
    BY <1>1
  <2>3. s <= r.keys[i + 1]
    BY <1>2, <1>4, <1>5, <2>1, <2>2
  <2> QED BY <1>2, <2>1, <2>3
<1>9. Increasing(l2.keys)
  <2> SUFFICES ASSUME NEW i \in 1 .. n + 1, NEW j \in 1 .. n + 1, i < j
               PROVE  l2.keys[i] < l2.keys[j]
    BY <1>1 DEF Increasing
  <2>1. i \in 1 .. n /\ l2.keys[i] = l.keys[i] /\ l2.keys[i] \in X
    <3>1. i # n + 1
      BY <1>1
    <3> QED BY <1>6, <3>1
  <2> QED BY <1>2, <1>5, <1>6, <2>1
<1>10. Increasing(r2.keys)
  <2> SUFFICES ASSUME NEW i \in 1 .. m - 1, NEW j \in 1 .. m - 1, i < j
               PROVE  r2.keys[i] < r2.keys[j]
    BY <1>1 DEF Increasing
  <2>1. i + 1 \in 1 .. m /\ j + 1 \in 1 .. m /\ i + 1 < j + 1
    BY <1>1
  <2> QED BY <1>1, <1>2, <2>1
<1>11. ASSUME NEW j, NEW v, j \in X, Finds(l, j, v)
       PROVE  (j < s => Finds(l2, j, v)) /\ (s <= j => Finds(r2, j, v))
  <2>1. j < s /\ ~(s <= j) /\ j # f
    BY <1>5, <1>11
  <2>2. CASE \E i \in 1 .. n : l.keys[i] = j /\ l.values[i] = v
    <3>1. PICK i \in 1 .. n : l.keys[i] = j /\ l.values[i] = v
      BY <2>2
    <3>2. l2.keys[i] = j /\ l2.values[i] = v /\ i \in 1 .. n + 1
      BY <1>1, <3>1
    <3> QED BY <1>1, <2>1, <3>2 DEF Finds
  <2>3. CASE v = None /\ \A i \in 1 .. n : l.keys[i] # j
    <3>1. \A i \in 1 .. n + 1 : l2.keys[i] # j
      BY <1>6, <2>1, <2>3
    <3> QED BY <1>1, <2>1, <2>3, <3>1 DEF Finds
  <2> QED BY <1>3, <1>11, <2>2, <2>3
<1>12. ASSUME NEW j, NEW v, j \in Y, Finds(r, j, v)
       PROVE  (j < s => Finds(l2, j, v)) /\ (s <= j => Finds(r2, j, v))
  <2>1. CASE \E i \in 1 .. m : r.keys[i] = j /\ r.values[i] = v
    <3>1. PICK i \in 1 .. m : r.keys[i] = j /\ r.values[i] = v
      BY <2>1
    <3>2. CASE i = 1
      <4>1. j = f /\ l2.keys[n + 1] = j /\ l2.values[n + 1] = v /\ n + 1 \in 1 .. n + 1
        BY <1>1, <1>4, <3>1, <3>2
      <4>2. ~(s <= j)
        BY <1>5, <4>1
      <4> QED BY <1>1, <4>1, <4>2 DEF Finds
    <3>3. CASE i # 1
      <4> DEFINE a == i - 1
      <4>1. a \in 1 .. m - 1 /\ a + 1 = i
        BY <1>1, <3>3
      <4> HIDE DEF a
      <4>2. r2.keys[a] = j /\ r2.values[a] = v
        BY <1>1, <3>1, <4>1
      <4>3. s <= j /\ ~(j < s)
        BY <1>2, <1>5, <1>8, <3>1, <4>1, <4>2
      <4> QED BY <1>1, <4>1, <4>2, <4>3 DEF Finds
    <3> QED BY <3>2, <3>3
  <2>2. CASE v = None /\ \A i \in 1 .. m : r.keys[i] # j
    <3>1. Finds(r2, j, v)
      BY <1>1, <1>4, <2>2 DEF Finds
    <3>2. \A i \in 1 .. n + 1 : l2.keys[i] # j
      <4>1. f # j /\ j \notin X
        BY <1>4, <1>12, <2>2
      <4> QED BY <1>6, <4>1
    <3> QED BY <1>1, <2>2, <3>1, <3>2 DEF Finds
  <2> QED BY <1>3, <1>12, <2>1, <2>2
<1> QED BY <1>1, <1>5, <1>7, <1>8, <1>9, <1>10, <1>11, <1>12 DEF ShiftsTo

\* Node is old with s for its i-th separator.
Reseparated(node, old, i, s) ==
  /\ Rekeyed(node, old)
  /\ node.keys[i] = s
  /\ \A j \in 1 .. Len(old.keys) : j # i => node.keys[j] = old.keys[j]

\* The keys of two neighbours that p sends down, and the order between them.
LEMMA Neighbours ==
  ASSUME NEW keys \in Seq(Nat), Increasing(keys), NEW i \in 1 .. Len(keys),
         NEW X \in SUBSET Nat
  PROVE  /\ \A x \in Slot(keys, i, X), y \in Slot(keys, i + 1, X) : x < y
         /\ \A x : x \in Slot(keys, i, X) \cup Slot(keys, i + 1, X)
                     <=> /\ x \in X
                         /\ i > 1 => keys[i - 1] <= x
                         /\ i < Len(keys) => x < keys[i + 1]
<1> DEFINE n == Len(keys)
<1>1. /\ n \in Nat /\ i \in 1 .. n /\ \A j \in 1 .. n : keys[j] \in Nat
      /\ i <= n /\ i + 1 > 1 /\ (i + 1) - 1 = i
      /\ (i + 1 <= n <=> i < n)
  OBVIOUS
<1>2. /\ i > 1 => i - 1 \in 1 .. n /\ keys[i - 1] < keys[i]
      /\ i < n => i + 1 \in 1 .. n /\ keys[i] < keys[i + 1]
  BY <1>1 DEF Increasing
<1> HIDE DEF n
<1>3. \A x : x \in Slot(keys, i, X) <=> /\ x \in X
                                        /\ x < keys[i]
                                        /\ i > 1 => keys[i - 1] <= x
  BY <1>1 DEF Slot, n
<1>4. \A x : x \in Slot(keys, i + 1, X) <=> /\ x \in X
                                            /\ i < n => x < keys[i + 1]
                                            /\ keys[i] <= x
  BY <1>1 DEF Slot, n
<1>5. \A x \in Slot(keys, i, X), y \in Slot(keys, i + 1, X) : x < y
  <2> SUFFICES ASSUME NEW x \in Slot(keys, i, X), NEW y \in Slot(keys, i + 1, X) PROVE x < y
    OBVIOUS
  <2>1. x \in Nat /\ y \in Nat /\ x < keys[i] /\ keys[i] <= y
    BY <1>3, <1>4
  <2> QED BY <1>1, <2>1
<1>6. ASSUME NEW x \in X
      PROVE  x \in Slot(keys, i, X) \cup Slot(keys, i + 1, X)
               <=> /\ i > 1 => keys[i - 1] <= x
                   /\ i < n => x < keys[i + 1]
  <2>1. x \in Nat /\ keys[i] \in Nat
    BY <1>1
  <2>2. i > 1 => keys[i - 1] \in Nat
    BY <1>1, <1>2
  <2>3. i < n => keys[i + 1] \in Nat
    BY <1>1, <1>2
  <2>4. x < keys[i] /\ i < n => x < keys[i + 1]
    BY <1>2, <2>1, <2>3
  <2>5. keys[i] <= x /\ i > 1 => keys[i - 1] <= x
    BY <1>2, <2>1, <2>2
  <2>6. x < keys[i] \/ keys[i] <= x
    BY <2>1
  <2> QED BY <1>3, <1>4, <2>4, <2>5, <2>6
<1> QED BY <1>3, <1>4, <1>5, <1>6 DEF n

\* The new separator s moves keys between two slots, and leaves the others.
SlotsMoved(keys2, keys, i, s, X) ==
  LET U == Slot(keys, i, X) \cup Slot(keys, i + 1, X)
  IN  /\ Increasing(keys2)
      /\ Slot(keys2, i, X) = {x \in U : x < s}
      /\ Slot(keys2, i + 1, X) = {x \in U : s <= x}
      /\ \A j \in 1 .. Len(keys) + 1 : j # i /\ j # i + 1 => Slot(keys2, j, X) = Slot(keys, j, X)

LEMMA SlotsShifted ==
  ASSUME NEW keys \in Seq(Nat), Increasing(keys), NEW i \in 1 .. Len(keys),
         NEW X \in SUBSET Nat, NEW s,
         s \in Slot(keys, i, X) \cup Slot(keys, i + 1, X),
         \E y \in Slot(keys, i, X) \cup Slot(keys, i + 1, X) : y < s,
         NEW keys2, Len(keys2) = Len(keys), keys2[i] = s,
         \A j \in 1 .. Len(keys) : j # i => keys2[j] = keys[j]
  PROVE  SlotsMoved(keys2, keys, i, s, X)
<1> DEFINE n == Len(keys)
           U == Slot(keys, i, X) \cup Slot(keys, i + 1, X)
<1>1. /\ n \in Nat /\ i \in 1 .. n /\ \A j \in 1 .. n : keys[j] \in Nat
      /\ i <= n /\ i + 1 > 1 /\ (i + 1) - 1 = i
      /\ (i + 1 <= n <=> i < n)
      /\ Len(keys2) = n
      /\ \A j \in 1 .. n : j # i => keys2[j] = keys[j]
  OBVIOUS
<1>2. /\ i > 1 => i - 1 \in 1 .. n /\ i - 1 # i
      /\ i < n => i + 1 \in 1 .. n /\ i + 1 # i
      /\ \A a, c \in 1 .. n : a < c => keys[a] < keys[c]
  BY <1>1 DEF Increasing
<1> HIDE DEF n
<1>3. \A x : x \in U <=> /\ x \in X
                         /\ i > 1 => keys[i - 1] <= x
                         /\ i < n => x < keys[i + 1]
  BY Neighbours DEF n
<1>4. PICK y \in U : y < s
  OBVIOUS
<1> HIDE DEF U
<1>5. /\ s \in U /\ s \in Nat /\ y \in Nat
      /\ i > 1 => keys[i - 1] < s
      /\ i < n => s < keys[i + 1]
  <2>1. s \in U /\ s \in Nat /\ y \in Nat
    BY <1>3, <1>4 DEF U
  <2>2. i > 1 => keys[i - 1] <= y /\ keys[i - 1] \in Nat
    BY <1>1, <1>2, <1>3
  <2> QED BY <1>3, <1>4, <2>1, <2>2
<1>6. Increasing(keys2)
  <2> SUFFICES ASSUME NEW a \in 1 .. n, NEW c \in 1 .. n, a < c
               PROVE  keys2[a] < keys2[c]
    BY <1>1 DEF Increasing
  <2>1. CASE a = i
    <3>1. i < n /\ i + 1 \in 1 .. n /\ c # i /\ (c = i + 1 \/ i + 1 < c)
      BY <1>1, <2>1
    <3>2. keys2[c] = keys[c] /\ keys[c] \in Nat /\ keys[i + 1] \in Nat
      BY <1>1, <3>1
    <3>3. keys[i + 1] <= keys[c]
      BY <1>2, <3>1, <3>2
    <3> QED BY <1>5, <2>1, <3>1, <3>2, <3>3
  <2>2. CASE c = i
    <3>1. i > 1 /\ i - 1 \in 1 .. n /\ a # i /\ (a = i - 1 \/ a < i - 1)
      BY <1>1, <2>2
    <3>2. keys2[a] = keys[a] /\ keys[a] \in Nat /\ keys[i - 1] \in Nat
      BY <1>1, <3>1
    <3>3. keys[a] <= keys[i - 1]
      BY <1>2, <3>1, <3>2
    <3> QED BY <1>5, <2>2, <3>1, <3>2, <3>3
  <2>3. CASE a # i /\ c # i
    BY <1>1, <1>2, <2>3
  <2> QED BY <2>1, <2>2, <2>3
<1>7. \A x : x \in Slot(keys2, i, X) <=> x \in U /\ x < s
  <2>1. \A x : x \in Slot(keys2, i, X) <=> /\ x \in X
                                           /\ x < s
                                           /\ i > 1 => keys[i - 1] <= x
    BY <1>1, <1>2 DEF Slot
  <2>2. \A x \in X : x < s /\ i < n => x < keys[i + 1]
    <3> SUFFICES ASSUME NEW x \in X, x < s, i < n PROVE x < keys[i + 1]
      OBVIOUS
    <3>1. x \in Nat /\ s \in Nat /\ keys[i + 1] \in Nat /\ s < keys[i + 1]
      BY <1>1, <1>2, <1>5
    <3> QED BY <3>1
  <2> QED BY <1>3, <2>1, <2>2
<1>8. \A x : x \in Slot(keys2, i + 1, X) <=> x \in U /\ s <= x
  <2>1. \A x : x \in Slot(keys2, i + 1, X) <=> /\ x \in X
                                               /\ s <= x
                                               /\ i < n => x < keys[i + 1]
    BY <1>1, <1>2 DEF Slot
  <2>2. \A x \in X : s <= x /\ i > 1 => keys[i - 1] <= x
    <3> SUFFICES ASSUME NEW x \in X, s <= x, i > 1 PROVE keys[i - 1] <= x
      OBVIOUS
    <3>1. x \in Nat /\ s \in Nat /\ keys[i - 1] \in Nat /\ keys[i - 1] < s
      BY <1>1, <1>2, <1>5
    <3> QED BY <3>1
  <2> QED BY <1>3, <2>1, <2>2
<1>9. ASSUME NEW j \in 1 .. n + 1, j # i, j # i + 1
      PROVE  Slot(keys2, j, X) = Slot(keys, j, X)
  <2>1. j <= n => keys2[j] = keys[j]
    BY <1>1, <1>9
  <2>2. j > 1 => keys2[j - 1] = keys[j - 1]
    <3> SUFFICES ASSUME j > 1 PROVE keys2[j - 1] = keys[j - 1]
      OBVIOUS
    <3>1. j - 1 \in 1 .. n /\ j - 1 # i
      BY <1>1, <1>9
    <3> QED BY <1>1, <3>1
  <2> QED BY <1>1, <2>1, <2>2 DEF Slot, n
<1>10. Slot(keys2, i, X) = {x \in U : x < s}
  BY <1>7
<1>11. Slot(keys2, i + 1, X) = {x \in U : s <= x}
  BY <1>8
<1> QED BY <1>6, <1>9, <1>10, <1>11 DEF n, U, SlotsMoved

\* The pages own their keys anew, and what was told of a key still is.
Rerouted(pg2, nx, rt, L, pg, E) ==
  \E D : Routes(pg2, nx, rt, L, D, D) /\ Carries(pg2, rt, D, pg, rt, E, None)

\* Two leaves side by side below p share their entries out anew.
Shared(pg2, pg, p, i, l, r, parent, pl, pr, s) ==
  /\ l = pg[p].children[i] /\ r = pg[p].children[i + 1] /\ l # r
  /\ pg[l].node_type = "Leaf" /\ pg[r].node_type = "Leaf"
  /\ pl.node_type = "Leaf" /\ pr.node_type = "Leaf"
  /\ Reseparated(parent, pg[p], i, s)
  /\ pg2[p] = parent /\ pg2[l] = pl /\ pg2[r] = pr
  /\ \A q \in PageIds : q \notin {p, l, r} => Akin(pg2[q], pg[q])

LEMMA SharedNone ==
  ASSUME NEW pg, NEW nx, NEW rt, NEW L, Tree(pg, nx, rt, L), rt # None,
         NEW E, Routes(pg, nx, rt, L, E, E),
         NEW p \in PageIds, pg[p].node_type # "Leaf", NEW i \in 1 .. Len(pg[p].keys),
         NEW l, NEW r, NEW parent, NEW pl, NEW pr, NEW s, NEW pg2,
         Shared(pg2, pg, p, i, l, r, parent, pl, pr, s), E[p] = {}
  PROVE  Rerouted(pg2, nx, rt, L, pg, E)
<1>1. /\ l \in PageIds /\ r \in PageIds /\ l # p /\ r # p /\ E[l] = {} /\ E[r] = {}
  <2>1. i \in 1 .. Len(pg[p].children) /\ i + 1 \in 1 .. Len(pg[p].children)
    <3>1. Len(pg[p].children) = Len(pg[p].keys) + 1 /\ Len(pg[p].keys) \in Nat
      BY InternalFacts DEF Wide, Nodes
    <3> QED BY <3>1
  <2>2. l \in PageIds /\ r \in PageIds
    BY <2>1, ChildAt DEF Shared
  <2>3. RouteAt(pg, E, E, p)
    BY DEF Routes
  <2>4. E[l] = Slot(pg[p].keys, i, {}) /\ E[r] = Slot(pg[p].keys, i + 1, {})
    BY <2>1, <2>3 DEF Shared, RouteAt
  <2> QED BY <2>2, <2>4 DEF Slot, Shared
<1>2. ASSUME NEW q \in PageIds PROVE RouteAt(pg2, E, E, q)
  <2>1. RouteAt(pg, E, E, q)
    BY DEF Routes
  <2>2. CASE q = l \/ q = r
    <3>1. E[q] = {} /\ pg2[q].node_type = "Leaf"
      BY <1>1, <2>2 DEF Shared
    <3> QED BY <3>1 DEF RouteAt
  <2>3. CASE q = p
    <3>1. pg2[p].children = pg[p].children /\ Len(pg2[p].children) = Len(pg[p].children)
      BY DEF Shared, Reseparated, Rekeyed
    <3>2. \A j \in 1 .. Len(pg2[p].children) :
            E[pg2[p].children[j]] = Slot(pg2[p].keys, j, E[p])
      <4>1. \A j \in 1 .. Len(pg[p].children) :
              E[pg[p].children[j]] = Slot(pg[p].keys, j, E[p])
        BY <2>1, <2>3 DEF RouteAt
      <4> QED BY <3>1, <4>1 DEF Slot
    <3> QED BY <2>3, <3>2 DEF RouteAt
  <2>4. CASE q \notin {p, l, r}
    <3>1. Akin(pg2[q], pg[q])
      BY <2>4 DEF Shared
    <3> QED BY ONLY <2>1, <3>1 DEF RouteAt, Akin
  <2> QED BY <2>2, <2>3, <2>4
<1>3. Routes(pg2, nx, rt, L, E, E)
  BY <1>2 DEF Routes
<1>4. Carries(pg2, rt, E, pg, rt, E, None)
  <2> SUFFICES ASSUME NEW j, NEW v, Tells(pg, rt, E, j, v), NEW q \in PageIds,
                      pg2[q].node_type = "Leaf", j \in E[q]
               PROVE  Finds(pg2[q], j, v)
    BY DEF Carries, Tells
  <2>1. q \notin {p, l, r}
    BY <1>1
  <2>2. Akin(pg2[q], pg[q])
    BY <2>1 DEF Shared
  <2>3. Finds(pg[q], j, v)
    BY <2>2 DEF Tells, Akin
  <2> QED BY <2>2, <2>3 DEF Finds, Akin
<1> QED BY <1>3, <1>4 DEF Rerouted

LEMMA SharedRouted ==
  ASSUME NEW pg, NEW nx, NEW rt, NEW L, Tree(pg, nx, rt, L), rt # None,
         NEW E, Routes(pg, nx, rt, L, E, E),
         NEW p \in PageIds, pg[p].node_type # "Leaf", NEW i \in 1 .. Len(pg[p].keys),
         NEW l, NEW r, NEW parent, NEW pl, NEW pr, NEW s, NEW pg2,
         Shared(pg2, pg, p, i, l, r, parent, pl, pr, s), E[p] # {},
         ShiftsTo(pg[l], pg[r], pl, pr, s, E[l], E[r])
  PROVE  Rerouted(pg2, nx, rt, L, pg, E)
<1> DEFINE keys == pg[p].keys
           keys2 == parent.keys
           C(j) == pg[p].children[j]
           n == Len(keys)
           X == E[l]
           Y == E[r]
           U == X \cup Y
<1>1. /\ keys \in Seq(Nat) /\ n \in Nat /\ Len(pg[p].children) = n + 1
      /\ i \in 1 .. n + 1 /\ i + 1 \in 1 .. n + 1 /\ i # i + 1
      /\ l = C(i) /\ r = C(i + 1) /\ l # r
  <2>1. Len(pg[p].children) = n + 1 /\ n \in Nat /\ keys \in Seq(Nat)
    BY InternalFacts DEF Wide, Nodes
  <2> QED BY <2>1 DEF Shared
<1>2. \A j \in 1 .. n + 1 : /\ C(j) \in PageIds /\ C(j) < nx /\ C(j) # rt /\ L[C(j)] = L[p] - 1
                            /\ L[p] \in Nat
  BY <1>1, ChildAt, SMTT(20)
<1>3. /\ E \in Ranges /\ Disjoint(L, E) /\ E[rt] = Nat
      /\ \A q \in PageIds : q >= nx => E[q] = {}
      /\ \A q \in PageIds : RouteAt(pg, E, E, q)
      /\ rt \in PageIds /\ PageIds \subseteq Nat /\ nx \in Nat /\ L \in [PageIds -> Nat]
  BY PageFacts DEF Routes, Tree, PageOrNone
<1>4. /\ l \in PageIds /\ r \in PageIds /\ l # p /\ r # p /\ l < nx /\ r < nx
      /\ l # rt /\ r # rt /\ L[l] = L[r] /\ L[l] = L[p] - 1
      /\ X \subseteq Nat /\ Y \subseteq Nat /\ E[p] \subseteq Nat
  BY <1>1, <1>2, <1>3 DEF Ranges, Shared
<1>5. /\ Increasing(keys) /\ \A j \in 1 .. n : keys[j] \in E[p]
      /\ \A j \in 1 .. n + 1 : E[C(j)] = Slot(keys, j, E[p]) /\ E[C(j)] # {}
  <2>1. RouteAt(pg, E, E, p) /\ E[p] # {} /\ pg[p].node_type # "Leaf"
    BY <1>3
  <2> QED BY ONLY <1>1, <2>1 DEF RouteAt
<1>6. /\ X = Slot(keys, i, E[p]) /\ Y = Slot(keys, i + 1, E[p]) /\ X # {} /\ Y # {}
      /\ U \subseteq E[p]
  <2>1. X = Slot(keys, i, E[p]) /\ Y = Slot(keys, i + 1, E[p]) /\ X # {} /\ Y # {}
    BY <1>1, <1>5
  <2> QED BY <2>1 DEF Slot
<1>7. /\ Increasing(pl.keys) /\ Increasing(pr.keys)
      /\ s \in U /\ \E y \in U : y < s
      /\ \A j \in 1 .. Len(pl.keys) : pl.keys[j] \in U /\ pl.keys[j] < s
      /\ \A j \in 1 .. Len(pr.keys) : pr.keys[j] \in U /\ s <= pr.keys[j]
      /\ \A j, v : (j \in X /\ Finds(pg[l], j, v)) \/ (j \in Y /\ Finds(pg[r], j, v))
                     => (j < s => Finds(pl, j, v)) /\ (s <= j => Finds(pr, j, v))
  BY DEF ShiftsTo
<1>8. /\ Len(keys2) = n /\ keys2[i] = s
      /\ \A j \in 1 .. n : j # i => keys2[j] = keys[j]
      /\ parent.children = pg[p].children /\ parent.node_type # "Leaf"
  BY DEF Shared, Reseparated, Rekeyed
<1> HIDE DEF keys, keys2, C, n, X, Y, U
<1> DEFINE D == [E EXCEPT ![l] = {x \in U : x < s}, ![r] = {x \in U : s <= x}]
<1>9. /\ D \in Ranges /\ D[l] = {x \in U : x < s} /\ D[r] = {x \in U : s <= x}
      /\ \A q \in PageIds : q # l /\ q # r => D[q] = E[q]
  <2>1. U \subseteq Nat
    BY <1>4 DEF U
  <2> QED BY <1>1, <1>3, <1>4, <2>1 DEF Ranges
<1> HIDE DEF D
<1>10. D[l] # {} /\ D[r] # {} /\ s \in Nat
  <2>1. s \in Nat
    BY <1>4, <1>7 DEF U
  <2>2. s \in D[r]
    BY <1>7, <1>9, <2>1
  <2> QED BY <1>7, <1>9, <2>1, <2>2
<1>11. Disjoint(L, D)
  <2> SUFFICES ASSUME NEW a \in PageIds, NEW c \in PageIds, L[a] = L[c], a # c,
                      NEW x \in D[a], x \in D[c]
               PROVE  FALSE
    BY DEF Disjoint
  <2>1. ASSUME NEW q \in PageIds, q # l, q # r, L[q] = L[l], x \in D[q] PROVE x \notin U
    <3>1. x \in E[q] /\ L[q] = L[r]
      BY <1>4, <1>9, <2>1
    <3> QED BY <1>3, <1>4, <2>1, <3>1 DEF Disjoint, U, X, Y
  <2>2. x \in D[l] \/ x \in D[r] => x \in U
    BY <1>9
  <2>3. ~(x \in D[l] /\ x \in D[r])
    <3> SUFFICES ASSUME x \in D[l], x \in D[r] PROVE FALSE
      OBVIOUS
    <3>1. x \in Nat /\ x < s /\ s <= x
      BY <1>4, <1>9 DEF U
    <3> QED BY <1>10, <3>1
  <2>4. CASE a \in {l, r}
    <3>1. L[c] = L[l] /\ x \in U
      BY <1>4, <2>2, <2>4
    <3>2. c \in {l, r}
      BY <2>1, <3>1
    <3> QED BY <2>3, <2>4, <3>2
  <2>5. CASE c \in {l, r}
    <3>1. L[a] = L[l] /\ x \in U
      BY <1>4, <2>2, <2>5
    <3>2. a \in {l, r}
      BY <2>1, <3>1
    <3> QED BY <2>3, <2>5, <3>2
  <2>6. CASE a \notin {l, r} /\ c \notin {l, r}
    BY <1>3, <1>9, <2>6 DEF Disjoint
  <2> QED BY <2>4, <2>5, <2>6
<1>12. \A q \in PageIds : q >= nx => D[q] = {}
  <2> SUFFICES ASSUME NEW q \in PageIds, q >= nx PROVE D[q] = {}
    OBVIOUS
  <2>1. q # l /\ q # r
    BY <1>3, <1>4
  <2> QED BY <1>3, <1>9, <2>1
<1>13. D[rt] = Nat
  BY <1>3, <1>4, <1>9
<1>14. /\ Increasing(keys2)
       /\ Slot(keys2, i, E[p]) = {x \in U : x < s}
       /\ Slot(keys2, i + 1, E[p]) = {x \in U : s <= x}
       /\ \A j \in 1 .. n + 1 : j # i /\ j # i + 1 => Slot(keys2, j, E[p]) = Slot(keys, j, E[p])
  <2> DEFINE V == E[p]
  <2>1. /\ keys \in Seq(Nat) /\ i \in 1 .. Len(keys) /\ V \in SUBSET Nat /\ Increasing(keys)
        /\ Len(keys2) = Len(keys) /\ keys2[i] = s
        /\ \A j \in 1 .. Len(keys) : j # i => keys2[j] = keys[j]
    BY <1>1, <1>4, <1>5, <1>8 DEF n, keys
  <2>2. U = Slot(keys, i, V) \cup Slot(keys, i + 1, V)
    BY <1>6 DEF U
  <2>3. s \in Slot(keys, i, V) \cup Slot(keys, i + 1, V)
        /\ \E y \in Slot(keys, i, V) \cup Slot(keys, i + 1, V) : y < s
    BY <1>7, <2>2
  <2> HIDE DEF V
  <2>4. SlotsMoved(keys2, keys, i, s, V)
    BY <2>1, <2>3, SlotsShifted
  <2> QED BY <2>2, <2>4 DEF V, n, SlotsMoved
<1>15. ASSUME NEW q \in PageIds PROVE RouteAt(pg2, D, D, q)
  <2>1. CASE q = l
    <3>1. pg2[q] = pl /\ pl.node_type = "Leaf"
      BY <2>1 DEF Shared
    <3> QED BY <1>7, <1>9, <2>1, <3>1 DEF RouteAt
  <2>2. CASE q = r
    <3>1. pg2[q] = pr /\ pr.node_type = "Leaf"
      BY <2>2 DEF Shared
    <3> QED BY <1>7, <1>9, <2>2, <3>1 DEF RouteAt
  <2>3. CASE q = p
    <3>1. pg2[q] = parent /\ D[q] = E[p]
      BY <1>4, <1>9, <2>3 DEF Shared
    <3>2. ASSUME NEW j \in 1 .. n PROVE keys2[j] \in E[p]
      BY <1>5, <1>6, <1>7, <1>8
    <3>3. ASSUME NEW j \in 1 .. n + 1
          PROVE  D[C(j)] = Slot(keys2, j, E[p]) /\ D[C(j)] # {}
      <4>1. CASE j = i
        BY <1>1, <1>9, <1>10, <1>14, <4>1
      <4>2. CASE j = i + 1
        BY <1>1, <1>9, <1>10, <1>14, <4>2
      <4>3. CASE j # i /\ j # i + 1
        <5>1. PICK x : x \in E[C(j)]
          BY <1>5
        <5>2. x \in Slot(keys, j, E[p]) /\ x \in Nat
          BY <1>4, <1>5, <5>1 DEF Slot
        <5>3. \A a \in 1 .. n + 1 : x \in Slot(keys, a, E[p]) => a = j
          BY <1>1, <1>5, <5>2, SlotFacts DEF n
        <5>4. C(j) # l /\ C(j) # r
          BY <1>1, <1>6, <4>3, <5>1, <5>3 DEF X, Y
        <5>5. D[C(j)] = E[C(j)]
          BY <1>2, <1>9, <5>4
        <5> QED BY <1>5, <1>14, <4>3, <5>5
      <4> QED BY <4>1, <4>2, <4>3
    <3>4. \A j \in 1 .. Len(parent.children) :
            D[parent.children[j]] = Slot(keys2, j, E[p]) /\ D[parent.children[j]] # {}
      BY <1>1, <1>8, <3>3 DEF C
    <3> QED BY <1>8, <1>14, <3>1, <3>2, <3>4 DEF RouteAt, keys2
  <2>4. CASE q \notin {p, l, r}
    <3>1. RouteAt(pg, E, E, q) /\ Akin(pg2[q], pg[q]) /\ D[q] = E[q]
      BY <1>3, <1>9, <2>4 DEF Shared
    <3>2. ASSUME pg[q].node_type # "Leaf", NEW j \in 1 .. Len(pg[q].children)
          PROVE  D[pg[q].children[j]] = E[pg[q].children[j]]
      <4> DEFINE c == pg[q].children[j]
      <4>1. c \in PageIds /\ L[c] = L[q] - 1 /\ L[q] \in Nat /\ L[c] \in Nat
        BY <3>2, ChildAt
      <4>2. E[c] = Slot(pg[q].keys, j, E[q])
        BY <3>1, <3>2 DEF RouteAt
      <4> HIDE DEF c
      <4>3. E[c] \subseteq E[q]
        BY <4>2 DEF Slot
      <4>4. c \notin {l, r}
        <5> SUFFICES ASSUME c \in {l, r} PROVE FALSE
          OBVIOUS
        <5>1. E[c] # {} /\ E[c] \subseteq E[p]
          BY <1>6 DEF X, Y, U
        <5>2. L[q] = L[p]
          <6>1. L[c] = L[p] - 1 /\ L[p] \in Nat
            BY <1>3, <1>4
          <6> QED BY <4>1, <6>1
        <5> QED BY <1>3, <2>4, <4>3, <5>1, <5>2 DEF Disjoint
      <4> QED BY <1>9, <4>1, <4>4 DEF c
    <3>3. pg[q].node_type # "Leaf" =>
            \A j \in 1 .. Len(pg[q].children) : D[pg[q].children[j]] = E[pg[q].children[j]]
      BY <3>2
    <3> QED BY ONLY <3>1, <3>3 DEF RouteAt, Akin
  <2> QED BY <2>1, <2>2, <2>3, <2>4
<1>16. Routes(pg2, nx, rt, L, D, D)
  BY <1>9, <1>11, <1>12, <1>13, <1>15 DEF Routes
<1>17. Carries(pg2, rt, D, pg, rt, E, None)
  <2> SUFFICES ASSUME NEW j, NEW v, Tells(pg, rt, E, j, v), NEW q \in PageIds,
                      pg2[q].node_type = "Leaf", j \in D[q]
               PROVE  Finds(pg2[q], j, v)
    BY DEF Carries, Tells
  <2>0. j \in X => Finds(pg[l], j, v)
    BY <1>4 DEF X, Tells, Shared
  <2>1. j \in Y => Finds(pg[r], j, v)
    BY <1>4 DEF Y, Tells, Shared
  <2>2. CASE q = l
    <3>1. pg2[q] = pl /\ j < s /\ (j \in X \/ j \in Y)
      BY <1>9, <2>2 DEF Shared, U
    <3> QED BY <1>7, <2>0, <2>1, <3>1
  <2>3. CASE q = r
    <3>1. pg2[q] = pr /\ s <= j /\ (j \in X \/ j \in Y)
      BY <1>9, <2>3 DEF Shared, U
    <3> QED BY <1>7, <2>0, <2>1, <3>1
  <2>4. CASE q \notin {l, r}
    <3>1. q # p
      BY <1>8 DEF Shared
    <3>2. Akin(pg2[q], pg[q]) /\ j \in E[q]
      BY <1>9, <2>4, <3>1 DEF Shared
    <3>3. Finds(pg[q], j, v)
      BY <3>2 DEF Tells, Akin
    <3> QED BY <3>2, <3>3 DEF Finds, Akin
  <2> QED BY <2>2, <2>3, <2>4
<1> QED BY <1>16, <1>17 DEF Rerouted

\* A borrowing is not where a call fails.
LEMMA WriteThreeCuts ==
  ASSUME NEW s, NEW b, NEW p \in PageIds, NEW c \in PageIds, NEW x \in PageIds,
         Holds(s, b, p, c, x),
         NEW parent \in Nodes, Whole(parent), NEW child \in Nodes, Whole(child),
         NEW sibling \in Nodes, Whole(sibling),
         NEW t, t = WriteThree(s, p, parent, c, child, x, sibling)
  PROVE  t.cuts = s.cuts
<1>1. /\ deserialize(parent) \in Nodes /\ deserialize(child) \in Nodes
      /\ deserialize(sibling) \in Nodes
  BY ReadsBack
<1> DEFINE d == Done(s, p, parent)
           e == Done(d, c, child)
<1>2. t = Done(e, x, sibling)
  BY DEF WriteThree
<1>3. Holds(d, b, c, x, None) /\ d.cuts = s.cuts
  <2>1. Holds(s, b, c, p, x)
    BY HoldsAny
  <2>2. Holds(s, b, c, x, p)
    BY <2>1, HoldsAny
  <2>3. d = Done(s, p, parent)
    OBVIOUS
  <2> HIDE DEF d
  <2>4. Holds(d, b, c, x, None)
    BY <1>1, <2>2, <2>3, DoneHolds
  <2>5. d.cuts = s.cuts
    BY <1>1, <2>2, <2>3, DoneCuts
  <2> QED BY <2>4, <2>5
<1> HIDE DEF d
<1>4. Holds(e, b, x, None, None) /\ e.cuts = d.cuts
  <2>1. Holds(d, b, x, c, None)
    BY <1>3, HoldsAny
  <2>2. Holds(d, b, x, None, c)
    BY <2>1, HoldsAny
  <2>3. e = Done(d, c, child)
    OBVIOUS
  <2> HIDE DEF e
  <2>4. Holds(e, b, x, None, None)
    BY <1>1, <2>2, <2>3, DoneHolds
  <2>5. e.cuts = d.cuts
    BY <1>1, <2>2, <2>3, DoneCuts
  <2> QED BY <2>4, <2>5
<1> HIDE DEF e
<1>5. t.cuts = e.cuts
  <2>1. Holds(e, b, None, x, None)
    BY <1>4, HoldsAny
  <2>2. Holds(e, b, None, None, x)
    BY <2>1, HoldsAny
  <2> QED BY <1>1, <1>2, <2>2, DoneCuts
<1> QED BY <1>3, <1>4, <1>5

LEMMA CarriedTold ==
  ASSUME NEW t, NEW s, NEW M, NEW D, NEW k \in Nat, NEW v,
         TreeOf(t, M), t.next = s.next, t.root = s.root,
         Rerouted(t.pages, s.next, s.root, M, s.pages, D),
         AllTell(s.pages, s.root, D, k), Tells(s.pages, s.root, D, k, v),
         Safe(t, k)
  PROVE  Told(t, k, v)
<1>1. PICK E : /\ Routes(t.pages, t.next, t.root, M, E, E)
               /\ Carries(t.pages, t.root, E, s.pages, s.root, D, None)
  BY DEF Rerouted
<1>2. k # None /\ \A j \in Others(k) : j # None
  BY OthersKeys, TreeAssumption
<1>3. AllTell(t.pages, t.root, E, k) /\ Tells(t.pages, t.root, E, k, v)
  BY <1>1, <1>2 DEF AllTell, Carries
<1> QED BY <1>1, <1>3 DEF Told

\* The leaves l and r, children i and i + 1, of which c has lost a key or is
\* short of one, and x is the other.
Trades(l, r, l2, r2, c, child, x, sibling, cold, xold) ==
  \/ /\ l = x /\ r = c /\ l2 = sibling /\ r2 = child /\ Rightwards(xold, cold, sibling, child)
  \/ /\ l = c /\ r = x /\ l2 = child /\ r2 = sibling /\ Leftwards(cold, xold, child, sibling)

LEMMA TradedShifts ==
  ASSUME NEW pg, NEW nx, NEW rt, NEW L, Tree(pg, nx, rt, L),
         NEW E, Routes(pg, nx, rt, L, E, E),
         NEW p \in PageIds, pg[p].node_type # "Leaf", NEW i \in 1 .. Len(pg[p].keys),
         NEW l, l = pg[p].children[i], NEW r, r = pg[p].children[i + 1],
         NEW l2, NEW r2, NEW c, NEW child, NEW x, NEW sibling,
         Trades(l, r, l2, r2, c, child, x, sibling, pg[c], pg[x]),
         NEW s, s = r2.keys[1], E[p] # {}
  PROVE  ShiftsTo(pg[l], pg[r], l2, r2, s, E[l], E[r])
<1> DEFINE keys == pg[p].keys
           V == E[p]
           X == E[l]
           Y == E[r]
<1>1. /\ keys \in Seq(Nat) /\ Len(pg[p].children) = Len(keys) + 1 /\ Len(keys) \in Nat
      /\ i \in 1 .. Len(pg[p].children) /\ i + 1 \in 1 .. Len(pg[p].children)
  <2>1. Len(pg[p].children) = Len(keys) + 1 /\ Len(keys) \in Nat /\ keys \in Seq(Nat)
    BY InternalFacts DEF Wide, Nodes
  <2> QED BY <2>1
<1>2. l \in PageIds /\ r \in PageIds
  BY <1>1, ChildAt, ZenonT(40)
<1>3. E \in Ranges /\ RouteAt(pg, E, E, p) /\ RouteAt(pg, E, E, l) /\ RouteAt(pg, E, E, r)
  BY <1>2 DEF Routes
<1>4. /\ Increasing(keys) /\ V \in SUBSET Nat /\ X \in SUBSET Nat /\ Y \in SUBSET Nat
      /\ X = Slot(keys, i, V) /\ Y = Slot(keys, i + 1, V) /\ X # {} /\ Y # {}
  <2>1. Increasing(keys) /\ X = Slot(keys, i, V) /\ Y = Slot(keys, i + 1, V) /\ X # {} /\ Y # {}
    BY <1>1, <1>3, Zenon DEF RouteAt
  <2> QED BY <1>2, <1>3, <2>1, SMTT(20) DEF Ranges
<1>5. \A u \in X, w \in Y : u < w
  <2>1. keys \in Seq(Nat) /\ i \in 1 .. Len(keys)
    BY <1>1
  <2> HIDE DEF keys, V, X, Y
  <2> QED BY <1>4, <2>1, Neighbours
<1>6. /\ Increasing(pg[l].keys) /\ \A j \in 1 .. Len(pg[l].keys) : pg[l].keys[j] \in X
      /\ Increasing(pg[r].keys) /\ \A j \in 1 .. Len(pg[r].keys) : pg[r].keys[j] \in Y
  BY <1>3, <1>4, Zenon DEF RouteAt
<1> HIDE DEF X, Y
<1>7. CASE Rightwards(pg[l], pg[r], l2, r2)
  <2> HIDE DEF keys, V
  <2> DEFINE ol == pg[l]
             orr == pg[r]
  <2>1. /\ Rightwards(ol, orr, l2, r2) /\ Increasing(ol.keys) /\ Increasing(orr.keys)
        /\ \A j \in 1 .. Len(ol.keys) : ol.keys[j] \in X
        /\ \A j \in 1 .. Len(orr.keys) : orr.keys[j] \in Y
    BY <1>6, <1>7, Zenon
  <2> HIDE DEF ol, orr
  <2>2. ShiftsTo(ol, orr, l2, r2, s, X, Y)
    BY <1>4, <1>5, <2>1, RightwardsShifts
  <2> QED BY <2>2, SMTT(20) DEF ol, orr, X, Y
<1>8. CASE Leftwards(pg[l], pg[r], l2, r2)
  <2> HIDE DEF keys, V
  <2> DEFINE ol == pg[l]
             orr == pg[r]
  <2>1. /\ Leftwards(ol, orr, l2, r2) /\ Increasing(ol.keys) /\ Increasing(orr.keys)
        /\ \A j \in 1 .. Len(ol.keys) : ol.keys[j] \in X
        /\ \A j \in 1 .. Len(orr.keys) : orr.keys[j] \in Y
    BY <1>6, <1>8
  <2> HIDE DEF ol, orr
  <2>2. ShiftsTo(ol, orr, l2, r2, s, X, Y)
    BY <1>4, <1>5, <2>1, LeftwardsShifts
  <2> QED BY <2>2 DEF ol, orr, X, Y
<1> QED BY <1>7, <1>8 DEF Trades

(* What a borrow between the leaves c and x does: the two neighbours l and r  *)
(* of key i of p become l2 and r2, which are child and sibling in some order. *)
Moves(s, t, p, i, parent, l, r, l2, r2, c, child, x, sibling, key) ==
  /\ s.pages[p].node_type # "Leaf"
  /\ c # x
  /\ s.pages[c].node_type = "Leaf"
  /\ s.pages[x].node_type = "Leaf"
  /\ i \in 1 .. Len(s.pages[p].keys)
  /\ LeafNode(child)
  /\ LeafNode(sibling)
  /\ l = s.pages[p].children[i]
  /\ r = s.pages[p].children[i + 1]
  /\ Trades(l, r, l2, r2, c, child, x, sibling, s.pages[c], s.pages[x])
  /\ key = r2.keys[1]
  /\ Reseparated(parent, s.pages[p], i, key)
  /\ t = WriteThree(s, p, parent, c, child, x, sibling)
  /\ \A M : TreeOf(s, M) => TreeOf(t, M)

LEMMA MovedTold ==
  ASSUME NEW s, NEW b, NEW L, NEW p \in PageIds, NEW c \in PageIds, NEW x \in PageIds,
         Holds(s, b, p, c, x), TreeOf(s, L),
         NEW i, NEW child, NEW sibling, NEW l, NEW r, NEW l2, NEW r2, NEW key, NEW parent,
         NEW t, Moves(s, t, p, i, parent, l, r, l2, r2, c, child, x, sibling, key),
         NEW k \in Nat, NEW v, Told(s, k, v)
  PROVE  Told(t, k, v)
<1>0. /\ s.pages[p].node_type # "Leaf"
      /\ c # x
      /\ s.pages[c].node_type = "Leaf"
      /\ s.pages[x].node_type = "Leaf"
      /\ i \in 1 .. Len(s.pages[p].keys)
      /\ LeafNode(child)
      /\ LeafNode(sibling)
      /\ l = s.pages[p].children[i]
      /\ r = s.pages[p].children[i + 1]
      /\ key = r2.keys[1]
      /\ Reseparated(parent, s.pages[p], i, key)
      /\ t = WriteThree(s, p, parent, c, child, x, sibling)
  BY DEF Moves
<1>b. Trades(l, r, l2, r2, c, child, x, sibling, s.pages[c], s.pages[x])
  BY DEF Moves
<1>c. \A M : TreeOf(s, M) => TreeOf(t, M)
  BY DEF Moves
<1> USE <1>0, <1>b, <1>c
<1>1. Tree(s.pages, s.next, s.root, L) /\ s.pages \in [PageIds -> Nodes]
  BY DEF TreeOf, Tree
<1>2. /\ s.root # None /\ parent \in Nodes /\ Whole(parent)
      /\ child \in Nodes /\ Whole(child) /\ sibling \in Nodes /\ Whole(sibling)
  <2>1. Wide(s.pages, s.next, s.root, L, p, s.pages[p]) /\ Len(s.pages[p].keys) >= 1
        /\ s.root \in PageIds
    BY <1>1, InternalFacts
  <2> QED BY <2>1, PageFacts DEF Reseparated, Rekeyed, Whole, LeafNode, Wide
<1>3. ThreeWritten(t.pages, s.pages, p, parent, c, child, x, sibling)
  BY <1>2, WriteThreeHolds
<1>4. SameRoot(t, s)
  BY <1>2, <1>3, WriteThreeHolds
<1>5. t.cuts = s.cuts
  BY <1>2, WriteThreeCuts
<1>6. Safe(t, k)
  BY <1>5 DEF Told, Safe
<1>7. ASSUME t.merges = 0 PROVE Told(t, k, v)
  <2>1. s.merges = 0 /\ t.next = s.next /\ t.root = s.root
    BY <1>4, <1>7 DEF SameRoot
  <2>2. PICK M, D : /\ TreeOf(s, M)
                    /\ Routes(s.pages, s.next, s.root, M, D, D)
                    /\ AllTell(s.pages, s.root, D, k)
                    /\ Tells(s.pages, s.root, D, k, v)
    BY <2>1 DEF Told
  <2>3. Tree(s.pages, s.next, s.root, M) /\ TreeOf(t, M)
    BY <2>2 DEF TreeOf
  <2>4. Shared(t.pages, s.pages, p, i, l, r, parent, l2, r2, key)
    <3>1. PICK g, h : /\ Wrote(g, s.pages, p, parent)
                      /\ Wrote(h, g, c, child)
                      /\ Wrote(t.pages, h, x, sibling)
      BY <1>3 DEF ThreeWritten
    <3>2. c # p /\ x # p
      OBVIOUS
    <3>3. /\ t.pages[p] = parent /\ t.pages[c] = child /\ t.pages[x] = sibling
          /\ \A q \in PageIds : q \notin {p, c, x} => t.pages[q] = s.pages[q]
      BY <1>1, <3>1, <3>2 DEF Wrote
    <3>4. {l, r} = {c, x} /\ l # r
      BY DEF Trades
    <3>5. t.pages[l] = l2 /\ t.pages[r] = r2 /\ l2.node_type = "Leaf" /\ r2.node_type = "Leaf"
      BY <3>3 DEF Trades, LeafNode
    <3>6. s.pages[l].node_type = "Leaf" /\ s.pages[r].node_type = "Leaf"
      BY <3>4
    <3>7. \A q \in PageIds : q \notin {p, l, r} => Akin(t.pages[q], s.pages[q])
      BY <3>3, <3>4 DEF Akin
    <3> QED BY <3>3, <3>4, <3>5, <3>6, <3>7 DEF Shared
  <2>5. Rerouted(t.pages, s.next, s.root, M, s.pages, D)
    <3>1. CASE D[p] = {}
      BY <1>2, <2>2, <2>3, <2>4, <3>1, SharedNone, SMTT(20)
    <3>2. CASE D[p] # {}
      <4>1. ShiftsTo(s.pages[l], s.pages[r], l2, r2, key, D[l], D[r])
        BY <2>2, <2>3, <3>2, TradedShifts
      <4> QED BY <1>2, <2>2, <2>3, <2>4, <3>2, <4>1, SharedRouted
    <3> QED BY <3>1, <3>2
  <2> QED BY <1>6, <2>1, <2>2, <2>3, <2>5, CarriedTold
<1> QED BY <1>6, <1>7 DEF Told

LEMMA LongerAt ==
  ASSUME NEW s \in Seq(Nat), NEW x \in Nat
  PROVE  /\ (<<x>> \o s)[1] = x
         /\ \A j \in 1 .. Len(s) : (<<x>> \o s)[j + 1] = s[j]
         /\ Append(s, x)[Len(s) + 1] = x
         /\ \A j \in 1 .. Len(s) : Append(s, x)[j] = s[j]
<1> DEFINE a == <<x>>
           n == Len(s)
<1>1. a \in Seq(Nat) /\ Len(a) = 1 /\ a[1] = x /\ n \in Nat
  OBVIOUS
<1>2. \A j \in 1 .. n : Append(s, x)[j] = s[j] /\ Append(s, x)[n + 1] = x
  OBVIOUS
<1>3. Append(s, x)[n + 1] = x
  OBVIOUS
<1> HIDE DEF a
<1>4. /\ Len(a \o s) = 1 + n
      /\ \A j \in 1 .. 1 + n : (a \o s)[j] = IF j <= 1 THEN a[j] ELSE s[j - 1]
  <2>1. /\ Len(a \o s) = Len(a) + Len(s)
        /\ \A j \in 1 .. Len(a) + Len(s) :
             (a \o s)[j] = IF j <= Len(a) THEN a[j] ELSE s[j - Len(a)]
    <3> HIDE DEF n
    <3>1. a \in Seq(Nat)
      BY <1>1
    <3> QED BY <3>1, ConcatProperties
  <2>2. Len(a) = 1
    BY <1>1
  <2> QED BY <2>1, <2>2
<1>5. (a \o s)[1] = x
  <2>1. 1 \in 1 .. 1 + n /\ 1 <= 1
    BY <1>1
  <2> QED BY <1>1, <1>4, <2>1
<1>6. ASSUME NEW j \in 1 .. n PROVE (a \o s)[j + 1] = s[j]
  <2>1. j + 1 \in 1 .. 1 + n /\ ~(j + 1 <= 1) /\ (j + 1) - 1 = j
    BY <1>1
  <2> QED BY <1>4, <2>1
<1> QED BY <1>2, <1>3, <1>5, <1>6 DEF a, n

LEMMA ShorterAt ==
  ASSUME NEW s \in Seq(Nat), Len(s) > 0
  PROVE  /\ \A j \in 1 .. Len(s) - 1 : Front(s)[j] = s[j]
         /\ Last(s) = s[Len(s)]
         /\ \A j \in 1 .. Len(s) - 1 : Tail(s)[j] = s[j + 1]
         /\ Head(s) = s[1]
<1>1. Len(s) - 1 \in 0 .. Len(s) /\ s # <<>>
  OBVIOUS
<1>2. \A j \in 1 .. Len(s) - 1 : Front(s)[j] = s[j]
  BY <1>1, Prefix DEF Front
<1>3. \A j \in 1 .. Len(s) - 1 : Tail(s)[j] = s[j + 1]
  BY <1>1
<1>4. Last(s) = s[Len(s)] /\ Head(s) = s[1]
  BY <1>1 DEF Last
<1> QED BY <1>2, <1>3, <1>4

LEMMA ReseparatedMade ==
  ASSUME NEW old \in Nodes, NEW i \in 1 .. Len(old.keys), NEW x \in Nat,
         NEW node, node = [old EXCEPT !.keys = Replace(old.keys, i, x)]
  PROVE  Reseparated(node, old, i, x)
<1> DEFINE ks == Replace(old.keys, i, x)
<1>1. old.keys \in Seq(Nat)
  BY DEF Nodes
<1>2. ks \in Seq(Nat) /\ Len(ks) = Len(old.keys)
  <2> DEFINE o == old.keys
  <2>1. o \in Seq(Nat) /\ i \in 1 .. Len(o)
    BY <1>1
  <2> HIDE DEF o
  <2>2. Replace(o, i, x) \in Seq(Nat) /\ Len(Replace(o, i, x)) = Len(o)
    BY <2>1 DEF Replace
  <2> QED BY <2>2 DEF o
<1>3. ks[i] = x /\ \A j \in 1 .. Len(old.keys) : j # i => ks[j] = old.keys[j]
  BY <1>1 DEF Replace
<1> HIDE DEF ks
<1>4. node = [old EXCEPT !.keys = ks]
  BY DEF ks
<1>5. Rekeyed(node, old) /\ node.keys = ks
  BY <1>2, <1>4, RekeyedMade DEF Nodes
<1> QED BY <1>3, <1>5 DEF Reseparated

\* What the borrowing leaf and its sibling become.
WithLast(child, left) == [child EXCEPT !.keys = <<Last(left.keys)>> \o child.keys,
                                       !.values = <<Last(left.values)>> \o child.values]
LessLast(left) == [left EXCEPT !.keys = Front(left.keys), !.values = Front(left.values)]
WithFirst(child, right) == [child EXCEPT !.keys = Append(child.keys, Head(right.keys)),
                                         !.values = Append(child.values, Head(right.values))]
LessFirst(right) == [right EXCEPT !.keys = Tail(right.keys), !.values = Tail(right.values)]

LEMMA LeftTraded ==
  ASSUME NEW child, LeafNode(child), NEW left, LeafNode(left), Len(left.keys) >= 2,
         NEW child2, child2 = WithLast(child, left), NEW left2, left2 = LessLast(left)
  PROVE  Rightwards(left, child, left2, child2) /\ LeafNode(child2) /\ LeafNode(left2)
<1> DEFINE k1 == child.keys
           v1 == child.values
           k0 == left.keys
           v0 == left.values
           n == Len(k0)
           m == Len(k1)
           cks == <<Last(k0)>> \o k1
           cvs == <<Last(v0)>> \o v1
           lks == Front(k0)
           lvs == Front(v0)
<1>1. /\ k1 \in Seq(Nat) /\ v1 \in Seq(Nat) /\ Len(v1) = m /\ k0 \in Seq(Nat) /\ v0 \in Seq(Nat)
      /\ Len(v0) = n /\ n \in Nat /\ m \in Nat /\ n >= 2 /\ n > 0
      /\ child \in Nodes /\ left \in Nodes
  BY DEF LeafNode, Nodes
<1>2. child2 = [child EXCEPT !.keys = cks, !.values = cvs]
      /\ left2 = [left EXCEPT !.keys = lks, !.values = lvs]
  BY DEF WithLast, LessLast
<1> HIDE DEF k1, v1, k0, v0
<1>3. /\ lks \in Seq(Nat) /\ Len(lks) = n - 1 /\ \A j \in 1 .. n - 1 : lks[j] = k0[j]
      /\ Last(k0) = k0[n] /\ Last(k0) \in Nat
  BY <1>1, Shorter, ShorterAt
<1>4. /\ lvs \in Seq(Nat) /\ Len(lvs) = n - 1 /\ \A j \in 1 .. n - 1 : lvs[j] = v0[j]
      /\ Last(v0) = v0[n] /\ Last(v0) \in Nat
  <2>1. Len(v0) > 0
    BY <1>1
  <2> QED BY <1>1, <2>1, Shorter, ShorterAt
<1> DEFINE ek == Last(k0)
           ev == Last(v0)
<1> HIDE DEF lks, lvs, n, ek, ev
<1>5. cks \in Seq(Nat) /\ Len(cks) = m + 1 /\ cks[1] = ek /\ \A j \in 1 .. m : cks[j + 1] = k1[j]
  <2>1. ek \in Nat /\ cks = <<ek>> \o k1
    BY <1>3 DEF ek
  <2> HIDE DEF cks
  <2> QED BY <1>1, <2>1, Longer, LongerAt
<1>6. cvs \in Seq(Nat) /\ Len(cvs) = m + 1 /\ cvs[1] = ev /\ \A j \in 1 .. m : cvs[j + 1] = v1[j]
  <2>1. ev \in Nat /\ cvs = <<ev>> \o v1
    BY <1>4 DEF ev
  <2> HIDE DEF cvs, m
  <2>2. Len(v1) \in Nat /\ Len(v1) = m
    BY <1>1
  <2>3. cvs \in Seq(Nat) /\ Len(cvs) = Len(v1) + 1
    BY <1>1, <2>1, Longer
  <2>4. cvs[1] = ev /\ \A j \in 1 .. Len(v1) : cvs[j + 1] = v1[j]
    BY <1>1, <2>1, LongerAt
  <2> QED BY <2>2, <2>3, <2>4
<1> HIDE DEF cks, cvs, m
<1>7. /\ child2.keys = cks /\ child2.values = cvs /\ left2.keys = lks /\ left2.values = lvs
      /\ LeafNode(child2) /\ LeafNode(left2)
  <2>1. /\ child2 \in Nodes /\ child2.keys = cks /\ child2.values = cvs
        /\ child2.node_type = child.node_type /\ child2.children = child.children
    BY <1>1, <1>2, <1>5, <1>6 DEF Nodes
  <2>2. /\ left2 \in Nodes /\ left2.keys = lks /\ left2.values = lvs
        /\ left2.node_type = left.node_type /\ left2.children = left.children
    BY <1>1, <1>2, <1>3, <1>4 DEF Nodes
  <2> QED BY <1>3, <1>4, <1>5, <1>6, <2>1, <2>2 DEF LeafNode
<1> QED BY <1>1, <1>3, <1>4, <1>5, <1>6, <1>7 DEF Rightwards, n, m, k0, k1, v0, v1, ek, ev

LEMMA RightTraded ==
  ASSUME NEW child, LeafNode(child), NEW right, LeafNode(right), Len(right.keys) >= 2,
         NEW child2, child2 = WithFirst(child, right), NEW right2, right2 = LessFirst(right)
  PROVE  /\ Leftwards(child, right, child2, right2) /\ LeafNode(child2) /\ LeafNode(right2)
         /\ right2.keys # <<>> /\ Head(right2.keys) = right2.keys[1] /\ right2.keys[1] \in Nat
<1> DEFINE k1 == child.keys
           v1 == child.values
           k0 == right.keys
           v0 == right.values
           n == Len(k0)
           m == Len(k1)
           cks == Append(k1, Head(k0))
           cvs == Append(v1, Head(v0))
           rks == Tail(k0)
           rvs == Tail(v0)
<1>1. /\ k1 \in Seq(Nat) /\ v1 \in Seq(Nat) /\ Len(v1) = m /\ k0 \in Seq(Nat) /\ v0 \in Seq(Nat)
      /\ Len(v0) = n /\ n \in Nat /\ m \in Nat /\ n >= 2 /\ n > 0
      /\ child \in Nodes /\ right \in Nodes
  BY DEF LeafNode, Nodes
<1>2. child2 = [child EXCEPT !.keys = cks, !.values = cvs]
      /\ right2 = [right EXCEPT !.keys = rks, !.values = rvs]
  BY DEF WithFirst, LessFirst
<1> HIDE DEF k1, v1, k0, v0
<1>3. /\ rks \in Seq(Nat) /\ Len(rks) = n - 1 /\ \A j \in 1 .. n - 1 : rks[j] = k0[j + 1]
      /\ Head(k0) = k0[1] /\ Head(k0) \in Nat
  BY <1>1, Shorter, ShorterAt
<1>4. /\ rvs \in Seq(Nat) /\ Len(rvs) = n - 1 /\ \A j \in 1 .. n - 1 : rvs[j] = v0[j + 1]
      /\ Head(v0) = v0[1] /\ Head(v0) \in Nat
  <2>1. Len(v0) > 0
    BY <1>1
  <2> QED BY <1>1, <2>1, Shorter, ShorterAt
<1> DEFINE ek == Head(k0)
           ev == Head(v0)
<1> HIDE DEF rks, rvs, n, ek, ev
<1>5. cks \in Seq(Nat) /\ Len(cks) = m + 1 /\ cks[m + 1] = ek /\ \A j \in 1 .. m : cks[j] = k1[j]
  <2>1. ek \in Nat /\ cks = Append(k1, ek)
    BY <1>3 DEF ek
  <2> HIDE DEF cks
  <2> QED BY <1>1, <2>1, Longer, LongerAt
<1>6. cvs \in Seq(Nat) /\ Len(cvs) = m + 1 /\ cvs[m + 1] = ev /\ \A j \in 1 .. m : cvs[j] = v1[j]
  <2>1. ev \in Nat /\ cvs = Append(v1, ev) /\ v1 \in Seq(Nat)
    BY <1>1, <1>4 DEF ev
  <2> HIDE DEF cvs, m, cks
  <2>2. Len(v1) \in Nat /\ Len(v1) = m
    BY <1>1
  <2>3. cvs \in Seq(Nat) /\ Len(cvs) = Len(v1) + 1
    BY <2>1, Longer
  <2>4. cvs[Len(v1) + 1] = ev /\ \A j \in 1 .. Len(v1) : cvs[j] = v1[j]
    BY <2>1, LongerAt
  <2> QED BY <2>2, <2>3, <2>4
<1> HIDE DEF cks, cvs, m
<1>7. /\ child2.keys = cks /\ child2.values = cvs /\ right2.keys = rks /\ right2.values = rvs
      /\ LeafNode(child2) /\ LeafNode(right2)
  <2>1. /\ child2 \in Nodes /\ child2.keys = cks /\ child2.values = cvs
        /\ child2.node_type = child.node_type /\ child2.children = child.children
    BY <1>1, <1>2, <1>5, <1>6 DEF Nodes
  <2>2. /\ right2 \in Nodes /\ right2.keys = rks /\ right2.values = rvs
        /\ right2.node_type = right.node_type /\ right2.children = right.children
    BY <1>1, <1>2, <1>3, <1>4 DEF Nodes
  <2> QED BY <1>3, <1>4, <1>5, <1>6, <2>1, <2>2 DEF LeafNode
<1>8. rks # <<>> /\ Head(rks) = rks[1] /\ rks[1] \in Nat
  <2>1. Len(rks) > 0 /\ 1 \in 1 .. Len(rks)
    BY <1>1, <1>3
  <2> QED BY <1>3, <2>1
<1> QED BY <1>1, <1>3, <1>4, <1>5, <1>6, <1>7, <1>8 DEF Leftwards, n, m, k0, k1, v0, v1, ek, ev

LEMMA Rich ==
  ASSUME NEW n, n \in Nat, n > min_keys
  PROVE  n >= 2
BY PageFacts

\* The i-th child of an internal node and the next.
LEMMA TwoChildren ==
  ASSUME NEW pg, NEW nx, NEW rt, NEW L, Tree(pg, nx, rt, L),
         NEW p \in PageIds, pg[p].node_type # "Leaf", NEW i \in 1 .. Len(pg[p].children) - 1
  PROVE  /\ pg[p] \in Nodes /\ i \in 1 .. Len(pg[p].keys)
         /\ pg[p].children[i] \in Kids(pg[p]) /\ pg[p].children[i + 1] \in Kids(pg[p])
<1> DEFINE n == Len(pg[p].children)
           m == Len(pg[p].keys)
<1>1. Wide(pg, nx, rt, L, p, pg[p])
  BY InternalFacts
<1>2. pg[p] \in Nodes /\ n = m + 1
  BY <1>1 DEF Wide
<1>3. m \in Nat
  <2>1. pg[p].keys \in Seq(Nat)
    BY <1>2 DEF Nodes
  <2> QED BY <2>1, LenProperties
<1>4. i \in 1 .. n - 1
  OBVIOUS
<1>5. i \in 1 .. m /\ i \in 1 .. n /\ i + 1 \in 1 .. n
  <2> HIDE DEF n, m
  <2> QED BY <1>2, <1>3, <1>4
<1>6. pg[p].children[i] \in Kids(pg[p]) /\ pg[p].children[i + 1] \in Kids(pg[p])
  BY <1>5, Zenon DEF Kids, n
<1> QED BY <1>2, <1>5, <1>6

\* If one of them is short, both are leaves; the one that is not can lend.
LEMMA LeafLends ==
  ASSUME NEW pg, NEW nx, NEW rt, NEW L, Tree(pg, nx, rt, L),
         NEW p \in PageIds, pg[p].node_type # "Leaf",
         NEW c \in PageIds, c \in Kids(pg[p]), NEW x \in PageIds, x \in Kids(pg[p]),
         Len(pg[c].keys) < min_keys, Len(pg[x].keys) > min_keys
  PROVE  /\ LeafNode(pg[c]) /\ LeafNode(pg[x]) /\ c # x
         /\ pg[x].keys \in Seq(Nat) /\ Len(pg[x].keys) >= 2 /\ Len(pg[x].keys) > 0
<1>1. pg[c].node_type = "Leaf" /\ pg[x].node_type = "Leaf"
  BY ShortLeaf, Zenon
<1>2. LeafNode(pg[c]) /\ LeafNode(pg[x])
  BY <1>1, LeafFacts, Zenon
<1>3. pg[c].keys \in Seq(Nat) /\ pg[x].keys \in Seq(Nat)
  <2>1. pg[c] \in Nodes /\ pg[x] \in Nodes
    BY <1>2, Zenon DEF LeafNode
  <2> QED BY <2>1 DEF Nodes
<1> DEFINE n == Len(pg[x].keys)
           m == Len(pg[c].keys)
<1>4. n \in Nat /\ m \in Nat /\ n > min_keys /\ m < min_keys /\ min_keys \in Nat
  <2>1. n \in Nat /\ m \in Nat
    BY <1>3, LenProperties
  <2> QED BY <2>1, PageFacts
<1>5. c = x => n = m
  OBVIOUS
<1> HIDE DEF n, m
<1>6. n >= 2
  BY <1>4, Rich
<1>7. n # m /\ n > 0
  BY <1>4, <1>6
<1> QED BY <1>2, <1>3, <1>5, <1>6, <1>7, Zenon DEF n

\* The writes of a borrowing between leaves.
Read(s, p, parent, c, child, x, sibling) ==
  /\ parent = s.pages[p] /\ child = s.pages[c] /\ sibling = s.pages[x]
  /\ child.node_type = "Leaf"

LEMMA LeftWritten ==
  ASSUME NEW s, NEW p, NEW parent, NEW c, NEW child, NEW x, NEW left,
         Read(s, p, parent, c, child, x, left),
         NEW i, c = parent.children[i], x = parent.children[i - 1]
  PROVE  BorrowLeft(s, p, i) =
           WriteThree(s, p, [parent EXCEPT !.keys = Replace(parent.keys, i - 1, Last(left.keys))],
                      c, WithLast(child, left), x, LessLast(left))
BY ZenonT(40) DEF BorrowLeft, read_node, WithLast, LessLast, Read

LEMMA RightWritten ==
  ASSUME NEW s, NEW p, NEW parent, NEW c, NEW child, NEW x, NEW right,
         Read(s, p, parent, c, child, x, right),
         NEW i, c = parent.children[i], x = parent.children[i + 1],
         LessFirst(right).keys # <<>>
  PROVE  BorrowRight(s, p, i) =
           WriteThree(s, p, [parent EXCEPT !.keys =
                               Replace(parent.keys, i, Head(LessFirst(right).keys))],
                      c, WithFirst(child, right), x, LessFirst(right))
BY ZenonT(40) DEF BorrowRight, read_node, WithFirst, LessFirst, Read

LEMMA BorrowLeftTold ==
  ASSUME NEW s, NEW b, NEW L, NEW p \in PageIds, NEW c \in PageIds, NEW x \in PageIds,
         Holds(s, b, p, c, x), TreeOf(s, L), s.pages[p].node_type # "Leaf",
         NEW i \in 2 .. Len(s.pages[p].children),
         c = s.pages[p].children[i], x = s.pages[p].children[i - 1],
         Len(s.pages[c].keys) < min_keys, Len(s.pages[x].keys) > min_keys,
         NEW t, t = BorrowLeft(s, p, i), NEW k \in Nat, NEW v, Told(s, k, v)
  PROVE  Told(t, k, v)
<1> DEFINE parent == s.pages[p]
           child == s.pages[c]
           left == s.pages[x]
           key == Last(left.keys)
           h == i - 1
           parent2 == [parent EXCEPT !.keys = Replace(parent.keys, h, key)]
           child2 == WithLast(child, left)
           left2 == LessLast(left)
<1>1. Tree(s.pages, s.next, s.root, L)
  BY DEF TreeOf
<1>2. /\ h \in 1 .. Len(parent.children) - 1 /\ h + 1 = i
      /\ x = parent.children[h] /\ c = parent.children[h + 1]
  <2>1. Len(parent.children) \in Nat
    BY <1>1, NodeFacts DEF Tree
  <2>2. h \in 1 .. Len(parent.children) - 1 /\ h + 1 = i
    BY <2>1
  <2> QED BY <2>2
<1> HIDE DEF h
<1>3. parent \in Nodes /\ h \in 1 .. Len(parent.keys) /\ x \in Kids(parent) /\ c \in Kids(parent)
  BY <1>1, <1>2, TwoChildren
<1>4. /\ LeafNode(child) /\ LeafNode(left) /\ c # x
      /\ left.keys \in Seq(Nat) /\ Len(left.keys) >= 2 /\ Len(left.keys) > 0
  BY <1>1, <1>3, LeafLends
<1>5. child.node_type = "Leaf" /\ left.node_type = "Leaf"
  BY <1>4, Zenon DEF LeafNode
<1>6. t = WriteThree(s, p, parent2, c, child2, x, left2)
  <2>1. Read(s, p, parent, c, child, x, left) /\ c = parent.children[i] /\ x = parent.children[i - 1]
    BY <1>5, Zenon DEF Read
  <2> HIDE DEF parent, child, left
  <2>2. BorrowLeft(s, p, i) = WriteThree(s, p, parent2, c, child2, x, left2)
    BY ONLY <2>1, LeftWritten DEF h
  <2> QED BY <2>2
<1>7. \A M : TreeOf(s, M) => TreeOf(t, M)
  <2>1. ASSUME NEW M, TreeOf(s, M) PROVE Mended(t, s, b, M, c)
    BY <2>1, BorrowLeftHolds
  <2> QED BY <2>1, Zenon DEF Mended
<1> HIDE DEF parent, child, left, child2, left2, key, parent2
<1>8. Rightwards(left, child, left2, child2) /\ LeafNode(child2) /\ LeafNode(left2)
  BY <1>4, LeftTraded, Zenon DEF child2, left2
<1>9. key = left.keys[Len(left.keys)] /\ key \in Nat
  BY <1>4, Shorter, ShorterAt, Zenon DEF key
<1>10. key = child2.keys[1]
  BY <1>8, <1>9, Zenon DEF Rightwards
<1>11. Reseparated(parent2, parent, h, key)
  BY <1>3, <1>9, ReseparatedMade, Zenon DEF parent2
<1>12. Trades(x, c, left2, child2, c, child2, x, left2, child, left)
  BY <1>8, Zenon DEF Trades
<1>13. Moves(s, t, p, h, parent2, x, c, left2, child2, c, child2, x, left2, key)
  BY <1>2, <1>3, <1>4, <1>5, <1>6, <1>7, <1>8, <1>10, <1>11, <1>12, ZenonT(40)
     DEF Moves, parent, child, left
<1> QED BY <1>13, MovedTold

LEMMA BorrowRightTold ==
  ASSUME NEW s, NEW b, NEW L, NEW p \in PageIds, NEW c \in PageIds, NEW x \in PageIds,
         Holds(s, b, p, c, x), TreeOf(s, L), s.pages[p].node_type # "Leaf",
         NEW i \in 1 .. Len(s.pages[p].children) - 1,
         c = s.pages[p].children[i], x = s.pages[p].children[i + 1],
         Len(s.pages[c].keys) < min_keys, Len(s.pages[x].keys) > min_keys,
         NEW t, t = BorrowRight(s, p, i), NEW k \in Nat, NEW v, Told(s, k, v)
  PROVE  Told(t, k, v)
<1> DEFINE parent == s.pages[p]
           child == s.pages[c]
           right == s.pages[x]
           child2 == WithFirst(child, right)
           right2 == LessFirst(right)
           key == Head(right2.keys)
           parent2 == [parent EXCEPT !.keys = Replace(parent.keys, i, key)]
<1>1. Tree(s.pages, s.next, s.root, L)
  BY DEF TreeOf
<1>2. parent \in Nodes /\ i \in 1 .. Len(parent.keys) /\ x \in Kids(parent) /\ c \in Kids(parent)
  BY <1>1, TwoChildren
<1>3. /\ LeafNode(child) /\ LeafNode(right) /\ c # x /\ Len(right.keys) >= 2
  BY <1>1, <1>2, LeafLends
<1>4. child.node_type = "Leaf" /\ right.node_type = "Leaf"
  BY <1>3, Zenon DEF LeafNode
<1>5. /\ Leftwards(child, right, child2, right2) /\ LeafNode(child2) /\ LeafNode(right2)
      /\ right2.keys # <<>> /\ key = right2.keys[1] /\ key \in Nat
  <2> HIDE DEF child, right
  <2>1. /\ Leftwards(child, right, child2, right2) /\ LeafNode(child2) /\ LeafNode(right2)
        /\ right2.keys # <<>> /\ key = right2.keys[1] /\ right2.keys[1] \in Nat
    BY <1>3, RightTraded, Zenon
  <2> QED BY <2>1, Zenon
<1>6. t = WriteThree(s, p, parent2, c, child2, x, right2)
  <2>1. Read(s, p, parent, c, child, x, right) /\ c = parent.children[i] /\ x = parent.children[i + 1]
    BY <1>4, Zenon DEF Read
  <2>2. right2.keys # <<>>
    BY <1>5, Zenon
  <2> HIDE DEF parent, child, right
  <2>3. BorrowRight(s, p, i) = WriteThree(s, p, parent2, c, child2, x, right2)
    BY ONLY <2>1, <2>2, RightWritten
  <2> QED BY <2>3
<1>7. \A M : TreeOf(s, M) => TreeOf(t, M)
  <2>1. ASSUME NEW M, TreeOf(s, M) PROVE Mended(t, s, b, M, c)
    BY <2>1, BorrowRightHolds
  <2> QED BY <2>1, Zenon DEF Mended
<1> HIDE DEF parent, child, right, child2, right2, key, parent2
<1>8. Reseparated(parent2, parent, i, key)
  BY <1>2, <1>5, ReseparatedMade, Zenon DEF parent2
<1>9. Trades(c, x, child2, right2, c, child2, x, right2, child, right)
  BY <1>5, Zenon DEF Trades
<1>10. Moves(s, t, p, i, parent2, c, x, child2, right2, c, child2, x, right2, key)
  BY <1>2, <1>3, <1>4, <1>5, <1>6, <1>7, <1>8, <1>9, ZenonT(40)
     DEF Moves, parent, child, right
<1> QED BY <1>10, MovedTold
---------------------------------------------------------------------------
(* remove: borrowings keep what is found, and once leaves have been merged *)
(* a call need only be able to fail as before.                             *)

LEMMA ToldSame ==
  ASSUME NEW s, NEW t, NEW k, NEW v, Told(s, k, v), SameTree(t, s), Ready(t, k)
  PROVE  Told(t, k, v)
BY DEF Told, Ready, SameTree, TreeOf

LEMMA FetchTold ==
  ASSUME NEW s, NEW b, NEW x, NEW y, NEW L, NEW p \in PageIds,
         Holds(s, b, x, y, None), TreeOf(s, L), NEW k, NEW v, Told(s, k, v)
  PROVE  Told(fetch(s, p), k, v)
<1>1. SameTree(fetch(s, p), s) /\ Ready(fetch(s, p), k)
  BY ToldFound, FetchHolds, FetchReady
<1> QED BY <1>1, ToldSame

LEMMA ReleaseTold ==
  ASSUME NEW s, NEW b, NEW x, NEW y, NEW p \in PageIds, Holds(s, b, x, y, p),
         NEW k, NEW v, Told(s, k, v)
  PROVE  Told(release_node(s, p), k, v)
<1>1. SameTree(release_node(s, p), s) /\ Ready(release_node(s, p), k)
  BY ToldFound, ReleaseHolds, ReleaseReady
<1> QED BY <1>1, ToldSame

LEMMA VisitTold ==
  ASSUME NEW s, NEW b, NEW x, NEW y, NEW L, NEW p \in PageIds,
         Holds(s, b, x, y, None), TreeOf(s, L), NEW k, NEW v, Told(s, k, v)
  PROVE  Told(visit(s, p), k, v)
<1>1. SameTree(visit(s, p), s) /\ Ready(visit(s, p), k)
  BY ToldFound, VisitHolds, VisitReady
<1> QED BY <1>1, ToldSame

LEMMA VisitEachTold ==
  ASSUME NEW s, NEW b, NEW x \in PageOrNone, NEW y \in PageOrNone, NEW L, NEW ps \in Seq(PageIds),
         Holds(s, b, x, y, None), TreeOf(s, L), NEW k, NEW v, Told(s, k, v)
  PROVE  Told(visit_each(s, ps), k, v)
<1>1. SameTree(visit_each(s, ps), s) /\ Ready(visit_each(s, ps), k)
  BY ToldFound, VisitEachHolds, VisitEachReady
<1> QED BY <1>1, ToldSame

LEMMA JoinTold ==
  ASSUME NEW s, NEW b, NEW L, NEW p \in PageIds,
         Holds(s, b, None, None, None), TreeOf(s, L), s.pages[p].node_type # "Leaf",
         NEW i \in 1 .. Len(s.pages[p].children) - 1,
         NEW x \in PageIds, x = s.pages[p].children[i],
         NEW y \in PageIds, y = s.pages[p].children[i + 1],
         NEW c, c = x \/ c = y, Len(s.pages[c].keys) < min_keys,
         Len(s.pages[x].keys) <= min_keys, Len(s.pages[y].keys) <= min_keys,
         NEW t, t = Join(s, p, i), NEW k, NEW v, Told(s, k, v)
  PROVE  Told(t, k, v)
<1> DEFINE f1 == fetch(s, p)
           f2 == fetch(f1, x)
           f3 == fetch(f2, y)
<1>1. t.cuts = f3.cuts /\ Merged(t, s)
  <2>1. Joins(t, s, b, L, p, x, y)
    BY JoinHolds
  <2> QED BY <2>1 DEF Joins
<1>2. Holds(f1, b, None, None, p) /\ SameTree(f1, s) /\ Told(f1, k, v)
  BY FetchHolds, FetchTold
<1> HIDE DEF f1
<1>3. TreeOf(f1, L) /\ Holds(f1, b, p, None, None)
  <2>1. TreeOf(f1, L) /\ Holds(f1, b, None, p, None)
    BY <1>2, SameTreeOf, HoldsAny
  <2> QED BY <2>1, HoldsAny
<1>4. Holds(f2, b, p, None, x) /\ SameTree(f2, f1) /\ Told(f2, k, v)
  BY <1>2, <1>3, FetchHolds, FetchTold
<1> HIDE DEF f2
<1>5. TreeOf(f2, L) /\ Holds(f2, b, p, x, None)
  BY <1>3, <1>4, SameTreeOf, HoldsAny
<1>6. Told(f3, k, v)
  BY <1>4, <1>5, FetchTold
<1> HIDE DEF f3
<1>7. Safe(t, k)
  BY <1>1, <1>6 DEF Told, Safe
<1>8. t.merges # 0
  <2>1. s.merges \in Nat
    BY DEF Holds, States
  <2> QED BY <1>1, <2>1 DEF Merged
<1> QED BY <1>7, <1>8 DEF Told

LEMMA MergeAboveTold ==
  ASSUME NEW s, NEW b, NEW L, NEW p \in PageIds,
         Holds(s, b, None, None, None), TreeOf(s, L), NEW r, r = MergeAbove(s, p),
         NEW k, NEW v, Told(s, k, v)
  PROVE  Told(r.st, k, v)
<1> DEFINE q == s.pages[p].parent
           up == visit(s, q)
<1>1. q = None => r.st = s
  BY DEF MergeAbove, read_node, Settled
<1>2. r.st = s \/ r.st = up
  BY DEF MergeAbove, read_node, Settled
<1>3. CASE q = None
  BY <1>1, <1>3
<1>4. CASE q # None
  <2>1. q \in PageIds
    <3>1. s.pages \in [PageIds -> Nodes]
      BY DEF TreeOf, Tree
    <3> QED BY <1>4, <3>1, NodeFacts DEF PageOrNone
  <2>2. Told(up, k, v)
    BY <2>1, VisitTold
  <2> QED BY <1>2, <2>2
<1> QED BY <1>3, <1>4

LEMMA MergeTold ==
  ASSUME NEW s, NEW b, NEW L, NEW p \in PageIds,
         Holds(s, b, None, None, None), TreeOf(s, L), s.pages[p].node_type # "Leaf",
         NEW i \in 1 .. Len(s.pages[p].children) - 1,
         NEW x \in PageIds, x = s.pages[p].children[i],
         NEW y \in PageIds, y = s.pages[p].children[i + 1],
         NEW c, c = x \/ c = y, Len(s.pages[c].keys) < min_keys,
         Len(s.pages[x].keys) <= min_keys, Len(s.pages[y].keys) <= min_keys,
         NEW r, r = merge_nodes(s, p, i), NEW k, NEW v, Told(s, k, v)
  PROVE  Told(r.st, k, v)
<1> DEFINE j == Join(s, p, i)
           w == visit(j, p)
<1>1. Holds(j, b, None, None, None) /\ TreeOf(j, L) /\ Told(j, k, v)
  <2>1. j = Join(s, p, i)
    OBVIOUS
  <2> HIDE DEF j
  <2>2. Joins(j, s, b, L, p, x, y)
    BY <2>1, JoinHolds
  <2>3. Told(j, k, v)
    BY <2>1, JoinTold, ZenonT(40)
  <2> QED BY <2>2, <2>3 DEF Joins
<1>2. r = MergeAbove(w, p)
  BY DEF merge_nodes
<1> HIDE DEF j
<1>3. Holds(w, b, None, None, None) /\ SameTree(w, j) /\ Told(w, k, v)
  BY <1>1, VisitHolds, VisitTold
<1> HIDE DEF w
<1>4. TreeOf(w, L)
  BY <1>1, <1>3, SameTreeOf
<1> QED BY <1>2, <1>3, <1>4, MergeAboveTold
LEMMA RebalanceOnceTold ==
  ASSUME NEW s, NEW b, NEW L, NEW p \in PageIds,
         Holds(s, b, None, None, None), TreeOf(s, L), s.pages[p].node_type # "Leaf",
         NEW i \in 1 .. Len(s.pages[p].children),
         NEW c, c = s.pages[p].children[i], Len(s.pages[c].keys) < min_keys,
         NEW r, r = RebalanceOnce(s, p, i), NEW k \in Nat, NEW v, Told(s, k, v)
  PROVE  Told(r.st, k, v)
<1> DEFINE parent == s.pages[p]
           n == Len(parent.children)
           x == parent.children[i - 1]
           y == parent.children[i + 1]
           l == IF i > 1 THEN <<x>> ELSE <<>>
           u == IF i < n THEN <<y>> ELSE <<>>
           RichLeft == i > 1 /\ Len(s.pages[x].keys) > min_keys
           RichRight == i < n /\ Len(s.pages[y].keys) > min_keys
           s0 == fetch(fetch(s, p), c)
           s1 == fetch_any(s0, l)
           s2 == fetch_any(release_any(s1, l), u)
           s3 == release_node(release_node(release_any(s2, u), c), p)
           s4 == visit(s3, p)
<1>1. Tree(s.pages, s.next, s.root, L) /\ s.pages \in [PageIds -> Nodes]
  BY DEF TreeOf, Tree
<1>2. n \in Nat /\ n >= 2
  <2>1. Len(parent.keys) \in Nat
    BY <1>1, NodeFacts
  <2>2. Wide(s.pages, s.next, s.root, L, p, parent) /\ Len(parent.keys) >= 1
    BY <1>1, InternalFacts
  <2>3. n = Len(parent.keys) + 1
    BY <2>2 DEF Wide
  <2> HIDE DEF n
  <2> QED BY <2>1, <2>2, <2>3
<1>3. /\ c \in PageIds
      /\ i > 1 => i - 1 \in 1 .. n - 1 /\ x \in PageIds
      /\ i < n => i \in 1 .. n - 1 /\ y \in PageIds
  <2>1. \A q \in 1 .. n : parent.children[q] \in PageIds
    BY <1>1, NodeFacts
  <2>2. i \in 1 .. n
    OBVIOUS
  <2> HIDE DEF n
  <2>3. /\ i > 1 => i - 1 \in 1 .. n - 1 /\ i - 1 \in 1 .. n
        /\ i < n => i \in 1 .. n - 1 /\ i + 1 \in 1 .. n
    BY <1>2, <2>2, SMTT(20)
  <2> QED BY <2>1, <2>2, <2>3
<1>4. r = IF RichLeft THEN Settled(BorrowLeft(s1, p, i))
          ELSE IF RichRight THEN Settled(BorrowRight(s2, p, i))
          ELSE IF i > 1 THEN merge_nodes(s3, p, i - 1)
          ELSE IF n = 1 THEN Settled(s4)
          ELSE merge_nodes(s4, p, i)
  BY Zenon DEF RebalanceOnce, read_node
<1> HIDE DEF s0, s1, s2, s3, s4
<1>5. Holds(s0, b, p, c, None) /\ SameTree(s0, s) /\ Told(s0, k, v)
  <2> DEFINE f == fetch(s, p)
  <2>1. Holds(f, b, None, None, p) /\ SameTree(f, s) /\ Told(f, k, v)
    BY FetchHolds, FetchTold
  <2> HIDE DEF f
  <2>2. Holds(f, b, p, None, None) /\ TreeOf(f, L)
    BY <2>1, HoldsAny, SameTreeOf
  <2>3. Holds(fetch(f, c), b, p, None, c) /\ SameTree(fetch(f, c), f) /\ Told(fetch(f, c), k, v)
    BY <1>3, <2>1, <2>2, FetchHolds, FetchTold
  <2>4. Holds(s0, b, p, None, c) /\ SameTree(s0, f) /\ Told(s0, k, v)
    BY <2>3 DEF s0, f
  <2>5. SameTree(s0, s)
    BY <2>1, <2>4 DEF SameTree
  <2> QED BY <2>4, <2>5, HoldsAny
<1>6. /\ SameTree(s1, s) /\ Told(s1, k, v)
      /\ i > 1 => Holds(s1, b, p, c, x)
      /\ ~(i > 1) => Holds(s1, b, p, c, None)
  <2>1. TreeOf(s0, L)
    BY <1>5, SameTreeOf
  <2>2. CASE i > 1
    <3>1. s1 = fetch(s0, x)
      BY <2>2 DEF s1, fetch_any
    <3>2. Holds(s1, b, p, c, x) /\ SameTree(s1, s0) /\ Told(s1, k, v)
      <4>1. x \in PageIds
        BY <1>3, <2>2
      <4> HIDE DEF x
      <4> QED BY <1>3, <1>5, <2>1, <3>1, <4>1, FetchHolds, FetchTold
    <3> QED BY <1>5, <2>2, <3>2 DEF SameTree
  <2>3. CASE ~(i > 1)
    <3>1. s1 = s0
      BY <2>3 DEF s1, fetch_any
    <3> QED BY <1>5, <2>3, <3>1
  <2> QED BY <2>2, <2>3
<1> DEFINE m == release_any(s1, l)
<1>7. Holds(m, b, p, c, None) /\ SameTree(m, s) /\ Told(m, k, v)
  <2>1. CASE i > 1
    <3>1. m = release_node(s1, x)
      BY <2>1 DEF release_any
    <3>2. Holds(m, b, p, c, None) /\ SameTree(m, s1) /\ Told(m, k, v)
      <4>1. x \in PageIds /\ Holds(s1, b, p, c, x)
        BY <1>3, <1>6, <2>1
      <4> HIDE DEF x, m
      <4> QED BY <1>3, <1>6, <3>1, <4>1, ReleaseHolds, ReleaseTold
    <3> QED BY <1>6, <3>2 DEF SameTree
  <2>2. CASE ~(i > 1)
    <3>1. m = s1
      BY <2>2 DEF release_any
    <3> QED BY <1>6, <2>2, <3>1
  <2> QED BY <2>1, <2>2
<1>8. s2 = fetch_any(m, u)
  BY DEF s2
<1> HIDE DEF m
<1>9. /\ SameTree(s2, s) /\ Told(s2, k, v)
      /\ i < n => Holds(s2, b, p, c, y)
      /\ ~(i < n) => Holds(s2, b, p, c, None)
  <2>1. TreeOf(m, L)
    BY <1>7, SameTreeOf
  <2>2. CASE i < n
    <3>1. s2 = fetch(m, y)
      BY <1>8, <2>2 DEF fetch_any
    <3>2. Holds(s2, b, p, c, y) /\ SameTree(s2, m) /\ Told(s2, k, v)
      <4>1. y \in PageIds
        BY <1>3, <2>2
      <4> HIDE DEF y
      <4> QED BY <1>3, <1>7, <2>1, <3>1, <4>1, FetchHolds, FetchTold
    <3> QED BY <1>7, <2>2, <3>2 DEF SameTree
  <2>3. CASE ~(i < n)
    <3>1. s2 = m
      BY <1>8, <2>3 DEF fetch_any
    <3> QED BY <1>7, <2>3, <3>1
  <2> QED BY <2>2, <2>3
<1> DEFINE w == release_any(s2, u)
<1>10. Holds(w, b, p, c, None) /\ SameTree(w, s) /\ Told(w, k, v)
  <2>1. CASE i < n
    <3>1. w = release_node(s2, y)
      BY <2>1 DEF release_any
    <3>2. Holds(w, b, p, c, None) /\ SameTree(w, s2) /\ Told(w, k, v)
      <4>1. y \in PageIds /\ Holds(s2, b, p, c, y)
        BY <1>3, <1>9, <2>1
      <4> HIDE DEF y, w
      <4> QED BY <1>3, <1>9, <3>1, <4>1, ReleaseHolds, ReleaseTold
    <3> QED BY <1>9, <3>2 DEF SameTree
  <2>2. CASE ~(i < n)
    <3>1. w = s2
      BY <2>2 DEF release_any
    <3> QED BY <1>9, <2>2, <3>1
  <2> QED BY <2>1, <2>2
<1>11. s3 = release_node(release_node(w, c), p)
  BY DEF s3
<1> HIDE DEF w
<1>12. Holds(s3, b, None, None, None) /\ SameTree(s3, s) /\ Told(s3, k, v)
  <2> DEFINE d == release_node(w, c)
  <2>1. Holds(w, b, p, None, c)
    BY <1>10, HoldsAny
  <2>2. Holds(d, b, p, None, None) /\ SameTree(d, w) /\ Told(d, k, v)
    BY <1>3, <1>10, <2>1, ReleaseHolds, ReleaseTold
  <2>3. s3 = release_node(d, p)
    BY <1>11
  <2> HIDE DEF d
  <2>4. Holds(d, b, None, None, p)
    BY <2>2, HoldsAny
  <2>5. Holds(s3, b, None, None, None) /\ SameTree(s3, d) /\ Told(s3, k, v)
    BY <2>2, <2>3, <2>4, ReleaseHolds, ReleaseTold
  <2> QED BY <1>10, <2>2, <2>5 DEF SameTree
<1>13. TreeOf(s1, L) /\ TreeOf(s2, L) /\ TreeOf(s3, L)
  BY <1>6, <1>9, <1>12, SameTreeOf
<1>14. Holds(s4, b, None, None, None) /\ SameTree(s4, s) /\ Told(s4, k, v)
  <2>1. Holds(s4, b, None, None, None) /\ SameTree(s4, s3) /\ Told(s4, k, v)
    BY <1>12, <1>13, VisitHolds, VisitTold DEF s4
  <2> QED BY <1>12, <2>1 DEF SameTree
<1>15. TreeOf(s4, L)
  BY <1>14, SameTreeOf
<1>16. s1.pages = s.pages /\ s2.pages = s.pages /\ s3.pages = s.pages /\ s4.pages = s.pages
  BY <1>6, <1>9, <1>12, <1>14 DEF SameTree
<1>17. CASE RichLeft
  <2> DEFINE t == BorrowLeft(s1, p, i)
  <2>1. i \in 2 .. n /\ Holds(s1, b, p, c, x)
    BY <1>2, <1>6, <1>17
  <2>2. Told(t, k, v)
    <3>1. t = BorrowLeft(s1, p, i)
      OBVIOUS
    <3> HIDE DEF t
    <3>2. /\ s1.pages[p].node_type # "Leaf" /\ i \in 2 .. Len(s1.pages[p].children)
          /\ c = s1.pages[p].children[i] /\ x = s1.pages[p].children[i - 1]
          /\ Len(s1.pages[c].keys) < min_keys /\ Len(s1.pages[x].keys) > min_keys
      BY <1>16, <1>17, <2>1
    <3>3. x \in PageIds
      BY <1>3, <2>1
    <3> HIDE DEF x
    <3> QED BY <1>3, <1>6, <1>13, <2>1, <3>1, <3>2, <3>3, BorrowLeftTold
  <2>3. r = Settled(t)
    BY <1>4, <1>17
  <2> HIDE DEF t
  <2> QED BY <2>2, <2>3 DEF Settled
<1>18. CASE ~RichLeft /\ RichRight
  <2> DEFINE t == BorrowRight(s2, p, i)
  <2>1. i \in 1 .. n - 1 /\ Holds(s2, b, p, c, y)
    BY <1>2, <1>9, <1>18
  <2>2. Told(t, k, v)
    <3>1. t = BorrowRight(s2, p, i)
      OBVIOUS
    <3> HIDE DEF t
    <3>2. /\ s2.pages[p].node_type # "Leaf" /\ i \in 1 .. Len(s2.pages[p].children) - 1
          /\ c = s2.pages[p].children[i] /\ y = s2.pages[p].children[i + 1]
          /\ Len(s2.pages[c].keys) < min_keys /\ Len(s2.pages[y].keys) > min_keys
      BY <1>16, <1>18, <2>1
    <3>3. y \in PageIds
      BY <1>3, <1>18, SMTT(20)
    <3> HIDE DEF y
    <3> QED BY <1>3, <1>9, <1>13, <2>1, <3>1, <3>2, <3>3, BorrowRightTold
  <2>3. r = Settled(t)
    BY <1>4, <1>18, SMTT(20)
  <2> HIDE DEF t
  <2> QED BY <2>2, <2>3 DEF Settled
<1>19. CASE ~RichLeft /\ ~RichRight /\ i > 1
  <2> DEFINE h == i - 1
  <2>1. r = merge_nodes(s3, p, h)
    BY <1>4, <1>19
  <2>2. h \in 1 .. n - 1 /\ h + 1 = i /\ x = parent.children[h] /\ c = parent.children[h + 1]
    BY <1>2, <1>3, <1>19
  <2>3. Len(s.pages[x].keys) <= min_keys /\ Len(s.pages[c].keys) <= min_keys
    <3>1. Len(s.pages[x].keys) \in Nat /\ Len(s.pages[c].keys) \in Nat /\ min_keys \in Nat
      BY <1>1, <1>3, <1>19, NodeFacts, PageFacts
    <3> HIDE DEF x
    <3> QED BY <1>19, <3>1
  <2>5. x \in PageIds
    BY <1>3, <1>19
  <2> HIDE DEF h, x
  <2>4. /\ s3.pages[p].node_type # "Leaf" /\ h \in 1 .. Len(s3.pages[p].children) - 1
        /\ x = s3.pages[p].children[h] /\ c = s3.pages[p].children[h + 1]
        /\ Len(s3.pages[c].keys) < min_keys
        /\ Len(s3.pages[x].keys) <= min_keys /\ Len(s3.pages[c].keys) <= min_keys
    BY <1>16, <2>2, <2>3
  <2> QED BY <1>3, <1>12, <1>13, <1>19, <2>1, <2>4, <2>5, MergeTold
<1>20. CASE ~RichLeft /\ ~RichRight /\ ~(i > 1)
  <2>1. i < n /\ n # 1
    BY <1>2, <1>20
  <2>2. r = merge_nodes(s4, p, i)
    BY <1>4, <1>20, <2>1
  <2>3. Len(s.pages[y].keys) <= min_keys /\ Len(s.pages[c].keys) <= min_keys
    <3>1. Len(s.pages[y].keys) \in Nat /\ Len(s.pages[c].keys) \in Nat /\ min_keys \in Nat
      BY <1>1, <1>3, <2>1, NodeFacts, PageFacts
    <3> HIDE DEF y
    <3> QED BY <1>20, <2>1, <3>1
  <2>4. y = parent.children[i + 1]
    OBVIOUS
  <2>6. y \in PageIds
    BY <1>3, <2>1
  <2> HIDE DEF y
  <2>5. /\ s4.pages[p].node_type # "Leaf" /\ i \in 1 .. Len(s4.pages[p].children) - 1
        /\ c = s4.pages[p].children[i] /\ y = s4.pages[p].children[i + 1]
        /\ Len(s4.pages[c].keys) < min_keys
        /\ Len(s4.pages[c].keys) <= min_keys /\ Len(s4.pages[y].keys) <= min_keys
    BY <1>3, <1>16, <2>1, <2>3, <2>4
  <2> QED BY <1>3, <1>14, <1>15, <2>2, <2>5, <2>6, MergeTold, ZenonT(40)
<1> QED BY <1>17, <1>18, <1>19, <1>20

LEMMA RebalanceTold ==
  ASSUME NEW s, NEW b, NEW L, NEW p \in PageIds,
         Holds(s, b, None, None, None), TreeOf(s, L), s.pages[p].node_type # "Leaf",
         NEW i \in 1 .. Len(s.pages[p].children),
         NEW c, c = s.pages[p].children[i], Len(s.pages[c].keys) < min_keys,
         NEW t, t = rebalance(s, p, i), NEW k \in Nat, NEW v, Told(s, k, v)
  PROVE  Told(t, k, v)
<1> DEFINE r == RebalanceOnce(s, p, i)
<1>1. Told(r.st, k, v)
  <2>1. r = RebalanceOnce(s, p, i)
    OBVIOUS
  <2> HIDE DEF r
  <2> QED BY <2>1, RebalanceOnceTold
<1>2. t = r.st
  BY RebalanceStops
<1> QED BY <1>1, <1>2

LEMMA UnderflowTold ==
  ASSUME NEW s, NEW b, NEW L, NEW p \in PageIds,
         Holds(s, b, None, None, None), TreeOf(s, L), s.pages[p].node_type # "Leaf",
         NEW t, t = handle_underflow(s, p), NEW k \in Nat, NEW v, Told(s, k, v)
  PROVE  Told(t, k, v)
<1> DEFINE children == s.pages[p].children
           short == {i \in DOMAIN children :
                       /\ s.pages[children[i]].parent # None
                       /\ Len(s.pages[children[i]].keys) < min_keys}
           Seen(n) == release_node(visit_each(fetch(s, p), SubSeq(children, 1, n)), p)
<1>1. s.pages \in [PageIds -> Nodes]
  BY DEF TreeOf, Tree
<1>2. /\ children \in Seq(PageIds) /\ Len(children) \in Nat /\ DOMAIN children = 1 .. Len(children)
      /\ \A i \in 1 .. Len(children) : children[i] \in PageIds
  BY <1>1, NodeFacts, SMTT(20)
<1>3. t = IF short = {} THEN Seen(Len(children))
          ELSE rebalance(Seen(First(short)), p, First(short))
  BY Zenon DEF handle_underflow, read_node
<1>4. ASSUME NEW n \in 0 .. Len(children)
      PROVE  /\ Holds(Seen(n), b, None, None, None) /\ SameTree(Seen(n), s)
             /\ Told(Seen(n), k, v)
  <2> DEFINE f == fetch(s, p)
             ps == SubSeq(children, 1, n)
             w == visit_each(f, ps)
  <2>1. Holds(f, b, None, None, p) /\ SameTree(f, s) /\ Told(f, k, v)
    BY FetchHolds, FetchTold
  <2>2. Holds(f, b, p, None, None) /\ TreeOf(f, L)
    BY <2>1, HoldsAny, SameTreeOf
  <2>3. ps \in Seq(PageIds)
    BY <1>2, SubSeqProperties
  <2> HIDE DEF f, ps
  <2>4. Holds(w, b, p, None, None) /\ SameTree(w, f) /\ Told(w, k, v)
    <3>1. Holds(w, b, p, None, None) /\ SameTree(w, f)
      BY <2>2, <2>3, VisitEachHolds
    <3>2. p \in PageOrNone /\ None \in PageOrNone
      BY DEF PageOrNone
    <3>3. Told(w, k, v)
      BY <2>1, <2>2, <2>3, <3>2, VisitEachTold
    <3> QED BY <3>1, <3>3
  <2>5. Seen(n) = release_node(w, p)
    BY DEF f, ps
  <2> HIDE DEF w, Seen
  <2>6. Holds(w, b, None, None, p)
    <3>1. Holds(w, b, None, p, None)
      BY <2>4, HoldsAny
    <3> QED BY <3>1, HoldsAny
  <2>7. Holds(Seen(n), b, None, None, None) /\ SameTree(Seen(n), w) /\ Told(Seen(n), k, v)
    BY <2>4, <2>5, <2>6, ReleaseHolds, ReleaseTold
  <2>8. SameTree(Seen(n), s)
    BY <2>1, <2>4, <2>7, SMTT(20) DEF SameTree
  <2> QED BY <2>7, <2>8
<1> HIDE DEF Seen
<1>5. CASE short = {}
  BY <1>2, <1>3, <1>4, <1>5
<1>6. CASE short # {}
  <2> DEFINE i == First(short)
             c == children[i]
             m == Seen(i)
  <2>1. i \in short
    <3>1. short \in SUBSET Nat
      BY <1>2, SMTT(20)
    <3> HIDE DEF short
    <3> QED BY <1>6, <3>1, FirstSpec
  <2>2. i \in 1 .. Len(children) /\ Len(s.pages[c].keys) < min_keys
    BY <1>2, <2>1, ZenonT(40)
  <2>3. t = rebalance(m, p, i)
    BY <1>3, <1>6, Zenon
  <2> HIDE DEF i
  <2>4. Holds(m, b, None, None, None) /\ SameTree(m, s) /\ Told(m, k, v)
    BY <1>2, <1>4, <2>2
  <2> HIDE DEF m
  <2>5. TreeOf(m, L) /\ m.pages = s.pages
    BY <2>4, SameTreeOf DEF SameTree
  <2>6. /\ m.pages[p].node_type # "Leaf" /\ i \in 1 .. Len(m.pages[p].children)
        /\ c = m.pages[p].children[i] /\ Len(m.pages[c].keys) < min_keys
    BY <2>2, <2>5
  <2> HIDE DEF c
  <2> QED BY <2>3, <2>4, <2>5, <2>6, RebalanceTold
<1> QED BY <1>5, <1>6

\* What is left of an entry that was taken out of a leaf: nothing.
LEMMA EntryTaken ==
  ASSUME NEW node, LeafNode(node), Increasing(node.keys),
         NEW i \in 1 .. Len(node.keys), NEW k, node.keys[i] = k,
         NEW fewer, RemovedAt(fewer.keys, node.keys, i), RemovedAt(fewer.values, node.values, i)
  PROVE  /\ Increasing(fewer.keys)
         /\ \A X : (\A j \in 1 .. Len(node.keys) : node.keys[j] \in X)
                     => \A j \in 1 .. Len(fewer.keys) : fewer.keys[j] \in X
         /\ Finds(fewer, k, None)
         /\ \A j, w : j # k /\ Finds(node, j, w) => Finds(fewer, j, w)
<1> DEFINE ks == node.keys
           vs == node.values
           n == Len(ks)
           At(j) == IF j < i THEN j ELSE j + 1
<1>1. /\ n \in Nat /\ Len(vs) = n /\ \A j \in 1 .. n : ks[j] \in Nat
      /\ Len(fewer.keys) = n - 1 /\ Len(fewer.values) = n - 1
      /\ i \in 1 .. n
      /\ \A j \in 1 .. n - 1 : /\ fewer.keys[j] = IF j < i THEN ks[j] ELSE ks[j + 1]
                               /\ fewer.values[j] = IF j < i THEN vs[j] ELSE vs[j + 1]
  <2>1. ks \in Seq(Nat) /\ Len(vs) = n
    BY DEF LeafNode, Nodes
  <2>2. RemovedAt(fewer.keys, ks, i) /\ RemovedAt(fewer.values, vs, i) /\ i \in 1 .. n
    OBVIOUS
  <2>3. Len(ks) \in Nat /\ \A j \in 1 .. Len(ks) : ks[j] \in Nat
    BY <2>1
  <2> HIDE DEF ks, vs
  <2>4. /\ Len(fewer.keys) = Len(ks) - 1
        /\ \A j \in 1 .. Len(ks) - 1 : fewer.keys[j] = IF j < i THEN ks[j] ELSE ks[j + 1]
    BY ONLY <2>2 DEF RemovedAt
  <2>5. /\ Len(fewer.values) = Len(vs) - 1
        /\ \A j \in 1 .. Len(vs) - 1 : fewer.values[j] = IF j < i THEN vs[j] ELSE vs[j + 1]
    BY ONLY <2>2 DEF RemovedAt
  <2> HIDE DEF n
  <2>6. n = Len(ks) /\ Len(vs) = n
    BY <2>1 DEF n
  <2> QED BY ONLY <2>2, <2>3, <2>4, <2>5, <2>6
<1> HIDE DEF ks, vs, n
<1>2. \A j \in 1 .. n - 1 : /\ At(j) \in 1 .. n /\ At(j) # i
                            /\ fewer.keys[j] = ks[At(j)] /\ fewer.values[j] = vs[At(j)]
  BY <1>1
<1>3. \A j \in 1 .. n : j # i => \E h \in 1 .. n - 1 : At(h) = j
  <2> TAKE j \in 1 .. n
  <2> HAVE j # i
  <2>1. CASE j < i
    <3>1. j \in 1 .. n - 1 /\ At(j) = j
      BY <1>1, <2>1
    <3> QED BY <3>1
  <2>2. CASE i < j
    <3>1. j - 1 \in 1 .. n - 1 /\ ~(j - 1 < i) /\ At(j - 1) = j
      BY <1>1, <2>2
    <3> QED BY <3>1
  <2> QED BY <1>1, <2>1, <2>2
<1>4. \A j, h \in 1 .. n - 1 : j < h => At(j) < At(h)
  BY <1>1
<1> HIDE DEF At
<1>5. \A j, h \in 1 .. n : j < h => ks[j] < ks[h]
  BY DEF Increasing, ks, n
<1>6. \A j, h \in 1 .. Len(fewer.keys) : j < h => fewer.keys[j] < fewer.keys[h]
  <2> TAKE j, h \in 1 .. Len(fewer.keys)
  <2> HAVE j < h
  <2>1. j \in 1 .. n - 1 /\ h \in 1 .. n - 1
    BY <1>1
  <2>2. At(j) \in 1 .. n /\ At(h) \in 1 .. n /\ At(j) < At(h)
    BY <1>2, <1>4, <2>1
  <2>3. ks[At(j)] < ks[At(h)]
    BY <1>5, <2>2
  <2> QED BY <1>2, <2>1, <2>3
<1>7. \A j \in 1 .. n : j # i => ks[j] # k
  <2> TAKE j \in 1 .. n
  <2> HAVE j # i
  <2>1. i \in 1 .. n /\ (j < i \/ i < j) /\ ks[i] = k /\ ks[i] \in Nat /\ ks[j] \in Nat
    BY <1>1 DEF ks, n
  <2> QED BY <1>5, <2>1
<1>8. Finds(fewer, k, None)
  BY <1>1, <1>2, <1>7, SMTT(20) DEF Finds
<1>9. ASSUME NEW j, NEW w, j # k, Finds(node, j, w) PROVE Finds(fewer, j, w)
  <2>1. CASE \E h \in 1 .. n : ks[h] = j /\ vs[h] = w
    <3>1. PICK h \in 1 .. n : ks[h] = j /\ vs[h] = w
      BY <2>1
    <3>2. h # i
      BY <1>9, <3>1 DEF ks
    <3>3. PICK g \in 1 .. n - 1 : At(g) = h
      BY <1>3, <3>2
    <3>4. fewer.keys[g] = j /\ fewer.values[g] = w
      BY <1>2, <3>1, <3>3
    <3> QED BY <1>1, <3>4 DEF Finds
  <2>2. CASE w = None /\ \A h \in 1 .. n : ks[h] # j
    BY <1>1, <1>2, <2>2 DEF Finds
  <2> QED BY <1>9, <2>1, <2>2 DEF Finds, ks, vs, n
<1>10. ASSUME NEW X, \A j \in 1 .. Len(node.keys) : node.keys[j] \in X
       PROVE  \A j \in 1 .. Len(fewer.keys) : fewer.keys[j] \in X
  BY <1>1, <1>2, <1>10 DEF ks, n
<1> QED BY <1>6, <1>8, <1>9, <1>10 DEF Increasing

\* The state a call to remove begins with: nothing is known of its own key.
Heard(s, k) ==
  /\ Safe(s, k)
  /\ s.merges = 0 => \E M, E : /\ TreeOf(s, M)
                               /\ Routes(s.pages, s.next, s.root, M, E, E)
                               /\ AllTell(s.pages, s.root, E, k)

\* Page p is where k belongs.
Owns(s, p, k) ==
  \A M, E : TreeOf(s, M) /\ Routes(s.pages, s.next, s.root, M, E, E) => k \in E[p]

LEMMA HeardReady ==
  ASSUME NEW s, NEW k, Heard(s, k)
  PROVE  Ready(s, k)
BY DEF Heard, Ready, Found, TreeOf

LEMMA HeardSame ==
  ASSUME NEW s, NEW t, NEW k, Heard(s, k), SameTree(t, s), Ready(t, k)
  PROVE  Heard(t, k)
BY DEF Heard, Ready, SameTree, TreeOf

\* A key can be in no other leaf.
LEMMA OnlyLeafTells ==
  ASSUME NEW pg, NEW nx, NEW rt, NEW L, Tree(pg, nx, rt, L), rt # None,
         NEW E, Routes(pg, nx, rt, L, E, E),
         NEW p \in PageIds, pg[p].node_type = "Leaf", NEW j, j \in E[p],
         NEW v, Finds(pg[p], j, v)
  PROVE  Tells(pg, rt, E, j, v)
<1>1. ASSUME NEW q \in PageIds, q # p, pg[q].node_type = "Leaf" PROVE j \notin E[q]
  <2>1. L[q] = 0 /\ L[p] = 0
    BY <1>1, LeafFacts
  <2> QED BY <1>1, <2>1 DEF Routes, Disjoint
<1> QED BY <1>1 DEF Tells

LEMMA EntryGone ==
  ASSUME NEW s, NEW M, TreeOf(s, M), s.root # None, NEW p \in PageIds,
         s.pages[p].node_type = "Leaf",
         NEW E, Routes(s.pages, s.next, s.root, M, E, E), NEW k, k \in E[p],
         NEW i \in 1 .. Len(s.pages[p].keys), s.pages[p].keys[i] = k,
         NEW fewer, LeafNode(fewer), RemovedAt(fewer.keys, s.pages[p].keys, i),
         RemovedAt(fewer.values, s.pages[p].values, i),
         NEW pg2, Wrote(pg2, s.pages, p, fewer), AllTell(s.pages, s.root, E, k)
  PROVE  /\ Routes(pg2, s.next, s.root, M, E, E)
         /\ AllTell(pg2, s.root, E, k)
         /\ Tells(pg2, s.root, E, k, None)
<1> DEFINE node == s.pages[p]
<1>1. Tree(s.pages, s.next, s.root, M) /\ LeafNode(node)
  <2>1. Tree(s.pages, s.next, s.root, M)
    BY DEF TreeOf
  <2> QED BY <2>1, LeafFacts
<1>2. Increasing(node.keys) /\ \A j \in 1 .. Len(node.keys) : node.keys[j] \in E[p]
  <2>1. RouteAt(s.pages, E, E, p)
    BY DEF Routes
  <2> QED BY <2>1 DEF RouteAt
<1>3. /\ Increasing(fewer.keys) /\ \A j \in 1 .. Len(fewer.keys) : fewer.keys[j] \in E[p]
      /\ Finds(fewer, k, None)
      /\ \A j, w : j # k /\ Finds(node, j, w) => Finds(fewer, j, w)
  <2> HIDE DEF node
  <2>1. RemovedAt(fewer.keys, node.keys, i) /\ RemovedAt(fewer.values, node.values, i)
        /\ i \in 1 .. Len(node.keys) /\ node.keys[i] = k
    BY DEF node
  <2>2. Increasing(fewer.keys)
    BY <1>1, <1>2, <2>1, EntryTaken
  <2>3. \A j \in 1 .. Len(fewer.keys) : fewer.keys[j] \in E[p]
    BY <1>1, <1>2, <2>1, EntryTaken
  <2>4. Finds(fewer, k, None) /\ \A j, w : j # k /\ Finds(node, j, w) => Finds(fewer, j, w)
    BY <1>1, <1>2, <2>1, EntryTaken
  <2> QED BY <2>2, <2>3, <2>4
<1>4. Routes(pg2, s.next, s.root, M, E, E)
  BY <1>1, <1>3, LeafRouted
<1>5. Tells(pg2, s.root, E, k, None)
  BY <1>1, <1>3, LeafRouted
<1>6. ASSUME NEW j \in Others(k) PROVE Tells(pg2, s.root, E, j, contents[j])
  <2> DEFINE w == contents[j]
  <2>1. j # k /\ Tells(s.pages, s.root, E, j, w)
    BY DEF Others, AllTell
  <2> HIDE DEF w
  <2>2. Finds(s.pages[p], j, w) => Finds(fewer, j, w)
    BY <1>3, <2>1
  <2>3. Tells(pg2, s.root, E, j, w)
    BY <1>1, <1>3, <2>1, <2>2, LeafRouted
  <2> QED BY <2>3 DEF w
<1> QED BY <1>4, <1>5, <1>6 DEF AllTell

LEMMA TakeFromLeafTold ==
  ASSUME NEW s, NEW b, NEW L, NEW p \in PageIds,
         Holds(s, b, None, None, None), TreeOf(s, L), s.root # None, p < s.next,
         s.pages[p].node_type = "Leaf", NEW k \in Nat, Heard(s, k), Owns(s, p, k),
         NEW r, r = TakeFromLeaf(s, p, k)
  PROVE  Told(r.st, k, None)
<1> DEFINE node == s.pages[p]
           hits == PositionsOf(node.keys, k)
           i == First(hits)
           ks == RemoveAt(node.keys, i)
           vs == RemoveAt(node.values, i)
           fewer == [node EXCEPT !.keys = ks, !.values = vs]
           f == fetch(s, p)
           t == Done(f, p, fewer)
<1>1. Tree(s.pages, s.next, s.root, L) /\ s.pages \in [PageIds -> Nodes]
  BY DEF TreeOf, Tree
<1>2. /\ node \in Nodes /\ LeafNode(node)
      /\ node.keys \in Seq(Nat) /\ node.values \in Seq(Nat) /\ Len(node.keys) \in Nat
      /\ Len(node.values) = Len(node.keys) /\ DOMAIN node.keys = 1 .. Len(node.keys)
  BY <1>1, LeafFacts, NodeFacts DEF LeafNode, Nodes
<1>3. CASE hits = {}
  <2> DEFINE u == visit(s, p)
  <2>1. r.st = u
    BY <1>3 DEF TakeFromLeaf, read_node
  <2>2. SameTree(u, s) /\ Ready(u, k)
    BY HeardReady, VisitHolds, VisitReady
  <2> HIDE DEF u
  <2>3. Finds(node, k, None)
    BY <1>2, <1>3 DEF Finds, PositionsOf
  <2>4. Told(s, k, None)
    <3>1. ASSUME s.merges = 0
          PROVE \E M, D : /\ TreeOf(s, M)
                          /\ Routes(s.pages, s.next, s.root, M, D, D)
                          /\ AllTell(s.pages, s.root, D, k)
                          /\ Tells(s.pages, s.root, D, k, None)
      <4>1. PICK M, E : /\ TreeOf(s, M)
                        /\ Routes(s.pages, s.next, s.root, M, E, E)
                        /\ AllTell(s.pages, s.root, E, k)
        BY <3>1 DEF Heard
      <4>2. k \in E[p] /\ Tree(s.pages, s.next, s.root, M)
        BY <4>1 DEF Owns, TreeOf
      <4>3. Tells(s.pages, s.root, E, k, None)
        BY <2>3, <4>1, <4>2, OnlyLeafTells
      <4> QED BY <4>1, <4>3
    <3> QED BY <3>1 DEF Told, Heard
  <2> QED BY <2>1, <2>2, <2>4, ToldSame
<1>4. CASE hits # {}
  <2>1. i \in 1 .. Len(node.keys) /\ i \in 1 .. Len(node.values) /\ node.keys[i] = k
    <3>2. hits \in SUBSET Nat /\ hits \subseteq 1 .. Len(node.keys)
      BY <1>2 DEF PositionsOf
    <3>3. i \in hits
      <4> HIDE DEF hits
      <4> QED BY <1>4, <3>2, FirstSpec
    <3> QED BY <1>2, <3>2, <3>3 DEF PositionsOf
  <2>2. r.st = t
    BY <1>4 DEF TakeFromLeaf, read_node
  <2> HIDE DEF i
  <2>3. /\ ks \in Seq(Nat) /\ Len(ks) = Len(node.keys) - 1
        /\ vs \in Seq(Nat) /\ Len(vs) = Len(ks)
        /\ RemovedAt(ks, node.keys, i) /\ RemovedAt(vs, node.values, i)
    <3>1. ks \in Seq(Nat) /\ RemovedAt(ks, node.keys, i)
      BY <1>2, <2>1, RemoveAtSpec
    <3>2. vs \in Seq(Nat) /\ RemovedAt(vs, node.values, i)
      BY <1>2, <2>1, RemoveAtSpec
    <3> QED BY <1>2, <3>1, <3>2 DEF RemovedAt
  <2> HIDE DEF ks, vs
  <2>4. LeafWith(fewer, node, Len(ks)) /\ fewer.keys = ks /\ fewer.values = vs
    <3>1. fewer = [node EXCEPT !.keys = ks, !.values = vs]
      OBVIOUS
    <3>2. fewer.keys = ks /\ fewer.values = vs
      BY <1>2 DEF Nodes
    <3> HIDE DEF fewer, node
    <3> QED BY <1>2, <2>3, <3>1, <3>2, LeafMade
  <2> HIDE DEF fewer
  <2>5. LeafNode(fewer) /\ fewer \in Nodes /\ deserialize(fewer) = fewer
    <3>1. LeafNode(fewer) /\ fewer \in Nodes /\ Whole(fewer)
      BY <2>4 DEF LeafWith, LeafNode, Whole
    <3> QED BY <3>1, ReadsBack
  <2>6. Holds(f, b, None, None, p) /\ SameTree(f, s) /\ Ready(f, k)
    BY HeardReady, FetchHolds, FetchReady
  <2> HIDE DEF f
  <2>7. t = Done(f, p, fewer)
    OBVIOUS
  <2> HIDE DEF t
  <2>8. t.cuts = f.cuts
    BY <2>5, <2>6, <2>7, DoneCuts
  <2>9. Wrote(t.pages, s.pages, p, fewer)
    <3>1. Wrote(t.pages, f.pages, p, fewer)
      BY <2>5, <2>6, <2>7, DoneHolds
    <3> QED BY <2>6, <3>1 DEF SameTree
  <2>10. SameRoot(t, s)
    <3>1. SameRoot(t, f)
      BY <2>5, <2>6, <2>7, DoneHolds
    <3> QED BY <2>6, <3>1 DEF SameTree, SameRoot
  <2>11. Safe(t, k)
    BY <2>6, <2>8 DEF Ready, Safe
  <2>12. ASSUME t.merges = 0
         PROVE \E M, D : /\ TreeOf(t, M)
                         /\ Routes(t.pages, t.next, t.root, M, D, D)
                         /\ AllTell(t.pages, t.root, D, k)
                         /\ Tells(t.pages, t.root, D, k, None)
    <3>1. s.merges = 0 /\ t.next = s.next /\ t.root = s.root
      BY <2>10, <2>12 DEF SameRoot
    <3>2. PICK M, E : /\ TreeOf(s, M)
                      /\ Routes(s.pages, s.next, s.root, M, E, E)
                      /\ AllTell(s.pages, s.root, E, k)
      BY <3>1 DEF Heard
    <3>3. k \in E[p]
      BY <3>2 DEF Owns
    <3>4. RemovedAt(fewer.keys, s.pages[p].keys, i) /\ RemovedAt(fewer.values, s.pages[p].values, i)
          /\ i \in 1 .. Len(s.pages[p].keys) /\ s.pages[p].keys[i] = k
      BY <2>1, <2>3, <2>4
    <3>5. /\ Routes(t.pages, s.next, s.root, M, E, E)
          /\ AllTell(t.pages, s.root, E, k)
          /\ Tells(t.pages, s.root, E, k, None)
      BY <2>5, <2>9, <3>2, <3>3, <3>4, EntryGone
    <3>6. TreeOf(t, M)
      <4>1. Taken(r, s, b, M, p)
        BY <3>2, TakeFromLeafHolds
      <4> QED BY <2>2, <4>1 DEF Taken
    <3> QED BY <3>1, <3>5, <3>6
  <2> QED BY <2>2, <2>11, <2>12 DEF Told
<1> QED BY <1>3, <1>4

\* A removal in between two pages of its way back.
Goes(r, b, L) == Result(r) /\ Holds(r.st, b, None, None, None) /\ TreeOf(r.st, L)

LEMMA RepairedTold ==
  ASSUME NEW r, NEW b, NEW L, Goes(r, b, L), NEW p \in PageIds, 0 < L[p],
         NEW k \in Nat, NEW v, Told(r.st, k, v), NEW u, u = Repaired(r, p)
  PROVE  Goes(u, b, L) /\ Told(u.st, k, v)
<1> DEFINE t == r.st
           m == handle_underflow(t, p)
<1>1. Result(r) /\ Holds(t, b, None, None, None) /\ TreeOf(t, L) /\ t.merges \in Nat
  BY DEF Goes, Holds, States
<1>2. t.pages[p].node_type # "Leaf"
  <2>1. Tree(t.pages, t.next, t.root, L) /\ L[p] # 0
    BY <1>1 DEF TreeOf
  <2> QED BY <2>1, LeafFacts
<1>3. Result(u) /\ u.st = IF r.removed THEN m ELSE t
  BY <1>1, RepairedResult
<1>4. Told(m, k, v)
  <2>1. m = handle_underflow(t, p)
    OBVIOUS
  <2>2. Told(t, k, v)
    OBVIOUS
  <2> HIDE DEF m, t
  <2> QED BY <1>1, <1>2, <2>1, <2>2, UnderflowTold
<1>5. Told(u.st, k, v)
  BY <1>3, <1>4
<1>6. Trimmed(r.st, t, b, L)
  <2>1. t.merges >= t.merges
    BY <1>1
  <2> QED BY <1>1, <2>1 DEF Trimmed
<1> HIDE DEF t
<1>7. Trimmed(u.st, t, b, L)
  BY <1>1, <1>2, <1>6, RepairedAbove
<1> QED BY <1>3, <1>5, <1>7 DEF Goes, Trimmed

LEMMA RemoveRecursiveTold ==
  ASSUME NEW s, NEW b, NEW L, Holds(s, b, None, None, None), TreeOf(s, L),
         NEW root \in PageIds, root = s.root, NEW k \in Nat, Heard(s, k),
         NEW r, r = remove_recursive(s, root, k)
  PROVE  Told(r.st, k, None)
<1> DEFINE path == Path(s, root, k)
           leaf == path[Len(path)]
           h == Len(path) - 1
           m == visit_each(s, Front(path))
           f == CHOOSE f : f = [n \in 0 .. h |->
                  IF n = 0 THEN TakeFromLeaf(visit_each(s, Front(path)), Last(path), k)
                  ELSE Repaired(f[n - 1], path[h + 1 - n])]
           Good(n) == Goes(f[n], b, L) /\ Told(f[n].st, k, None)
           T == {n \in 0 .. h : Good(n)}
<1>1. root < s.next /\ s.merges \in Nat
  <2>1. RootOK(s.pages, s.next, s.root) /\ s.root # None
    BY PageFacts DEF TreeOf, Tree
  <2> QED BY <2>1 DEF RootOK, Holds, States
<1>2. /\ Descends(path, s, L, root)
      /\ Len(path) = L[root] + 1
      /\ s.pages[leaf].node_type = "Leaf"
  <2>1. path = Path(s, root, k)
    OBVIOUS
  <2> HIDE DEF path
  <2> QED BY <1>1, <2>1, PathDescends
<1>3. /\ path \in Seq(PageIds) /\ Len(path) \in Nat /\ Len(path) >= 1
      /\ path[1] = root /\ Last(path) = leaf /\ leaf \in PageIds /\ leaf < s.next
      /\ Front(path) \in Seq(PageIds)
  <2> HIDE DEF path
  <2>1. path \in Seq(PageIds) /\ Len(path) \in Nat /\ Len(path) >= 1 /\ path[1] = root
    BY <1>2 DEF Descends
  <2>2. Last(path) = leaf /\ leaf \in PageIds
    BY <2>1, LastOf
  <2>3. leaf < s.next
    BY <1>2, <2>1 DEF Descends
  <2> QED BY <2>1, <2>2, <2>3, FrontOf
<1>13. Owns(s, leaf, k)
  <2>1. ASSUME NEW M, NEW E, TreeOf(s, M), Routes(s.pages, s.next, s.root, M, E, E)
        PROVE  k \in E[leaf]
    <3>1. path = Path(s, root, k)
      OBVIOUS
    <3> HIDE DEF path
    <3> QED BY <1>1, <2>1, <3>1, PathOwns
  <2> QED BY <2>1 DEF Owns
<1>6. r = f[h]
  BY DEF remove_recursive
<1> HIDE DEF path
<1>4. /\ h \in Nat /\ h + 1 = Len(path)
      /\ \A n \in 1 .. h : /\ h + 1 - n \in 1 .. Len(path) - 1 /\ h + 1 - n \in 1 .. Len(path)
                           /\ h + 1 - n + 1 = Len(path) \/ n # 1
  BY <1>3
<1>5. Holds(m, b, None, None, None) /\ SameTree(m, s) /\ TreeOf(m, L) /\ Heard(m, k)
  <2> DEFINE front == Front(path)
  <2>0. front \in Seq(PageIds)
    BY <1>3
  <2> HIDE DEF front
  <2>1. Holds(visit_each(s, front), b, None, None, None) /\ SameTree(visit_each(s, front), s)
    BY <2>0, VisitEachHolds
  <2>2. Ready(visit_each(s, front), k)
    BY <2>0, HeardReady, VisitEachReady
  <2>3. Holds(m, b, None, None, None) /\ SameTree(m, s) /\ Ready(m, k)
    BY <2>1, <2>2 DEF front
  <2> HIDE DEF m
  <2> QED BY <2>3, SameTreeOf, HeardSame
<1> HIDE DEF h, m
<1>7. /\ f[0] = TakeFromLeaf(m, leaf, k)
      /\ \A n \in 1 .. h : f[n] = Repaired(f[n - 1], path[h + 1 - n])
  <2> HIDE DEF f
  <2>1. PICK g : Steps(g, h, "Remove", <<path, h>>, TakeFromLeaf(m, leaf, k))
    BY <1>4, StepsExist
  <2>2. g = [n \in 0 .. h |-> IF n = 0 THEN TakeFromLeaf(m, leaf, k)
                              ELSE Step("Remove", <<path, h>>, n, g[n - 1])]
    BY <2>1 DEF Steps
  <2>3. \A n : Step("Remove", <<path, h>>, n, g[n - 1]) = Repaired(g[n - 1], path[h + 1 - n])
    BY DEF Step
  <2>4. g = [n \in 0 .. h |-> IF n = 0 THEN TakeFromLeaf(m, leaf, k)
                              ELSE Repaired(g[n - 1], path[h + 1 - n])]
    BY <2>2, <2>3
  <2>5. f = [n \in 0 .. h |-> IF n = 0 THEN TakeFromLeaf(m, leaf, k)
                              ELSE Repaired(f[n - 1], path[h + 1 - n])]
    BY <1>3, <2>4 DEF f, m
  <2> QED BY <1>4, <2>5
<1> HIDE DEF f
<1>8. 0 \in T
  <2>1. m.pages = s.pages /\ m.next = s.next /\ m.root = s.root /\ m.merges = s.merges
    BY <1>5 DEF SameTree
  <2> DEFINE u == f[0]
  <2>2. u = TakeFromLeaf(m, leaf, k)
    BY <1>7
  <2> HIDE DEF u, leaf
  <2>3. Owns(m, leaf, k)
    BY <1>13, <2>1 DEF Owns, TreeOf
  <2>4. m.root # None /\ leaf < m.next /\ m.pages[leaf].node_type = "Leaf"
    BY <1>2, <1>3, <2>1, PageFacts
  <2>5. Taken(u, m, b, L, leaf)
    BY <1>3, <1>5, <2>2, <2>4, TakeFromLeafHolds
  <2>6. Told(u.st, k, None)
    BY <1>3, <1>5, <2>2, <2>3, <2>4, TakeFromLeafTold
  <2> QED BY <1>4, <2>5, <2>6 DEF Taken, Goes, u
<1>9. ASSUME NEW n \in 1 .. h, n - 1 \in T PROVE n \in T
  <2> DEFINE p == path[h + 1 - n]
             u == f[n]
             w == f[n - 1]
  <2>1. p \in PageIds /\ s.pages[p].node_type # "Leaf"
    <3> DEFINE j == h + 1 - n
    <3>1. j \in 1 .. Len(path) - 1 /\ j \in 1 .. Len(path)
      BY <1>4
    <3>2. \A i \in 1 .. Len(path) - 1 : s.pages[path[i]].node_type # "Leaf"
      BY <1>2 DEF Descends
    <3>3. path \in Seq(PageIds)
      BY <1>3
    <3> HIDE DEF j
    <3>4. path[j] \in PageIds /\ s.pages[path[j]].node_type # "Leaf"
      BY <3>1, <3>2, <3>3
    <3> QED BY <3>4 DEF j
  <2>2. u = Repaired(w, p)
    BY <1>7
  <2>3. n \in 0 .. h
    BY <1>4
  <2>4. Goes(w, b, L) /\ Told(w.st, k, None)
    BY <1>9
  <2>5. 0 < L[p]
    BY <2>1, InternalFacts DEF TreeOf
  <2> HIDE DEF u, w, p
  <2>6. Goes(u, b, L) /\ Told(u.st, k, None)
    BY <2>1, <2>2, <2>4, <2>5, RepairedTold
  <2> QED BY <2>3, <2>6 DEF u
<1>10. h \in T
  <2>1. h \in 0 .. h
    BY <1>4
  <2> HIDE DEF T
  <2> QED BY <1>4, <1>8, <1>9, <2>1, UpTo
<1> QED BY <1>6, <1>10

\* An empty leaf that is the root says of every key that it is not there.
LEMMA NothingTold ==
  ASSUME NEW pg, NEW nx, NEW rt, NEW L, Tree(pg, nx, rt, L), rt # None,
         NEW D, Routes(pg, nx, rt, L, D, D), pg[rt].node_type = "Leaf", Len(pg[rt].keys) = 0,
         NEW j \in Nat, NEW v, Tells(pg, rt, D, j, v)
  PROVE  v = None
<1>1. D[rt] = Nat /\ rt \in PageIds
  BY DEF Routes, Tree, PageOrNone
<1>2. Finds(pg[rt], j, v)
  BY <1>1 DEF Tells
<1>3. ~\E i \in 1 .. Len(pg[rt].keys) : TRUE
  OBVIOUS
<1> QED BY <1>2, <1>3 DEF Finds

LEMMA ShrunkTold ==
  ASSUME NEW s, NEW b, NEW L, Holds(s, b, None, None, None), TreeOf(s, L),
         s.root \in PageIds, NEW t, t = Shrunk(s), NEW k \in Nat, Told(s, k, None)
  PROVE  Told(t, k, None)
<1> DEFINE root == s.root
           node == s.pages[root]
           e == [s EXCEPT !.root = None]
           w == save_metadata(e)
<1>1. Tree(s.pages, s.next, s.root, L) /\ s.pages \in [PageIds -> Nodes]
      /\ s \in States /\ s.root # None
  BY PageFacts DEF TreeOf, Tree, Holds
<1>2. node \in Nodes /\ node.keys \in Seq(Nat) /\ Len(node.keys) \in Nat
  BY <1>1, NodeFacts
<1>3. CASE node.keys # <<>>
  <2>1. t = s
    BY <1>3 DEF Shrunk, read_node
  <2> QED BY <2>1
<1>4. CASE node.keys = <<>>
  <2>1. node.node_type = "Leaf" /\ Len(node.keys) = 0
    <3>1. Len(node.keys) = 0
      BY <1>4
    <3>2. node.node_type # "Leaf" => Len(node.keys) >= 1
      BY <1>1, InternalFacts
    <3> QED BY <3>1, <3>2
  <2>2. t = w
    BY <1>4, <2>1 DEF Shrunk, read_node
  <2>3. /\ e \in States /\ e.pages = s.pages /\ e.next = s.next /\ e.root = None
        /\ e.merges = s.merges /\ e.pins = s.pins /\ e.held = s.held /\ e.four = s.four
        /\ e.stray = s.stray /\ e.cuts = s.cuts
    BY <1>1 DEF States, PageOrNone
  <2> HIDE DEF e
  <2>4. Holds(e, b, None, None, None)
    BY <2>3 DEF Holds
  <2>5. \A p \in PageIds : s.pages[p].node_type = "Leaf"
    BY <1>1, <2>1, InternalFacts
  <2>6. ASSUME NEW M, TreeOf(s, M) PROVE TreeOf(e, M)
    <3>0. Tree(s.pages, s.next, s.root, M)
      BY <2>6 DEF TreeOf
    <3>1. \A p \in PageIds : NodeOK(s.pages, s.next, None, M, p)
      <4>1. \A p \in PageIds : NodeOK(s.pages, s.next, s.root, M, p)
        BY <3>0 DEF Tree
      <4> QED BY <2>5, <4>1 DEF NodeOK
    <3>2. None \in PageOrNone /\ RootOK(s.pages, s.next, None)
      BY DEF PageOrNone, RootOK
    <3>3. Tree(s.pages, s.next, None, M)
      BY <3>0, <3>1, <3>2 DEF Tree
    <3> QED BY <2>3, <3>3 DEF TreeOf
  <2>7. SameTree(w, e)
    BY <2>4, <2>6, SaveHolds
  <2>8. Safe(e, k)
    BY <2>3 DEF Told, Safe
  <2>9. CASE s.merges # 0
    <3>1. Ready(e, k)
      BY <2>3, <2>8, <2>9 DEF Ready
    <3>2. Ready(w, k)
      BY <2>4, <3>1, SaveReady
    <3>3. w.merges # 0
      BY <2>3, <2>7, <2>9 DEF SameTree
    <3> QED BY <2>2, <3>2, <3>3 DEF Told, Ready
  <2>10. CASE s.merges = 0
    <3>1. PICK M, D : /\ TreeOf(s, M)
                      /\ Routes(s.pages, s.next, s.root, M, D, D)
                      /\ AllTell(s.pages, s.root, D, k)
      BY <2>10 DEF Told
    <3> DEFINE E == [p \in PageIds |-> {}]
    <3>2. E \in Ranges /\ \A p \in PageIds : E[p] = {}
      BY DEF Ranges
    <3> HIDE DEF E
    <3>3. \A j \in Others(k) : contents[j] = None
      <4> TAKE j \in Others(k)
      <4>1. Tells(s.pages, s.root, D, j, contents[j]) /\ j \in Nat
        BY <3>1, OthersKeys DEF AllTell
      <4>2. Tree(s.pages, s.next, s.root, M)
        BY <3>1 DEF TreeOf
      <4> QED BY <1>1, <2>1, <3>1, <4>1, <4>2, NothingTold
    <3>4. Routes(s.pages, s.next, None, M, E, E)
      <4>1. \A p \in PageIds : RouteAt(s.pages, E, E, p)
        BY <2>5, <3>2 DEF RouteAt
      <4>2. Disjoint(M, E)
        BY <3>2 DEF Disjoint
      <4> QED BY <3>2, <4>1, <4>2 DEF Routes
    <3>5. AllTell(s.pages, None, E, k) /\ Tells(s.pages, None, E, k, None)
      BY <3>3 DEF AllTell, Tells
    <3>6. w.pages = s.pages /\ w.next = s.next /\ w.root = None
      BY <2>3, <2>7 DEF SameTree
    <3>7. TreeOf(w, M)
      BY <2>6, <2>7, <3>1, SameTreeOf
    <3>8. Routes(w.pages, w.next, w.root, M, E, E) /\ AllTell(w.pages, w.root, E, k)
          /\ Tells(w.pages, w.root, E, k, None)
      BY <3>4, <3>5, <3>6
    <3> HIDE DEF w
    <3>9. t = save_metadata(e) /\ SameTree(t, e)
      BY <2>2, <2>7 DEF w
    <3>10. \E N, F : /\ TreeOf(t, N)
                     /\ Routes(t.pages, t.next, t.root, N, F, F)
                     /\ AllTell(t.pages, t.root, F, k)
                     /\ Tells(t.pages, t.root, F, k, None)
      BY <2>2, <3>7, <3>8
    <3> QED BY <2>3, <2>8, <3>9, <3>10, SafeSame
  <2> QED BY <2>9, <2>10
<1> QED BY <1>3, <1>4

LEMMA RemoveTold ==
  ASSUME NEW s, NEW b, NEW L, Holds(s, b, None, None, None), TreeOf(s, L),
         NEW k \in Nat, Heard(s, k), NEW t, t = remove(s, k)
  PROVE  Told(t, k, None)
<1>1. s.root \in PageOrNone
  BY DEF Holds, States
<1>2. CASE s.root = None
  <2>1. t = s
    BY <1>2 DEF remove
  <2> QED BY <1>2, <2>1 DEF Told, Heard, Tells
<1>3. CASE s.root # None
  <2> DEFINE r == remove_recursive(s, s.root, k)
             m == r.st
             w == visit(m, s.root)
  <2>1. s.root \in PageIds
    BY <1>1, <1>3 DEF PageOrNone
  <2>2. t = Shrunk(w)
    BY <1>3 DEF remove
  <2>3. Trimmed(m, s, b, L) /\ Told(m, k, None)
    <3> DEFINE root == s.root
    <3>1. r = remove_recursive(s, root, k) /\ root = s.root /\ root \in PageIds
      BY <2>1
    <3> HIDE DEF r, root
    <3> QED BY <3>1, RemoveRecursiveHolds, RemoveRecursiveTold
  <2> HIDE DEF m
  <2>4. Holds(m, b, None, None, None) /\ TreeOf(m, L) /\ m.root = s.root
    BY <2>3 DEF Trimmed
  <2>5. Holds(w, b, None, None, None) /\ SameTree(w, m) /\ Told(w, k, None)
    BY <2>1, <2>3, <2>4, VisitHolds, VisitTold
  <2> HIDE DEF w
  <2>6. TreeOf(w, L) /\ w.root \in PageIds
    BY <2>1, <2>4, <2>5, SameTreeOf DEF SameTree
  <2> QED BY <2>2, <2>5, <2>6, ShrunkTold
<1> QED BY <1>2, <1>3
---------------------------------------------------------------------------
(* The specification.                                                      *)

FindInv ==
  /\ contents \in [Keys -> Nat \cup {None}]
  /\ merges = 0 =>
       \E L, E : /\ Tree(pages, next_page_id, root_page_id, L)
                 /\ Routes(pages, next_page_id, root_page_id, L, E, E)
                 /\ \A j \in Keys \ doubt : Tells(pages, root_page_id, E, j, contents[j])

\* Nothing is in the tree at first.
LEMMA InitFind == Init => FindInv
<1> SUFFICES ASSUME Init PROVE FindInv
  OBVIOUS
<1> DEFINE E == [p \in PageIds |-> {}]
<1>1. /\ pages = [p \in PageIds |-> Zeroed] /\ next_page_id = 0 /\ root_page_id = None
      /\ contents = [k \in Keys |-> None]
  BY DEF Init
<1>2. PICK L : Tree(pages, next_page_id, root_page_id, L)
  BY InitInv DEF TreeInv
<1>3. E \in Ranges /\ \A p \in PageIds : E[p] = {}
  BY DEF Ranges
<1> HIDE DEF E
<1>4. Disjoint(L, E)
  BY <1>3 DEF Disjoint
<1>5. ASSUME NEW p \in PageIds PROVE RouteAt(pages, E, E, p)
  <2>1. pages[p].node_type = "Leaf"
    BY <1>1, ZeroedLeaf DEF LeafNode
  <2> QED BY <1>3, <2>1 DEF RouteAt
<1>6. Routes(pages, next_page_id, root_page_id, L, E, E)
  BY <1>1, <1>3, <1>4, <1>5 DEF Routes
<1>7. \A j \in Keys \ doubt : Tells(pages, root_page_id, E, j, contents[j])
  BY <1>1 DEF Tells
<1>8. contents \in [Keys -> Nat \cup {None}]
  BY <1>1
<1> QED BY <1>2, <1>6, <1>7, <1>8 DEF FindInv

\* What a call with k finds.
LEMMA FindBegins ==
  ASSUME TreeInv, FindInv, NEW k
  PROVE  /\ Heard(St, k) /\ Later(St)
         /\ merges = 0 => \E L, E : /\ TreeOf(St, L)
                                    /\ Routes(St.pages, St.next, St.root, L, E, E)
                                    /\ AllTell(St.pages, St.root, E, k)
<1>1. /\ St.pages = pages /\ St.root = root_page_id /\ St.next = next_page_id
      /\ St.merges = merges
  BY CallBegins
<1>2. St.cuts = {}
  BY DEF St
<1>3. ASSUME merges = 0
      PROVE  \E L, E : /\ TreeOf(St, L)
                       /\ Routes(St.pages, St.next, St.root, L, E, E)
                       /\ AllTell(St.pages, St.root, E, k)
  <2>1. PICK L, E : /\ Tree(pages, next_page_id, root_page_id, L)
                    /\ Routes(pages, next_page_id, root_page_id, L, E, E)
                    /\ \A j \in Keys \ doubt : Tells(pages, root_page_id, E, j, contents[j])
    BY <1>3 DEF FindInv
  <2>2. TreeOf(St, L)
    BY <2>1, CallBegins
  <2>3. AllTell(pages, root_page_id, E, k)
    BY <2>1 DEF AllTell, Others
  <2> QED BY <1>1, <2>1, <2>2, <2>3
<1>4. next_page_id \in Nat
  BY PageFacts DEF TreeInv, Tree
<1> QED BY <1>1, <1>2, <1>3, <1>4 DEF Heard, Safe, Later

\* A call that returns leaves its key with the value it gave it.
LEMMA ReturnsFind ==
  ASSUME TreeInv, FindInv, NEW k \in Keys, NEW v \in Nat \cup {None}, NEW st,
         merges = 0 => Told(st, k, v), Kept(st, St, pin_count), Returns(k, v, st)
  PROVE  FindInv'
<1>1. St.merges = merges /\ merges \in Nat
  BY CallBegins DEF TreeInv
<1>2. /\ pages' = st.pages /\ next_page_id' = st.next /\ root_page_id' = st.root
      /\ merges' = st.merges /\ contents' = [contents EXCEPT ![k] = v] /\ doubt' = doubt \ {k}
  BY DEF Returns, Becomes
<1>3. /\ contents' \in [Keys -> Nat \cup {None}] /\ contents'[k] = v
      /\ \A j \in Keys : j # k => contents'[j] = contents[j]
  BY <1>2 DEF FindInv
<1>4. ASSUME merges' = 0
      PROVE  \E L, E : /\ Tree(pages', next_page_id', root_page_id', L)
                       /\ Routes(pages', next_page_id', root_page_id', L, E, E)
                       /\ \A j \in Keys \ doubt' : Tells(pages', root_page_id', E, j, contents'[j])
  <2>1. merges = 0 /\ st.merges = 0
    BY <1>1, <1>2, <1>4 DEF Kept
  <2>2. PICK M, D : /\ TreeOf(st, M)
                    /\ Routes(st.pages, st.next, st.root, M, D, D)
                    /\ AllTell(st.pages, st.root, D, k)
                    /\ Tells(st.pages, st.root, D, k, v)
    BY <2>1 DEF Told
  <2>3. ASSUME NEW j \in Keys \ doubt' PROVE Tells(st.pages, st.root, D, j, contents'[j])
    <3>1. CASE j = k
      BY <1>3, <2>2, <3>1
    <3>2. CASE j # k
      <4>1. j \in Others(k) /\ contents'[j] = contents[j]
        BY <1>2, <1>3, <3>2 DEF Others
      <4> QED BY <2>2, <4>1 DEF AllTell
    <3> QED BY <3>1, <3>2
  <2> QED BY <1>2, <2>2, <2>3 DEF TreeOf
<1> QED BY <1>3, <1>4 DEF FindInv

\* One that fails takes its own key, or all of them with half of a split.
LEMMA FailsFind ==
  ASSUME TreeInv, FindInv, NEW k, NEW st, Safe(st, k), Fails(k, st)
  PROVE  FindInv'
<1>1. PICK cut \in st.cuts :
        /\ Becomes(cut)
        /\ doubt' = doubt \cup IF \A p \in PageIds : p >= next_page_id => cut.pages[p] = Zeroed
                                 THEN {k} ELSE Keys
  BY DEF Fails
<1>2. /\ pages' = cut.pages /\ next_page_id' = cut.next /\ root_page_id' = cut.root
      /\ merges' = cut.merges /\ contents' = contents
  BY <1>1 DEF Becomes, Fails
<1>3. ASSUME merges' = 0
      PROVE  \E L, E : /\ Tree(pages', next_page_id', root_page_id', L)
                       /\ Routes(pages', next_page_id', root_page_id', L, E, E)
                       /\ \A j \in Keys \ doubt' : Tells(pages', root_page_id', E, j, contents'[j])
  <2>1. Found(cut, k)
    BY <1>2, <1>3 DEF Safe
  <2>2. PICK L, E : /\ Tree(cut.pages, cut.next, cut.root, L)
                    /\ Routes(cut.pages, cut.next, cut.root, L, E, E)
                    /\ AllTell(cut.pages, cut.root, E, k) \/ Torn(cut)
    BY <2>1 DEF Found
  <2>3. \A j \in Keys \ doubt' : Tells(cut.pages, cut.root, E, j, contents[j])
    <3>1. CASE AllTell(cut.pages, cut.root, E, k)
      <4>1. k \in doubt' \/ Keys \subseteq doubt'
        BY <1>1
      <4>2. doubt \subseteq doubt'
        BY <1>1
      <4>3. Keys \ doubt' \subseteq Others(k)
        BY <4>1, <4>2 DEF Others
      <4> QED BY <3>1, <4>3 DEF AllTell
    <3>2. CASE Torn(cut)
      <4>1. PICK p \in PageIds : next_page_id <= p /\ Len(cut.pages[p].keys) > 0
        BY <3>2 DEF Torn
      <4>2. cut.pages[p] # Zeroed
        BY <4>1, ZeroedLeaf
      <4>3. p >= next_page_id
        BY <4>1, PageFacts DEF TreeInv, Tree
      <4>4. doubt' = doubt \cup Keys
        BY <1>1, <4>2, <4>3
      <4> QED BY <4>4
    <3> QED BY <2>2, <3>1, <3>2
  <2> QED BY <1>2, <2>2, <2>3
<1> QED BY <1>2, <1>3 DEF FindInv

\* What the calls do from a state with the invariant.
LEMMA PutTold ==
  ASSUME TreeInv, FindInv, merges = 0, NEW k \in Nat, NEW v \in Nat, Room(k),
         NEW t, t = insert(St, k, v)
  PROVE  Told(t, k, v)
<1>1. PICK L, E : /\ TreeOf(St, L)
                  /\ Routes(St.pages, St.next, St.root, L, E, E)
                  /\ AllTell(St.pages, St.root, E, k)
  BY FindBegins
<1>2. Holds(St, pin_count, None, None, None) /\ Later(St) /\ Ready(St, k) /\ RoomFor(St, k)
  BY CallBegins, FindBegins, HeardReady, RoomIsThere
<1> DEFINE s == St
<1>3. s = St
  OBVIOUS
<1> HIDE DEF s
<1> QED BY <1>1, <1>2, <1>3, InsertTold

LEMMA DeleteTold ==
  ASSUME TreeInv, FindInv, NEW k \in Nat, NEW t, t = remove(St, k)
  PROVE  Told(t, k, None)
<1>1. PICK L : TreeOf(St, L)
  BY CallBegins DEF TreeInv
<1>2. Holds(St, pin_count, None, None, None) /\ Heard(St, k)
  BY CallBegins, FindBegins
<1> QED BY <1>1, <1>2, RemoveTold

LEMMA NextFind == TreeInv /\ FindInv /\ [Next]_vars => FindInv'
<1> SUFFICES ASSUME TreeInv, FindInv, [Next]_vars PROVE FindInv'
  OBVIOUS
<1>1. PICK L : TreeOf(St, L)
  BY CallBegins DEF TreeInv
<1>2. Holds(St, pin_count, None, None, None)
  BY CallBegins
<1>3. \A e \in Entries : e[1] \in Nat /\ e[2] \in Nat /\ e[1] \in Keys
  BY TreeAssumption DEF Keys
<1>4. \A k \in Keys : k \in Nat
  BY <1>3 DEF Keys
<1>5. ASSUME NEW e \in Entries, Put(e[1], e[2]) PROVE FindInv'
  <2> DEFINE k == e[1]
             v == e[2]
             t == insert(St, k, v)
  <2>1. Returns(k, v, t) /\ Room(k) /\ k \in Nat /\ v \in Nat /\ k \in Keys
    BY <1>3, <1>5 DEF Put
  <2>2. t = insert(St, k, v)
    OBVIOUS
  <2> HIDE DEF t, k, v
  <2>3. Kept(t, St, pin_count)
    BY <1>1, <1>2, <2>1, <2>2, RoomIsThere, InsertKept
  <2>4. merges = 0 => Told(t, k, v)
    BY <2>1, <2>2, PutTold
  <2> QED BY <2>1, <2>3, <2>4, ReturnsFind
<1>6. ASSUME NEW e \in Entries, PutFails(e[1], e[2]) PROVE FindInv'
  <2> DEFINE k == e[1]
             v == e[2]
             t == insert(St, k, v)
  <2>1. merges = 0 /\ Fails(k, t) /\ Room(k) /\ k \in Nat /\ v \in Nat
    BY <1>3, <1>6 DEF PutFails, Unhurt
  <2>2. t = insert(St, k, v)
    OBVIOUS
  <2> HIDE DEF t, k, v
  <2>3. Safe(t, k)
    BY <2>1, <2>2, PutTold DEF Told
  <2> QED BY <2>1, <2>3, FailsFind
<1>7. ASSUME NEW k \in Keys, Delete(k) PROVE FindInv'
  <2> DEFINE t == remove(St, k)
  <2>1. Returns(k, None, t) /\ k \in Nat /\ t = remove(St, k)
    BY <1>4, <1>7 DEF Delete
  <2> HIDE DEF t
  <2>2. Kept(t, St, pin_count) /\ Told(t, k, None)
    BY <1>1, <1>2, <2>1, RemoveKept, DeleteTold
  <2> QED BY <2>1, <2>2, ReturnsFind
<1>8. ASSUME NEW k \in Keys, DeleteFails(k) PROVE FindInv'
  <2> DEFINE t == remove(St, k)
  <2>1. Fails(k, t) /\ k \in Nat /\ t = remove(St, k)
    BY <1>4, <1>8 DEF DeleteFails
  <2> HIDE DEF t
  <2>2. Safe(t, k)
    BY <2>1, DeleteTold DEF Told
  <2> QED BY <2>1, <2>2, FailsFind
<1>9. CASE UNCHANGED vars
  <2>1. /\ pages' = pages /\ next_page_id' = next_page_id /\ root_page_id' = root_page_id
        /\ merges' = merges /\ contents' = contents /\ doubt' = doubt
    BY <1>9 DEF vars, treeVars
  <2> QED BY <2>1 DEF FindInv
<1> QED BY <1>5, <1>6, <1>7, <1>8, <1>9 DEF Next

(* Through any sequence of calls, up to the first merge, search finds each *)
(* key with the value the last call gave it, and no other; a call that     *)
(* failed takes only its own key from this, unless half of a split was     *)
(* written to a new page (btree.rs:306-665).                               *)
THEOREM SearchFindsExactly == Spec => []FindsExactly
<1>1. TreeInv /\ FindInv => FindsExactly
  <2> SUFFICES ASSUME TreeInv, FindInv, merges = 0, NEW k \in Keys \ doubt
               PROVE  search(St, root_page_id, k) = contents[k]
    BY DEF FindsExactly
  <2>1. PICK L, E : /\ Tree(pages, next_page_id, root_page_id, L)
                    /\ Routes(pages, next_page_id, root_page_id, L, E, E)
                    /\ Tells(pages, root_page_id, E, k, contents[k])
    BY DEF FindInv
  <2>2. k \in Nat
    BY TreeAssumption DEF Keys
  <2>3. /\ TreeOf(St, L) /\ Routes(St.pages, St.next, St.root, L, E, E)
        /\ Tells(St.pages, St.root, E, k, contents[k])
    BY <2>1, CallBegins
  <2>4. search(St, St.root, k) = contents[k]
    BY <2>2, <2>3, SearchTells
  <2> QED BY <2>4, CallBegins
<1>2. FindInv /\ TreeInv /\ [Next]_vars => FindInv'
  BY NextFind
<1> QED BY <1>1, <1>2, InitFind, TreeInvariant, PTL DEF Spec
===========================================================================
