------------------------- MODULE BufferPool_proofs ------------------------
(***************************************************************************)
(* The invariants of the buffer pool for any number of pages, frames,      *)
(* pins, failures and stops, and that it implements PageStore.             *)
(***************************************************************************)
EXTENDS BufferPool, NaturalOrder, SequenceTheorems
---------------------------------------------------------------------------
(* order lists each element of S once, and nothing else.                   *)
Lists(order, S) ==
  /\ order \in Seq(S)
  /\ \A i, j \in 1 .. Len(order) : order[i] = order[j] => i = j
  /\ \A p \in S : \E i \in 1 .. Len(order) : order[i] = p

(* Such a list is as long as the set is large.                             *)
LEMMA ListsLength ==
  ASSUME NEW S, NEW order, Lists(order, S)
  PROVE  /\ IsFiniteSet(S)
         /\ Cardinality(S) = Len(order)
         /\ {order[i] : i \in DOMAIN order} = S
<1>1. /\ Len(order) \in Nat
      /\ order \in [1 .. Len(order) -> S]
      /\ DOMAIN order = 1 .. Len(order)
  BY LenProperties DEF Lists
<1>2. order \in Bijection(1 .. Len(order), S)
  BY <1>1 DEF Lists, Bijection, Injection, Surjection, IsInjective
<1>3. ExistsBijection(1 .. Len(order), S)
  BY <1>2 DEF ExistsBijection
<1>4. IsFiniteSet(S)
  BY <1>1, <1>3, FS_NatBijection
<1>5. Cardinality(S) = Len(order)
  BY <1>1, <1>3, FS_CountingElements
<1>6. {order[i] : i \in DOMAIN order} = S
  BY <1>1 DEF Lists
<1> QED BY <1>4, <1>5, <1>6

(* Taking a page off the list.                                             *)
LEMMA WithoutNone ==
  ASSUME NEW S, NEW order \in Seq(S), NEW T, T \cap S = {}
  PROVE  Without(order, T) = order
<1>1. \A i \in DOMAIN order : order[i] \in S
  BY LenProperties
<1>2. {i \in DOMAIN order : order[i] \in T} = {}
  BY <1>1
<1> QED BY <1>2 DEF Without

LEMMA WithoutLists ==
  ASSUME NEW S, NEW order, Lists(order, S), NEW p
  PROVE  Lists(Without(order, {p}), S \ {p})
<1>0. /\ Len(order) \in Nat
      /\ order \in [1 .. Len(order) -> S]
      /\ DOMAIN order = 1 .. Len(order)
  BY LenProperties DEF Lists
<1>1. CASE p \notin S
  <2>1. S \ {p} = S
    BY <1>1
  <2>2. Without(order, {p}) = order
    BY <1>1, WithoutNone DEF Lists
  <2> QED BY <2>1, <2>2
<1>2. CASE p \in S
  <2> DEFINE n  == Len(order) - 1
             at == CHOOSE i \in {j \in DOMAIN order : order[j] \in {p}} : TRUE
             w  == [i \in 1 .. n |-> order[IF i < at THEN i ELSE i + 1]]
  <2>1. at \in 1 .. Len(order) /\ order[at] = p
    BY <1>0, <1>2 DEF Lists
  <2>2. Without(order, {p}) = w
    BY <2>1, <1>0 DEF Without
  <2> HIDE DEF at
  <2>3. n \in Nat
    BY <1>0, <2>1
  <2>4. \A i \in 1 .. n :
          /\ (IF i < at THEN i ELSE i + 1) \in 1 .. Len(order)
          /\ (IF i < at THEN i ELSE i + 1) # at
    BY <1>0, <2>1
  <2>5. \A i \in 1 .. n : w[i] \in S \ {p}
    BY <1>0, <2>1, <2>4 DEF Lists
  <2>6. w \in Seq(S \ {p}) /\ Len(w) = n
    <3>1. w \in [1 .. n -> S \ {p}]
      BY <2>5
    <3> HIDE DEF w
    <3>2. w \in Seq(S \ {p})
      BY <2>3, <3>1, SeqDef
    <3>3. DOMAIN w = 1 .. Len(w) /\ Len(w) \in Nat
      BY <3>2, LenProperties
    <3>4. 1 .. Len(w) = 1 .. n
      BY <3>1, <3>3
    <3> QED BY <2>3, <3>2, <3>3, <3>4
  <2>7. ASSUME NEW i \in 1 .. n, NEW j \in 1 .. n, w[i] = w[j] PROVE i = j
    <3>1. (IF i < at THEN i ELSE i + 1) = (IF j < at THEN j ELSE j + 1)
      BY <2>4, <2>7 DEF Lists
    <3> QED BY <2>1, <2>3, <3>1
  <2>8. ASSUME NEW q \in S \ {p} PROVE \E i \in 1 .. n : w[i] = q
    <3>1. PICK k \in 1 .. Len(order) : order[k] = q
      BY DEF Lists
    <3>2. k # at
      BY <2>1, <3>1
    <3>3. CASE k < at
      <4>1. k \in 1 .. n
        BY <1>0, <2>1, <3>3
      <4> QED BY <3>1, <3>3, <4>1
    <3>4. CASE at < k
      <4>1. k - 1 \in 1 .. n /\ ~ (k - 1 < at) /\ (k - 1) + 1 = k
        BY <1>0, <2>1, <3>4
      <4>2. w[k - 1] = q
        BY <3>1, <4>1
      <4> QED BY <4>1, <4>2
    <3> QED BY <2>1, <3>2, <3>3, <3>4
  <2> QED BY <2>2, <2>6, <2>7, <2>8 DEF Lists
<1> QED BY <1>1, <1>2

(* Putting it in front.                                                    *)
LEMMA UsedLists ==
  ASSUME NEW S, NEW order, Lists(order, S), NEW p
  PROVE  Lists(Used(order, p), S \cup {p})
<1> DEFINE T == S \cup {p}
           w == Without(order, {p})
           u == <<p>> \o w
<1>1. Lists(w, S \ {p})
  BY WithoutLists
<1>2. w \in Seq(S \ {p}) /\ w \in Seq(T) /\ <<p>> \in Seq(T) /\ Len(<<p>>) = 1
  <2>1. w \in Seq(S \ {p})
    BY <1>1 DEF Lists
  <2>2. S \ {p} \subseteq T
    OBVIOUS
  <2> HIDE DEF T, w
  <2>3. w \in Seq(T)
    BY <2>1, <2>2, SeqMonotonic
  <2> QED BY <2>1, <2>3 DEF T
<1>3. Len(w) \in Nat /\ \A i \in 1 .. Len(w) : w[i] \in S \ {p}
  <2> HIDE DEF w
  <2> QED BY <1>2, LenProperties
<1>4. /\ u \in Seq(T)
      /\ Len(u) = 1 + Len(w)
      /\ u[1] = p
      /\ \A i \in 2 .. Len(u) : i - 1 \in 1 .. Len(w) /\ u[i] = w[i - 1]
  <2> HIDE DEF w, T
  <2>1. /\ <<p>> \o w \in Seq(T)
        /\ Len(<<p>> \o w) = 1 + Len(w)
        /\ \A i \in 1 .. 1 + Len(w) : (<<p>> \o w)[i] = IF i <= 1 THEN <<p>>[i] ELSE w[i - 1]
    BY <1>2, ConcatProperties
  <2>2. \A i \in 2 .. 1 + Len(w) : i - 1 \in 1 .. Len(w) /\ i \in 1 .. 1 + Len(w) /\ ~ (i <= 1)
    BY <1>3
  <2> QED BY <1>3, <2>1, <2>2
<1> HIDE DEF u
<1>5. ASSUME NEW i \in 1 .. Len(u), NEW j \in 1 .. Len(u), u[i] = u[j] PROVE i = j
  <2>1. i = 1 \/ i \in 2 .. Len(u)
    BY <1>3, <1>4
  <2>2. j = 1 \/ j \in 2 .. Len(u)
    BY <1>3, <1>4
  <2>3. \A k \in 2 .. Len(u) : u[k] # p
    BY <1>3, <1>4
  <2>4. CASE i = 1 \/ j = 1
    BY <1>4, <1>5, <2>1, <2>2, <2>3, <2>4
  <2>5. CASE i \in 2 .. Len(u) /\ j \in 2 .. Len(u)
    <3>1. w[i - 1] = w[j - 1] /\ i - 1 \in 1 .. Len(w) /\ j - 1 \in 1 .. Len(w)
      BY <1>4, <1>5, <2>5
    <3>2. i - 1 = j - 1
      BY <1>1, <3>1 DEF Lists
    <3> QED BY <3>2
  <2> QED BY <2>1, <2>2, <2>4, <2>5
<1>6. ASSUME NEW q \in T PROVE \E i \in 1 .. Len(u) : u[i] = q
  <2>1. CASE q = p
    <3>1. 1 \in 1 .. Len(u)
      BY <1>3, <1>4
    <3> QED BY <1>4, <2>1, <3>1
  <2>2. CASE q \in S \ {p}
    <3>1. PICK k \in 1 .. Len(w) : w[k] = q
      BY <1>1, <2>2 DEF Lists
    <3>2. k + 1 \in 2 .. Len(u) /\ (k + 1) - 1 = k
      BY <1>3, <1>4
    <3>3. k + 1 \in 1 .. Len(u)
      BY <3>2
    <3>4. u[k + 1] = q
      BY <1>4, <3>1, <3>2
    <3> QED BY <3>3, <3>4
  <2> QED BY <2>1, <2>2
<1>7. Lists(u, T)
  BY <1>4, <1>5, <1>6 DEF Lists
<1> QED BY <1>7 DEF Used, u
---------------------------------------------------------------------------
(* The strengthening.  The pool itself: the LRU list and its bound.        *)
PoolOK == Lists(lru_order, Cached) /\ Cardinality(Cached) <= Capacity

(* The file has no gaps, every cached page has its place in it, and the    *)
(* next number is behind its end: a new page never takes an old one's.     *)
NoGaps(f) == \A p, q \in PageIds : f[p] = Missing /\ p < q => f[q] = Missing

FileOK == /\ \A p \in Cached : file[p] # Missing
          /\ NoGaps(file)
          /\ \A p \in PageIds : file[p] # Missing => p < next_page_id

(* What the file may fall back to was seen by a reader since the sync, and *)
(* what a reader sees now counts.                                          *)
History == \A p \in PageIds : /\ unsynced[p] \subseteq since[p]
                              /\ file[p] \in unsynced[p]
                              /\ Content(p) \in since[p]

Inv == TypeOK /\ PoolOK /\ CleanMatchesFile /\ FileOK /\ History

File == [PageIds -> Data \cup {Missing}]

LEMMA Types ==
  ASSUME TypeOK
  PROVE  /\ Cached \subseteq PageIds
         /\ frames \in [Cached -> Frame]
         /\ \A p \in Cached : /\ frames[p].data \in Data
                              /\ frames[p].is_dirty \in BOOLEAN
                              /\ frames[p].pin_count \in Nat
         /\ next_page_id \in Nat
         /\ file \in File
         /\ unsynced \in [PageIds -> SUBSET (Data \cup {Missing})]
         /\ since \in [PageIds -> SUBSET (Data \cup {Missing})]
         /\ io_errors \in Nat /\ stops \in Nat
<1>1. \A p \in Cached : frames[p] \in Frame
  BY DEF TypeOK
<1> QED BY <1>1 DEF TypeOK, Frame, File
---------------------------------------------------------------------------
(* What writes and evictions do to the file.                               *)
LEMMA WrittenSpec ==
  ASSUME NEW f \in File, NEW p \in PageIds, NEW d \in Data
  PROVE  /\ Written(f, p, d) \in File
         /\ Written(f, p, d)[p] = d
         /\ \A q \in PageIds : f[q] # Missing /\ q # p => Written(f, p, d)[q] = f[q]
         /\ \A q \in PageIds : f[q] = Missing /\ q # p =>
               Written(f, p, d)[q] = IF q < p THEN Zero ELSE Missing
         /\ NoGaps(f) => NoGaps(Written(f, p, d))
<1>1. Zero \in Data /\ Missing \notin Data /\ PageIds \subseteq Int
  BY PoolAssumption DEF PageIds
<1>2. Written(f, p, d) \in File
  BY <1>1 DEF Written, File
<1>3. \A q \in PageIds : Written(f, p, d)[q] =
         IF q = p THEN d ELSE IF q < p /\ f[q] = Missing THEN Zero ELSE f[q]
  BY DEF Written
<1>4. NoGaps(f) => NoGaps(Written(f, p, d))
  <2> HIDE DEF Written
  <2> SUFFICES ASSUME NoGaps(f), NEW q \in PageIds, NEW r \in PageIds, q < r,
                      Written(f, p, d)[q] = Missing
               PROVE  Written(f, p, d)[r] = Missing
    BY DEF NoGaps
  <2>1. q # p /\ f[q] = Missing /\ ~ (q < p)
    BY <1>1, <1>3
  <2>2. f[r] = Missing
    BY <2>1 DEF NoGaps
  <2>3. r # p /\ ~ (r < p)
    BY <1>1, <2>1
  <2> QED BY <1>3, <2>2, <2>3
<1> QED BY <1>1, <1>2, <1>3, <1>4

(* A page that is there can be overwritten without touching another.       *)
LEMMA OverwriteSpec ==
  ASSUME NEW f \in File, NoGaps(f), NEW p \in PageIds, f[p] # Missing, NEW d \in Data
  PROVE  \A q \in PageIds : Written(f, p, d)[q] = IF q = p THEN d ELSE f[q]
<1>1. PageIds \subseteq Int
  BY PoolAssumption DEF PageIds
<1>2. \A q \in PageIds : q < p => f[q] # Missing
  BY DEF NoGaps
<1> QED BY <1>1, <1>2 DEF Written

LEMMA VictimSpec ==
  ASSUME TypeOK, PoolOK, Victims # {}
  PROVE  Victim \in Cached /\ frames[Victim].pin_count = 0
<1>1. Len(lru_order) \in Nat /\ DOMAIN lru_order = 1 .. Len(lru_order)
  BY LenProperties DEF PoolOK, Lists
<1>2. Victims \in SUBSET (0 .. Len(lru_order))
  BY <1>1 DEF Victims
<1>3. \E i \in Victims : \A j \in Victims : j <= i
  BY <1>1, <1>2, GreatestElement
<1> DEFINE i == CHOOSE i \in Victims : \A j \in Victims : j <= i
<1>4. i \in Victims
  BY <1>3
<1> HIDE DEF i
<1>5. lru_order[i] \in Cached /\ frames[lru_order[i]].pin_count = 0
  BY <1>4 DEF Victims
<1> QED BY <1>5 DEF Victim, i

(* Making room: the page that goes is not pinned, the list and the bound   *)
(* follow, and the file gets what its frame held.                          *)
LEMMA EvictSpec ==
  ASSUME TypeOK, PoolOK, CleanMatchesFile, FileOK, Full => Victims # {},
         NEW f \in File, NoGaps(f), \A q \in Cached : f[q] = file[q]
  PROVE  /\ Evictees \subseteq Cached
         /\ \A q \in Evictees : frames[q].pin_count = 0
         /\ FileAfterEvict(f) \in File
         /\ \A q \in PageIds : FileAfterEvict(f)[q] =
                                IF q \in Evictees THEN frames[q].data ELSE f[q]
         /\ NoGaps(FileAfterEvict(f))
<1>1. CASE ~ Full
  BY <1>1 DEF Evictees, FileAfterEvict
<1>2. CASE Full
  <2>1. Victim \in Cached /\ frames[Victim].pin_count = 0
    BY <1>2, VictimSpec
  <2>2. Victim \in PageIds /\ frames[Victim].data \in Data /\ f[Victim] # Missing
    BY <2>1, Types DEF FileOK
  <2>3. Evictees = {Victim}
    BY <1>2 DEF Evictees
  <2>4. CASE frames[Victim].is_dirty
    <3>1. FileAfterEvict(f) = Written(f, Victim, frames[Victim].data)
      BY <1>2, <2>4 DEF FileAfterEvict
    <3>2. Written(f, Victim, frames[Victim].data) \in File
      BY <2>2, WrittenSpec
    <3>3. NoGaps(Written(f, Victim, frames[Victim].data))
      BY <2>2, WrittenSpec
    <3>4. \A q \in PageIds : Written(f, Victim, frames[Victim].data)[q] =
                              IF q = Victim THEN frames[Victim].data ELSE f[q]
      BY <2>2, OverwriteSpec
    <3> QED BY <2>1, <2>3, <3>1, <3>2, <3>3, <3>4
  <2>5. CASE ~ frames[Victim].is_dirty
    <3>1. FileAfterEvict(f) = f
      BY <2>5 DEF FileAfterEvict
    <3>2. f[Victim] = frames[Victim].data
      BY <2>1, <2>5 DEF CleanMatchesFile
    <3> QED BY <2>1, <2>3, <3>1, <3>2
  <2> QED BY <2>4, <2>5
<1> QED BY <1>1, <1>2

LEMMA RoomSpec ==
  ASSUME TypeOK, PoolOK, Full => Victims # {}
  PROVE  /\ Lists(Without(lru_order, Evictees), Cached \ Evictees)
         /\ Cardinality(Cached \ Evictees) < Capacity
         /\ IsFiniteSet(Cached \ Evictees)
         /\ Cardinality(Cached \ Evictees) \in Nat
<1>1. IsFiniteSet(Cached) /\ Cardinality(Cached) \in Nat /\ Cardinality(Cached) <= Capacity
  BY ListsLength, FS_CardinalityType DEF PoolOK
<1>2. Capacity \in Nat \ {0}
  BY PoolAssumption
<1>3. CASE ~ Full
  <2>1. Evictees = {} /\ Cached \ Evictees = Cached
    BY <1>3 DEF Evictees
  <2>2. Without(lru_order, Evictees) = lru_order
    BY <2>1, WithoutNone DEF PoolOK, Lists
  <2> QED BY <1>1, <1>2, <1>3, <2>1, <2>2 DEF Full, PoolOK
<1>4. CASE Full
  <2>1. Victim \in Cached /\ Evictees = {Victim}
    BY <1>4, VictimSpec DEF Evictees
  <2>2. Lists(Without(lru_order, {Victim}), Cached \ {Victim})
    BY WithoutLists DEF PoolOK
  <2>3. /\ IsFiniteSet(Cached \ {Victim})
        /\ Cardinality(Cached \ {Victim}) = Cardinality(Cached) - 1
    BY <1>1, <2>1, FS_RemoveElement
  <2>4. Cardinality(Cached) # 0
    BY <1>1, <2>1, FS_EmptySet
  <2> QED BY <1>1, <1>2, <2>1, <2>2, <2>3, <2>4
<1> QED BY <1>3, <1>4

(* A frame is added: what is cached then.                                  *)
LEMMA LoadSpec ==
  ASSUME TypeOK, PoolOK, Full => Victims # {},
         NEW p \in PageIds, p \notin Cached, NEW d \in Data, NEW dirty \in BOOLEAN,
         Load(p, d, dirty)
  PROVE  /\ Cached' = (Cached \ Evictees) \cup {p}
         /\ Cached' \subseteq PageIds
         /\ frames' \in [Cached' -> Frame]
         /\ frames'[p] = [data |-> d, is_dirty |-> dirty, pin_count |-> 1]
         /\ \A q \in Cached \ Evictees : frames'[q] = frames[q]
         /\ PoolOK'
         /\ lru_order' \in Seq(PageIds)
<1>1. /\ Cached' = (Cached \ Evictees) \cup {p}
      /\ frames' \in [Cached' -> Frame]
      /\ frames'[p] = [data |-> d, is_dirty |-> dirty, pin_count |-> 1]
      /\ \A q \in Cached \ Evictees : frames'[q] = frames[q]
  <2>1. frames' = [q \in (Cached \ Evictees) \cup {p} |->
                     IF q = p THEN [data |-> d, is_dirty |-> dirty, pin_count |-> 1]
                     ELSE frames[q]]
    BY DEF Load
  <2>2. Cached' = (Cached \ Evictees) \cup {p}
    BY <2>1 DEF Cached
  <2>3. [data |-> d, is_dirty |-> dirty, pin_count |-> 1] \in Frame
    BY DEF Frame
  <2>4. \A q \in Cached : frames[q] \in Frame
    BY Types
  <2> QED BY <2>1, <2>2, <2>3, <2>4
<1>2. Cached' \subseteq PageIds
  BY <1>1, Types
<1>3. Lists(lru_order', Cached')
  <2>1. Lists(Without(lru_order, Evictees), Cached \ Evictees)
    BY RoomSpec
  <2>2. lru_order' = Used(Without(lru_order, Evictees), p)
    BY DEF Load
  <2> QED BY <1>1, <2>1, <2>2, UsedLists
<1>4. Cardinality(Cached') <= Capacity
  <2>1. /\ Cardinality(Cached \ Evictees) < Capacity /\ IsFiniteSet(Cached \ Evictees)
        /\ Cardinality(Cached \ Evictees) \in Nat
    BY RoomSpec
  <2>2. Cardinality((Cached \ Evictees) \cup {p}) \in
          {Cardinality(Cached \ Evictees), Cardinality(Cached \ Evictees) + 1}
    BY <2>1, FS_AddElement
  <2>3. Capacity \in Nat
    BY PoolAssumption
  <2> QED BY <1>1, <2>1, <2>2, <2>3
<1>5. lru_order' \in Seq(PageIds)
  BY <1>2, <1>3, SeqMonotonic DEF Lists
<1> QED BY <1>1, <1>2, <1>3, <1>4, <1>5 DEF PoolOK
---------------------------------------------------------------------------
(* What a step does to the pages as readers see them.                      *)
Same == \A p \in PageIds : Content(p)' = Content(p)

Grown == \A p \in PageIds :
           Content(p)' = IF Content(p) = Missing /\ Content(p)' # Missing
                           THEN Zero ELSE Content(p)

(* The type and the history after a step that writes to the file or not.   *)
LEMMA StepType ==
  ASSUME TypeOK,
         Cached' \subseteq PageIds, frames' \in [Cached' -> Frame],
         lru_order' \in Seq(PageIds), next_page_id' \in Nat,
         file' \in File,
         UNCHANGED unsynced \/ FileBecomes(file'),
         UNCHANGED since \/ Seen,
         io_errors' = io_errors \/ IoError, stops' = stops
  PROVE  TypeOK'
<1>1. io_errors' \in Nat /\ stops' \in Nat
  BY Types DEF IoError
<1>2. unsynced' \in [PageIds -> SUBSET (Data \cup {Missing})]
  <2>1. \A p \in PageIds : file'[p] \in Data \cup {Missing}
    BY DEF File
  <2> QED BY <2>1, Types DEF FileBecomes
<1>3. since' \in [PageIds -> SUBSET (Data \cup {Missing})]
  <2>1. \A p \in PageIds : Content(p)' \in Data \cup {Missing}
    <3>1. \A p \in Cached' : frames'[p].data \in Data
      BY DEF Frame
    <3> QED BY <3>1 DEF Content, File
  <2> QED BY <2>1, Types DEF Seen
<1> QED BY <1>1, <1>2, <1>3 DEF TypeOK, File

LEMMA HistoryStep ==
  ASSUME TypeOK, History,
         UNCHANGED <<file, unsynced>> \/ FileBecomes(file'),
         Seen \/ (Same /\ UNCHANGED since),
         \A p \in PageIds : file'[p] \in {file[p], Content(p), Content(p)'}
  PROVE  History'
<1> SUFFICES ASSUME NEW p \in PageIds
             PROVE  /\ unsynced'[p] \subseteq since'[p]
                    /\ file'[p] \in unsynced'[p]
                    /\ Content(p)' \in since'[p]
  BY DEF History
<1>1. since[p] \subseteq since'[p] /\ Content(p)' \in since'[p]
  BY DEF Seen, Same, History
<1>2. file'[p] \in since'[p]
  BY <1>1 DEF History
<1>3. unsynced'[p] \subseteq unsynced[p] \cup {file'[p]} /\ file'[p] \in unsynced'[p]
  BY DEF FileBecomes, History
<1> QED BY <1>1, <1>2, <1>3 DEF History

(* FileOK after a step that keeps every page the file has.                 *)
LEMMA FileStep ==
  ASSUME TypeOK, FileOK, Cached' \subseteq Cached,
         UNCHANGED next_page_id, NoGaps(file'),
         \A p \in PageIds : file'[p] = Missing <=> file[p] = Missing
  PROVE  FileOK'
<1>1. Cached' \subseteq PageIds
  BY Types
<1>2. NoGaps(file)'
  BY DEF NoGaps
<1> QED BY <1>1, <1>2 DEF FileOK
---------------------------------------------------------------------------
(* fetch_page.                                                             *)
LEMMA FetchHitStep ==
  ASSUME Inv, NEW p \in PageIds, FetchHit(p)
  PROVE  Inv' /\ Same /\ UNCHANGED since
<1>1. /\ p \in Cached
      /\ frames' = [frames EXCEPT ![p].pin_count = @ + 1]
      /\ lru_order' = Used(lru_order, p)
      /\ UNCHANGED <<next_page_id, file, unsynced, since, io_errors, stops>>
  BY DEF FetchHit, fileVars
<1>2. /\ Cached' = Cached
      /\ frames' \in [Cached -> Frame]
      /\ \A q \in Cached : frames'[q].data = frames[q].data
                           /\ frames'[q].is_dirty = frames[q].is_dirty
  BY <1>1, Types DEF Inv, Cached, Frame
<1>3. PoolOK'
  <2>1. Lists(Used(lru_order, p), Cached \cup {p})
    BY UsedLists DEF Inv, PoolOK
  <2>2. Cached \cup {p} = Cached
    BY <1>1
  <2> QED BY <1>1, <1>2, <2>1, <2>2 DEF Inv, PoolOK
<1>4. lru_order' \in Seq(PageIds)
  BY <1>2, <1>3, Types, SeqMonotonic DEF Inv, PoolOK, Lists
<1>5. Same
  BY <1>1, <1>2 DEF Same, Content
<1>6. TypeOK'
  BY <1>1, <1>2, <1>4, Types, StepType DEF Inv
<1>7. CleanMatchesFile'
  BY <1>1, <1>2 DEF Inv, CleanMatchesFile
<1>8. FileOK'
  BY <1>1, <1>2 DEF Inv, FileOK, NoGaps
<1>9. History'
  BY <1>1, <1>5, HistoryStep DEF Inv
<1> QED BY <1>1, <1>3, <1>5, <1>6, <1>7, <1>8, <1>9 DEF Inv

LEMMA FetchMissStep ==
  ASSUME Inv, NEW p \in PageIds, FetchMiss(p)
  PROVE  Inv' /\ Same /\ Seen
<1>1. /\ p \notin Cached /\ file[p] # Missing
      /\ Full => Victims # {}
      /\ FileBecomes(FileAfterEvict(file))
      /\ Load(p, file'[p], FALSE)
      /\ Seen
      /\ UNCHANGED <<next_page_id, io_errors, stops>>
  BY DEF FetchMiss, Miss
<1>2. /\ file \in File /\ NoGaps(file)
      /\ file' = FileAfterEvict(file)
  BY <1>1, Types DEF Inv, FileOK, FileBecomes
<1>3. /\ Evictees \subseteq Cached
      /\ file' \in File
      /\ \A q \in PageIds : file'[q] = IF q \in Evictees THEN frames[q].data ELSE file[q]
      /\ NoGaps(file')
  BY <1>1, <1>2, EvictSpec DEF Inv
<1>4. file'[p] = file[p] /\ file[p] \in Data
  BY <1>1, <1>2, <1>3 DEF File
<1>5. /\ Cached' = (Cached \ Evictees) \cup {p}
      /\ Cached' \subseteq PageIds
      /\ frames' \in [Cached' -> Frame]
      /\ frames'[p] = [data |-> file'[p], is_dirty |-> FALSE, pin_count |-> 1]
      /\ \A q \in Cached \ Evictees : frames'[q] = frames[q]
      /\ PoolOK'
      /\ lru_order' \in Seq(PageIds)
  BY <1>1, <1>4, LoadSpec DEF Inv
<1>6. Same
  <2> SUFFICES ASSUME NEW q \in PageIds PROVE Content(q)' = Content(q)
    BY DEF Same
  <2>1. CASE q = p
    BY <1>1, <1>4, <1>5, <2>1 DEF Content
  <2>2. CASE q \in Cached \ Evictees
    BY <1>5, <2>2 DEF Content
  <2>3. CASE q \in Evictees
    <3>1. q \notin Cached' /\ q \in Cached
      BY <1>1, <1>3, <1>5, <2>3
    <3> QED BY <1>3, <2>3, <3>1 DEF Content
  <2>4. CASE q \notin Cached /\ q # p
    <3>1. q \notin Cached' /\ q \notin Evictees
      BY <1>3, <1>5, <2>4
    <3> QED BY <1>3, <2>4, <3>1 DEF Content
  <2> QED BY <2>1, <2>2, <2>3, <2>4
<1>7. TypeOK'
  BY <1>1, <1>2, <1>3, <1>5, Types, StepType DEF Inv
<1>8. CleanMatchesFile'
  <2> SUFFICES ASSUME NEW q \in Cached', ~ frames'[q].is_dirty
               PROVE  frames'[q].data = file'[q]
    BY DEF CleanMatchesFile
  <2>1. CASE q = p
    BY <1>5, <2>1
  <2>2. CASE q \in Cached \ Evictees
    BY <1>3, <1>5, <2>2, Types DEF Inv, CleanMatchesFile
  <2> QED BY <1>5, <2>1, <2>2
<1>9. FileOK'
  <2>1. \A q \in PageIds : file'[q] = Missing <=> file[q] = Missing
    <3>1. \A q \in Evictees : frames[q].data # Missing /\ file[q] # Missing
      BY <1>3, Types, PoolAssumption DEF Inv, FileOK
    <3> QED BY <1>3, <3>1
  <2>2. \A q \in Cached' : file[q] # Missing
    BY <1>1, <1>5 DEF Inv, FileOK
  <2>3. NoGaps(file)'
    BY <1>3 DEF NoGaps
  <2> QED BY <1>1, <1>5, <2>1, <2>2, <2>3 DEF Inv, FileOK
<1>10. History'
  <2>1. \A q \in PageIds : file'[q] \in {file[q], Content(q), Content(q)'}
    BY <1>3 DEF Content
  <2> QED BY <1>1, <1>2, <2>1, HistoryStep DEF Inv
<1> QED BY <1>1, <1>5, <1>6, <1>7, <1>8, <1>9, <1>10 DEF Inv

(* A write that leaves the frames alone, of frames' own data at most.      *)
LEMMA PoolStays ==
  ASSUME Inv, UNCHANGED poolVars, file' \in File, NoGaps(file'),
         \A q \in Cached : file'[q] \in {file[q], frames[q].data},
         \A q \in PageIds : file'[q] # Missing => q < next_page_id'
  PROVE  PoolOK' /\ CleanMatchesFile' /\ FileOK'
<1>1. PoolOK' /\ Cached' = Cached /\ frames' = frames
  BY DEF Inv, PoolOK, poolVars, Cached
<1>2. CleanMatchesFile'
  BY <1>1 DEF Inv, CleanMatchesFile
<1>3. \A q \in Cached' : file'[q] # Missing
  BY <1>1, Types, PoolAssumption DEF Inv, FileOK
<1>4. NoGaps(file)'
  BY DEF NoGaps
<1> QED BY <1>1, <1>2, <1>3, <1>4 DEF FileOK

LEMMA EvictStep ==
  ASSUME Inv, Full => Victims # {}, Evict
  PROVE  /\ Cached' = Cached \ Evictees
         /\ frames' \in [Cached' -> Frame]
         /\ \A q \in Cached' : frames'[q] = frames[q]
         /\ PoolOK'
         /\ lru_order' \in Seq(PageIds)
<1>1. frames' = [q \in Cached \ Evictees |-> frames[q]]
  BY DEF Evict
<1>2. Cached' = Cached \ Evictees
  BY <1>1 DEF Cached
<1>3. \A q \in Cached : frames[q] \in Frame
  BY Types DEF Inv
<1>4. lru_order' = Without(lru_order, Evictees)
  BY DEF Evict
<1>5. Lists(lru_order', Cached')
  BY <1>2, <1>4, RoomSpec DEF Inv
<1>6. Cardinality(Cached') <= Capacity
  BY <1>2, RoomSpec, PoolAssumption DEF Inv
<1>7. lru_order' \in Seq(PageIds)
  <2>1. Cached' \subseteq PageIds
    BY <1>2, Types DEF Inv
  <2> QED BY <1>5, <2>1, SeqMonotonic DEF Lists
<1> QED BY <1>1, <1>2, <1>3, <1>5, <1>6, <1>7 DEF PoolOK

LEMMA FetchFailsStep ==
  ASSUME Inv, NEW p \in PageIds, FetchFails(p)
  PROVE  Inv' /\ Same /\ Seen
<1>1. /\ IoError
      /\ Full => Victims # {}
      /\ \/ FileBecomes(FileAfterEvict(file)) /\ Evict
         \/ MayBecome(FileAfterEvict(file)) /\ UNCHANGED poolVars
      /\ Seen
      /\ UNCHANGED <<next_page_id, stops>>
  BY DEF FetchFails
<1> DEFINE g == FileAfterEvict(file)
<1>2. file \in File /\ NoGaps(file)
  BY Types DEF Inv, FileOK
<1>3. /\ Evictees \subseteq Cached
      /\ g \in File
      /\ \A q \in PageIds : g[q] = IF q \in Evictees THEN frames[q].data ELSE file[q]
      /\ NoGaps(g)
  BY <1>1, <1>2, EvictSpec DEF Inv
<1> HIDE DEF g
<1>4. FileBecomes(file') /\ file' \in {file, g}
  BY <1>1 DEF FileBecomes, MayBecome, g
<1>5. file' \in File /\ NoGaps(file')
  BY <1>2, <1>3, <1>4
<1>6. \A q \in PageIds : /\ file'[q] \in {file[q], Content(q)}
                         /\ q \notin Cached => file'[q] = file[q]
  BY <1>3, <1>4 DEF Content
<1>7. \A q \in PageIds : file'[q] = Missing <=> file[q] = Missing
  <2>1. \A q \in Evictees : frames[q].data # Missing /\ file[q] # Missing
    BY <1>3, Types, PoolAssumption DEF Inv, FileOK
  <2> QED BY <1>3, <1>4, <2>1
<1>8. CASE FileBecomes(g) /\ Evict
  <2>1. /\ Cached' = Cached \ Evictees
        /\ frames' \in [Cached' -> Frame]
        /\ \A q \in Cached' : frames'[q] = frames[q]
        /\ PoolOK'
        /\ lru_order' \in Seq(PageIds)
    BY <1>1, <1>8, EvictStep
  <2>2. Same
    <3> SUFFICES ASSUME NEW q \in PageIds PROVE Content(q)' = Content(q)
      BY DEF Same
    <3>1. CASE q \in Cached'
      BY <2>1, <3>1 DEF Content
    <3>2. CASE q \notin Cached'
      <4>1. q \in Evictees \/ q \notin Cached
        BY <2>1, <3>2
      <4>2. file'[q] = IF q \in Evictees THEN frames[q].data ELSE file[q]
        BY <1>3, <1>8 DEF FileBecomes
      <4> QED BY <1>3, <3>2, <4>1, <4>2 DEF Content
    <3> QED BY <3>1, <3>2
  <2>3. Cached' \subseteq PageIds /\ Cached' \subseteq Cached
    BY <2>1, Types DEF Inv
  <2>4. TypeOK'
    BY <1>1, <1>4, <1>5, <2>1, <2>3, Types, StepType DEF Inv
  <2>5. CleanMatchesFile'
    BY <1>3, <1>8, <2>1, Types DEF Inv, CleanMatchesFile, FileBecomes
  <2>6. FileOK'
    BY <1>1, <1>5, <1>7, <2>3, FileStep DEF Inv
  <2>7. History'
    BY <1>1, <1>4, <1>6, HistoryStep DEF Inv
  <2> QED BY <1>1, <2>1, <2>2, <2>4, <2>5, <2>6, <2>7 DEF Inv
<1>9. CASE UNCHANGED poolVars
  <2>1. Cached' = Cached /\ frames' = frames /\ lru_order' = lru_order
    BY <1>9 DEF poolVars, Cached
  <2>2. Same
    BY <1>6, <2>1 DEF Same, Content
  <2>3. TypeOK'
    BY <1>1, <1>4, <1>5, <2>1, Types, StepType DEF Inv, TypeOK
  <2>4. \A q \in Cached : file'[q] \in {file[q], frames[q].data}
    BY <1>6, Types DEF Inv, Content
  <2>5. \A q \in PageIds : file'[q] # Missing => q < next_page_id'
    BY <1>1, <1>7 DEF Inv, FileOK
  <2>6. PoolOK' /\ CleanMatchesFile' /\ FileOK'
    BY <1>5, <1>9, <2>4, <2>5, PoolStays
  <2>7. History'
    BY <1>1, <1>4, <1>6, HistoryStep DEF Inv
  <2> QED BY <1>1, <2>2, <2>3, <2>6, <2>7 DEF Inv
<1> QED BY <1>1, <1>8, <1>9 DEF g
---------------------------------------------------------------------------
(* create_page.                                                            *)
LEMMA AllocSpec ==
  ASSUME Inv, next_page_id < MaxPages, NEW f, f = Written(file, next_page_id, Zero)
  PROVE  /\ next_page_id \in PageIds /\ next_page_id \notin Cached
         /\ file[next_page_id] = Missing
         /\ f \in File /\ NoGaps(f)
         /\ f[next_page_id] = Zero
         /\ \A q \in Cached : f[q] = file[q]
         /\ \A q \in PageIds : \/ f[q] = file[q]
                               \/ file[q] = Missing /\ f[q] = Zero
         /\ \A q \in PageIds : f[q] # Missing => q < next_page_id + 1
<1> DEFINE n == next_page_id
<1>1. n \in PageIds /\ n \in Nat /\ PageIds \subseteq Nat
  BY Types, PoolAssumption DEF Inv, PageIds
<1>2. file[n] = Missing
  BY <1>1 DEF Inv, FileOK
<1>3. n \notin Cached
  BY <1>2 DEF Inv, FileOK
<1>4. file \in File /\ NoGaps(file) /\ Zero \in Data /\ Zero # Missing
  BY Types, PoolAssumption DEF Inv, FileOK
<1>5. /\ f \in File
      /\ f[n] = Zero
      /\ \A q \in PageIds : file[q] # Missing /\ q # n => f[q] = file[q]
      /\ \A q \in PageIds : file[q] = Missing /\ q # n =>
            f[q] = IF q < n THEN Zero ELSE Missing
      /\ NoGaps(f)
  BY <1>1, <1>4, WrittenSpec
<1>6. \A q \in Cached : f[q] = file[q]
  BY <1>2, <1>5, Types DEF Inv, FileOK
<1>7. \A q \in PageIds : \/ f[q] = file[q]
                         \/ file[q] = Missing /\ f[q] = Zero
  BY <1>2, <1>5
<1>8. ASSUME NEW q \in PageIds, f[q] # Missing PROVE q < n + 1
  <2>1. file[q] # Missing => q < n
    BY DEF Inv, FileOK
  <2>2. file[q] = Missing => q = n \/ q < n
    BY <1>5, <1>8
  <2> QED BY <1>1, <2>1, <2>2
<1> QED BY <1>1, <1>2, <1>3, <1>5, <1>6, <1>7, <1>8

LEMMA CreateStep ==
  ASSUME Inv, Create
  PROVE  Inv' /\ Grown /\ Seen
<1> DEFINE n == next_page_id
           f == Written(file, n, Zero)
<1>1. /\ n < MaxPages
      /\ Full => Victims # {}
      /\ next_page_id' = n + 1
      /\ FileBecomes(FileAfterEvict(f))
      /\ Load(n, Zero, TRUE)
      /\ Seen
      /\ UNCHANGED <<io_errors, stops>>
  BY DEF Create
<1>2. /\ n \in PageIds /\ n \notin Cached
      /\ file[n] = Missing
      /\ f \in File /\ NoGaps(f)
      /\ f[n] = Zero
      /\ \A q \in Cached : f[q] = file[q]
      /\ \A q \in PageIds : \/ f[q] = file[q]
                            \/ file[q] = Missing /\ f[q] = Zero
      /\ \A q \in PageIds : f[q] # Missing => q < n + 1
  BY <1>1, AllocSpec
<1> HIDE DEF f
<1>3. /\ Evictees \subseteq Cached
      /\ FileAfterEvict(f) \in File
      /\ \A q \in PageIds : FileAfterEvict(f)[q] =
                             IF q \in Evictees THEN frames[q].data ELSE f[q]
      /\ NoGaps(FileAfterEvict(f))
  BY <1>1, <1>2, EvictSpec DEF Inv
<1>4. /\ file' \in File
      /\ \A q \in PageIds : file'[q] = IF q \in Evictees THEN frames[q].data ELSE f[q]
      /\ NoGaps(file')
  BY <1>1, <1>3 DEF FileBecomes
<1>5. Zero \in Data /\ Zero # Missing
  BY PoolAssumption
<1>6. /\ Cached' = (Cached \ Evictees) \cup {n}
      /\ Cached' \subseteq PageIds
      /\ frames' \in [Cached' -> Frame]
      /\ frames'[n] = [data |-> Zero, is_dirty |-> TRUE, pin_count |-> 1]
      /\ \A q \in Cached \ Evictees : frames'[q] = frames[q]
      /\ PoolOK'
      /\ lru_order' \in Seq(PageIds)
  BY <1>1, <1>2, <1>5, LoadSpec DEF Inv
<1>7. \A q \in PageIds : \/ Content(q)' = Content(q)
                         \/ Content(q) = Missing /\ Content(q)' = Zero
  <2> TAKE q \in PageIds
  <2>1. CASE q = n
    BY <1>2, <1>6, <2>1 DEF Content
  <2>2. CASE q \in Cached \ Evictees
    BY <1>6, <2>2 DEF Content
  <2>3. CASE q \in Evictees
    <3>1. q \notin Cached' /\ q \in Cached
      BY <1>2, <1>3, <1>6, <2>3
    <3> QED BY <1>4, <2>3, <3>1 DEF Content
  <2>4. CASE q \notin Cached /\ q # n
    <3>1. q \notin Cached' /\ q \notin Evictees
      BY <1>3, <1>6, <2>4
    <3>2. file'[q] = f[q]
      BY <1>4, <3>1
    <3> QED BY <1>2, <2>4, <3>1, <3>2 DEF Content
  <2> QED BY <2>1, <2>2, <2>3, <2>4
<1>8. Grown
  BY <1>5, <1>7 DEF Grown
<1>9. next_page_id' \in Nat
  BY <1>1, Types DEF Inv
<1>10. FileBecomes(file')
  BY <1>1 DEF FileBecomes
<1>11. TypeOK'
  BY <1>1, <1>4, <1>6, <1>9, <1>10, StepType DEF Inv
<1>12. CleanMatchesFile'
  <2> SUFFICES ASSUME NEW q \in Cached', ~ frames'[q].is_dirty
               PROVE  frames'[q].data = file'[q]
    BY DEF CleanMatchesFile
  <2>1. q \in Cached \ Evictees /\ q \in PageIds
    BY <1>6
  <2> QED BY <1>2, <1>4, <1>6, <2>1 DEF Inv, CleanMatchesFile
<1>13. \A q \in PageIds : f[q] # Missing <=> file'[q] # Missing
  <2>1. \A q \in Evictees : frames[q].data # Missing /\ f[q] # Missing
    BY <1>2, <1>3, Types, PoolAssumption DEF Inv, FileOK
  <2> QED BY <1>4, <2>1
<1>14. FileOK'
  <2>1. \A q \in Cached' : f[q] # Missing
    BY <1>2, <1>5, <1>6 DEF Inv, FileOK
  <2>2. NoGaps(file)'
    BY <1>4 DEF NoGaps
  <2>3. \A q \in PageIds : file'[q] # Missing => q < next_page_id'
    BY <1>1, <1>2, <1>13
  <2> QED BY <1>6, <1>13, <2>1, <2>2, <2>3 DEF FileOK
<1>15. History'
  <2>1. ASSUME NEW q \in PageIds PROVE file'[q] \in {file[q], Content(q), Content(q)'}
    <3>1. CASE q \in Evictees
      BY <1>3, <1>4, <3>1 DEF Content
    <3>2. CASE q \notin Evictees /\ f[q] = file[q]
      BY <1>4, <3>2
    <3>3. CASE q \notin Evictees /\ file[q] = Missing /\ f[q] = Zero
      <4>1. file'[q] = Zero
        BY <1>4, <3>3
      <4>2. q \notin Cached
        BY <3>3 DEF Inv, FileOK
      <4>3. q \in Cached' => q = n
        BY <1>6, <4>2
      <4> QED BY <1>6, <4>1, <4>3 DEF Content
    <3> QED BY <1>2, <3>1, <3>2, <3>3
  <2> QED BY <1>1, <1>10, <2>1, HistoryStep DEF Inv
<1> QED BY <1>1, <1>6, <1>8, <1>11, <1>12, <1>14, <1>15 DEF Inv

LEMMA CreateErrStep ==
  ASSUME Inv, CreateFull \/ CreateFails
  PROVE  Inv' /\ Grown /\ Seen
<1> DEFINE n == next_page_id
           f == Written(file, n, Zero)
           g == FileAfterEvict(f)
<1>1. /\ n < MaxPages
      /\ next_page_id' = n + 1
      /\ \/ MayBecome(f)
         \/ Victims # {} /\ FileBecomes(g)
      /\ UNCHANGED poolVars
      /\ Seen
      /\ io_errors' = io_errors \/ IoError
      /\ stops' = stops
  BY DEF CreateFull, CreateFails, MayBecome
<1>2. /\ f \in File /\ NoGaps(f)
      /\ \A q \in Cached : f[q] = file[q]
      /\ \A q \in PageIds : \/ f[q] = file[q]
                            \/ file[q] = Missing /\ f[q] = Zero
      /\ \A q \in PageIds : f[q] # Missing => q < n + 1
  BY <1>1, AllocSpec
<1>3. Victims # {} =>
        /\ Evictees \subseteq Cached
        /\ g \in File
        /\ \A q \in PageIds : g[q] = IF q \in Evictees THEN frames[q].data ELSE f[q]
        /\ NoGaps(g)
  <2> HIDE DEF f
  <2> QED BY <1>2, EvictSpec DEF Inv
<1> HIDE DEF f, g
<1>4. /\ FileBecomes(file')
      /\ file' \in {file, f} \/ (Victims # {} /\ file' = g)
  BY <1>1 DEF FileBecomes, MayBecome
<1>5. file \in File /\ NoGaps(file) /\ Zero \in Data /\ Zero # Missing /\ n \in Nat
  BY Types, PoolAssumption DEF Inv, FileOK
<1>6. file' \in File /\ NoGaps(file')
  BY <1>2, <1>3, <1>4, <1>5
<1>7. \A q \in PageIds : /\ q \in Cached => file'[q] \in {file[q], frames[q].data}
                         /\ q \notin Cached => \/ file'[q] = file[q]
                                               \/ file[q] = Missing /\ file'[q] = Zero
  BY <1>2, <1>3, <1>4
<1>8. ASSUME NEW q \in PageIds, file'[q] # Missing PROVE q < n + 1
  <2>1. file[q] # Missing => q < n
    BY DEF Inv, FileOK
  <2>2. q \in Cached => file[q] # Missing
    BY DEF Inv, FileOK
  <2>3. file[q] # Missing \/ f[q] # Missing
    BY <1>3, <1>4, <1>8, <2>2
  <2>4. q \in Int
    BY PoolAssumption DEF PageIds
  <2> QED BY <1>2, <1>5, <2>1, <2>3, <2>4
<1>9. Cached' = Cached /\ frames' = frames /\ lru_order' = lru_order
  BY <1>1 DEF poolVars, Cached
<1>10. Grown
  BY <1>5, <1>7, <1>9 DEF Grown, Content
<1>11. next_page_id' \in Nat
  BY <1>1, <1>5
<1>12. TypeOK'
  BY <1>1, <1>4, <1>6, <1>9, <1>11, Types, StepType DEF Inv, TypeOK
<1>13. PoolOK' /\ CleanMatchesFile' /\ FileOK'
  <2>1. \A q \in Cached : file'[q] \in {file[q], frames[q].data}
    BY <1>7, Types DEF Inv
  <2> QED BY <1>1, <1>6, <1>8, <2>1, PoolStays
<1>14. History'
  <2>1. \A q \in PageIds : file'[q] \in {file[q], Content(q), Content(q)'}
    BY <1>7, <1>9 DEF Content
  <2> QED BY <1>1, <1>4, <2>1, HistoryStep DEF Inv
<1> QED BY <1>1, <1>10, <1>12, <1>13, <1>14 DEF Inv
---------------------------------------------------------------------------
(* Steps on the frames.                                                    *)
LEMMA WriteStep ==
  ASSUME Inv, NEW p \in PageIds, NEW d \in Data, WritePageData(p, d)
  PROVE  /\ Inv' /\ Seen
         /\ Content(p) # Missing /\ Content(p)' = d
         /\ \A q \in PageIds \ {p} : Content(q)' = Content(q)
<1>1. /\ p \in Cached
      /\ frames' = [frames EXCEPT ![p].data = d, ![p].is_dirty = TRUE]
      /\ UNCHANGED <<lru_order, next_page_id, file, unsynced, io_errors, stops>>
      /\ Seen
  BY DEF WritePageData, fileVars
<1>2. /\ Cached' = Cached
      /\ frames' \in [Cached -> Frame]
      /\ frames'[p].data = d /\ frames'[p].is_dirty
      /\ \A q \in Cached \ {p} : frames'[q] = frames[q]
  BY <1>1, Types DEF Inv, Cached, Frame
<1>3. Content(p) # Missing /\ Content(p)' = d
  BY <1>1, <1>2, Types, PoolAssumption DEF Inv, Content
<1>4. \A q \in PageIds \ {p} : Content(q)' = Content(q)
  BY <1>1, <1>2 DEF Content
<1>5. TypeOK'
  BY <1>1, <1>2, Types, StepType DEF Inv, TypeOK
<1>6. PoolOK'
  BY <1>1, <1>2 DEF Inv, PoolOK
<1>7. CleanMatchesFile'
  BY <1>1, <1>2 DEF Inv, CleanMatchesFile
<1>8. FileOK'
  BY <1>1, <1>2 DEF Inv, FileOK, NoGaps
<1>9. History'
  BY <1>1, HistoryStep DEF Inv
<1> QED BY <1>1, <1>3, <1>4, <1>5, <1>6, <1>7, <1>8, <1>9 DEF Inv

LEMMA UnpinStep ==
  ASSUME Inv, NEW p \in PageIds, Unpin(p)
  PROVE  Inv' /\ Same /\ UNCHANGED since
<1>1. /\ p \in Cached /\ frames[p].pin_count > 0
      /\ frames' = [frames EXCEPT ![p].pin_count = @ - 1]
      /\ UNCHANGED <<lru_order, next_page_id, file, unsynced, since, io_errors, stops>>
  BY DEF Unpin, fileVars
<1>2. /\ Cached' = Cached
      /\ frames' \in [Cached -> Frame]
      /\ \A q \in Cached : /\ frames'[q].data = frames[q].data
                           /\ frames'[q].is_dirty = frames[q].is_dirty
  <2>1. frames[p].pin_count - 1 \in Nat
    BY <1>1, Types DEF Inv
  <2> QED BY <1>1, <2>1, Types DEF Inv, Cached, Frame
<1>3. Same
  BY <1>1, <1>2 DEF Same, Content
<1>4. TypeOK'
  BY <1>1, <1>2, Types, StepType DEF Inv, TypeOK
<1>5. PoolOK'
  BY <1>1, <1>2 DEF Inv, PoolOK
<1>6. CleanMatchesFile'
  BY <1>1, <1>2 DEF Inv, CleanMatchesFile
<1>7. FileOK'
  BY <1>1, <1>2 DEF Inv, FileOK, NoGaps
<1>8. History'
  BY <1>1, <1>3, HistoryStep DEF Inv
<1> QED BY <1>1, <1>3, <1>4, <1>5, <1>6, <1>7, <1>8 DEF Inv

(* The write of one frame, whether it is then marked clean or not.         *)
LEMMA FlushPageStep ==
  ASSUME Inv, NEW p \in PageIds, FlushPage(p) \/ FlushFails(p)
  PROVE  Inv' /\ Same /\ UNCHANGED since
<1> DEFINE f == Written(file, p, frames[p].data)
<1>1. /\ p \in Cached
      /\ FileBecomes(file') /\ file' \in {file, f}
      /\ \/ UNCHANGED poolVars
         \/ /\ file' = f
            /\ frames' = [frames EXCEPT ![p].is_dirty = FALSE]
            /\ lru_order' = lru_order
      /\ UNCHANGED <<next_page_id, since, stops>>
      /\ io_errors' = io_errors \/ IoError
  BY DEF FlushPage, FlushFails, FileBecomes, MayBecome
<1>2. /\ file \in File /\ NoGaps(file)
      /\ frames[p].data \in Data /\ frames[p].data # Missing /\ file[p] # Missing
  BY <1>1, Types, PoolAssumption DEF Inv, FileOK
<1>3. /\ f \in File /\ NoGaps(f)
      /\ \A q \in PageIds : f[q] = IF q = p THEN frames[p].data ELSE file[q]
  BY <1>2, WrittenSpec, OverwriteSpec
<1> HIDE DEF f
<1>4. /\ file' \in File /\ NoGaps(file')
      /\ \A q \in PageIds \ {p} : file'[q] = file[q]
      /\ file'[p] \in {file[p], frames[p].data}
      /\ \A q \in PageIds : file'[q] = Missing <=> file[q] = Missing
  BY <1>1, <1>2, <1>3
<1>5. /\ Cached' = Cached
      /\ frames' \in [Cached -> Frame]
      /\ lru_order' = lru_order
      /\ \A q \in Cached : /\ frames'[q].data = frames[q].data
                           /\ frames'[q].is_dirty = frames[q].is_dirty \/ (q = p /\ file' = f)
  <2>1. CASE UNCHANGED poolVars
    BY <2>1, Types DEF Inv, poolVars, Cached
  <2>2. CASE /\ file' = f
             /\ frames' = [frames EXCEPT ![p].is_dirty = FALSE]
             /\ lru_order' = lru_order
    BY <1>1, <2>2, Types DEF Inv, Cached, Frame
  <2> QED BY <1>1, <2>1, <2>2
<1>6. Same
  BY <1>1, <1>4, <1>5 DEF Same, Content
<1>7. TypeOK'
  BY <1>1, <1>4, <1>5, Types, StepType DEF Inv, TypeOK
<1>8. PoolOK'
  BY <1>5 DEF Inv, PoolOK
<1>9. CleanMatchesFile'
  <2> SUFFICES ASSUME NEW q \in Cached, ~ frames'[q].is_dirty
               PROVE  frames'[q].data = file'[q]
    BY <1>5 DEF CleanMatchesFile
  <2>1. q \in PageIds
    BY Types DEF Inv
  <2>2. CASE q = p /\ file' = f
    BY <1>3, <1>5, <2>1, <2>2
  <2>3. CASE frames'[q].is_dirty = frames[q].is_dirty
    <3>1. frames[q].data = file[q]
      BY <2>3 DEF Inv, CleanMatchesFile
    <3>2. file'[q] \in {file[q], frames[q].data}
      BY <1>4, <2>1
    <3> QED BY <1>5, <3>1, <3>2
  <2> QED BY <1>5, <2>2, <2>3
<1>10. FileOK'
  BY <1>1, <1>4, <1>5, FileStep DEF Inv
<1>11. History'
  <2>1. \A q \in PageIds : file'[q] \in {file[q], Content(q), Content(q)'}
    BY <1>1, <1>4 DEF Content
  <2> QED BY <1>1, <1>6, <2>1, HistoryStep DEF Inv
<1> QED BY <1>1, <1>6, <1>7, <1>8, <1>9, <1>10, <1>11 DEF Inv
---------------------------------------------------------------------------
(* flush_all, in whole or in part, and shutdown.                           *)
LEMMA FlushedSpec ==
  ASSUME Inv, NEW S \in SUBSET Cached
  PROVE  /\ FlushedFile(S) \in File
         /\ NoGaps(FlushedFile(S))
         /\ \A q \in PageIds : FlushedFile(S)[q] = IF q \in S THEN frames[q].data ELSE file[q]
         /\ \A q \in PageIds : FlushedFile(S)[q] = Missing <=> file[q] = Missing
<1>1. Zero \in Data /\ Missing \notin Data /\ S \subseteq PageIds
  BY PoolAssumption, Types DEF Inv
<1>2. \A q \in PageIds : FlushedFile(S)[q] =
         IF q \in S /\ frames[q].is_dirty THEN frames[q].data
         ELSE IF file[q] = Missing /\ \E p \in S : frames[p].is_dirty /\ q < p
                THEN Zero ELSE file[q]
  BY DEF FlushedFile
<1>3. \A q \in PageIds : \A p \in S : q < p => file[q] # Missing
  BY <1>1 DEF Inv, FileOK, NoGaps
<1>4. \A q \in S : ~ frames[q].is_dirty => frames[q].data = file[q]
  BY DEF Inv, CleanMatchesFile
<1>5. \A q \in S : frames[q].data \in Data /\ file[q] # Missing
  BY Types DEF Inv, FileOK
<1>6. \A q \in PageIds : FlushedFile(S)[q] = IF q \in S THEN frames[q].data ELSE file[q]
  BY <1>2, <1>3, <1>4, <1>5
<1>7. FlushedFile(S) \in File
  <2>1. \A q \in PageIds : FlushedFile(S)[q] \in Data \cup {Missing}
    BY <1>5, <1>6, Types DEF Inv, File
  <2> QED BY <2>1 DEF FlushedFile, File
<1>8. \A q \in PageIds : FlushedFile(S)[q] = Missing <=> file[q] = Missing
  BY <1>1, <1>5, <1>6
<1>9. NoGaps(FlushedFile(S))
  BY <1>8 DEF Inv, FileOK, NoGaps
<1> QED BY <1>6, <1>7, <1>8, <1>9

LEMMA CleanedSpec ==
  ASSUME Inv, NEW S \in SUBSET Cached, frames' = Cleaned(S)
  PROVE  /\ Cached' = Cached
         /\ frames' \in [Cached -> Frame]
         /\ \A q \in Cached : /\ frames'[q].data = frames[q].data
                              /\ frames'[q].pin_count = frames[q].pin_count
                              /\ q \notin S => frames'[q].is_dirty = frames[q].is_dirty
BY Types DEF Inv, Cleaned, Cached, Frame

LEMMA FlushAllFailsStep ==
  ASSUME Inv, FlushAllFails
  PROVE  Inv' /\ Same /\ Seen
<1>1. PICK W \in SUBSET Cached : \E S \in SUBSET W :
        FileBecomes(FlushedFile(W)) /\ frames' = Cleaned(S)
  BY DEF FlushAllFails
<1>0. PICK S \in SUBSET W : FileBecomes(FlushedFile(W)) /\ frames' = Cleaned(S)
  BY <1>1
<1>2. IoError /\ UNCHANGED <<lru_order, next_page_id, stops>> /\ Seen
  BY DEF FlushAllFails
<1>3. /\ Cached' = Cached
      /\ frames' \in [Cached -> Frame]
      /\ \A q \in Cached : /\ frames'[q].data = frames[q].data
                           /\ q \notin S => frames'[q].is_dirty = frames[q].is_dirty
  BY <1>0, CleanedSpec
<1>4. FileBecomes(file') /\ file' = FlushedFile(W)
  BY <1>0 DEF FileBecomes
<1>5. /\ file' \in File /\ NoGaps(file')
      /\ \A q \in PageIds : file'[q] = IF q \in W THEN frames[q].data ELSE file[q]
      /\ \A q \in PageIds : file'[q] = Missing <=> file[q] = Missing
  BY <1>4, FlushedSpec
<1>6. Same
  BY <1>3, <1>5 DEF Same, Content
<1>7. TypeOK'
  BY <1>2, <1>3, <1>4, <1>5, Types, StepType DEF Inv, TypeOK
<1>8. PoolOK'
  BY <1>2, <1>3 DEF Inv, PoolOK
<1>9. CleanMatchesFile'
  BY <1>3, <1>5, Types DEF Inv, CleanMatchesFile
<1>10. FileOK'
  BY <1>2, <1>3, <1>5, FileStep DEF Inv
<1>11. History'
  <2>1. \A q \in PageIds : file'[q] \in {file[q], Content(q), Content(q)'}
    BY <1>5 DEF Content
  <2> QED BY <1>2, <1>4, <2>1, HistoryStep DEF Inv
<1> QED BY <1>2, <1>6, <1>7, <1>8, <1>9, <1>10, <1>11 DEF Inv

LEMMA FlushAllStep ==
  ASSUME Inv, FlushAll \/ Shutdown
  PROVE  Inv' /\ Same /\ since' = [q \in PageIds |-> {Content(q)'}]
<1>1. /\ file' = FlushedFile(Cached)
      /\ unsynced' = [q \in PageIds |-> {file'[q]}]
      /\ UNCHANGED <<next_page_id, io_errors, stops>>
  BY DEF FlushAll, Shutdown
<1>2. /\ file' \in File /\ NoGaps(file')
      /\ \A q \in PageIds : file'[q] = Content(q)
      /\ \A q \in PageIds : file'[q] = Missing <=> file[q] = Missing
  BY <1>1, FlushedSpec DEF Content
<1>3. /\ Cached' \subseteq Cached /\ Cached' \subseteq PageIds
      /\ frames' \in [Cached' -> Frame]
      /\ \A q \in Cached' : frames'[q].data = frames[q].data
      /\ PoolOK'
      /\ lru_order' \in Seq(PageIds)
  <2>1. CASE FlushAll
    <3>1. frames' = Cleaned(Cached) /\ lru_order' = lru_order
      BY <2>1 DEF FlushAll
    <3>2. /\ Cached' = Cached
          /\ frames' \in [Cached -> Frame]
          /\ \A q \in Cached : frames'[q].data = frames[q].data
      BY <3>1, CleanedSpec
    <3> QED BY <3>1, <3>2, Types DEF Inv, PoolOK, TypeOK
  <2>2. CASE Shutdown
    <3>1. Cached' = {} /\ frames' \in [{} -> Frame] /\ lru_order' = << >>
      BY <2>2 DEF Shutdown, NoFrames, Cached
    <3>2. Cardinality({}) <= Capacity
      BY FS_EmptySet, PoolAssumption
    <3>3. Lists(<< >>, {}) /\ << >> \in Seq(PageIds)
      BY EmptySeq DEF Lists
    <3> QED BY <3>1, <3>2, <3>3 DEF PoolOK
  <2> QED BY <2>1, <2>2
<1>4. \A q \in PageIds : Content(q)' = file'[q]
  BY <1>2, <1>3 DEF Content
<1>5. Same
  BY <1>2, <1>4 DEF Same
<1>6. since' = [q \in PageIds |-> {Content(q)'}]
  <2>1. CASE FlushAll
    BY <2>1 DEF FlushAll
  <2>2. CASE Shutdown
    <3>1. since' = [q \in PageIds |-> {file'[q]}]
      BY <2>2 DEF Shutdown
    <3> QED BY <1>4, <3>1
  <2> QED BY <2>1, <2>2
<1>7. TypeOK'
  <2>1. /\ unsynced' \in [PageIds -> SUBSET (Data \cup {Missing})]
        /\ since' \in [PageIds -> SUBSET (Data \cup {Missing})]
    BY <1>1, <1>2, <1>4, <1>6 DEF File
  <2>2. next_page_id' \in Nat /\ {io_errors', stops'} \subseteq Nat
    BY <1>1, Types DEF Inv
  <2> QED BY <1>2, <1>3, <2>1, <2>2 DEF TypeOK, File
<1>8. CleanMatchesFile'
  BY <1>2, <1>3 DEF CleanMatchesFile, Content
<1>9. FileOK'
  BY <1>1, <1>2, <1>3, FileStep DEF Inv
<1>10. History'
  BY <1>1, <1>4, <1>6 DEF History
<1> QED BY <1>3, <1>5, <1>6, <1>7, <1>8, <1>9, <1>10 DEF Inv
---------------------------------------------------------------------------
(* The pages of a file without gaps are counted by the number that comes   *)
(* next.                                                                   *)
LEMMA CountSpec ==
  ASSUME NEW f \in File, NoGaps(f)
  PROVE  /\ Cardinality({p \in PageIds : f[p] # Missing}) \in Nat
         /\ \A p \in PageIds : f[p] # Missing =>
              p < Cardinality({q \in PageIds : f[q] # Missing})
<1> DEFINE P == {p \in PageIds : f[p] # Missing}
<1>1. MaxPages - 1 \in Int /\ PageIds = 0 .. MaxPages - 1 /\ PageIds \subseteq Nat
  BY PoolAssumption DEF PageIds
<1>2. IsFiniteSet(PageIds) /\ P \in SUBSET PageIds
  BY <1>1, FS_Interval
<1>3. IsFiniteSet(P) /\ Cardinality(P) \in Nat
  <2> HIDE DEF P
  <2> QED BY <1>2, FS_Subset, FS_CardinalityType
<1>4. ASSUME NEW p \in PageIds, f[p] # Missing PROVE p < Cardinality(P)
  <2>1. p \in Nat
    BY <1>1
  <2>2. 0 .. p \in SUBSET P
    <3> SUFFICES ASSUME NEW q \in 0 .. p PROVE q \in P
      OBVIOUS
    <3>1. q \in PageIds /\ (q < p \/ q = p)
      BY <1>1, <2>1
    <3> QED BY <1>4, <3>1 DEF NoGaps
  <2>3. Cardinality(0 .. p) = p + 1
    BY <2>1, FS_Interval
  <2>4. Cardinality(0 .. p) <= Cardinality(P)
    <3> HIDE DEF P
    <3> QED BY <1>3, <2>2, FS_Subset
  <2> HIDE DEF P
  <2> QED BY <1>3, <2>1, <2>3, <2>4
<1> QED BY <1>3, <1>4

(* The process or the machine stops.                                       *)
LEMMA StopStep ==
  ASSUME Inv, Kill \/ PowerLoss
  PROVE  /\ Inv'
         /\ \A p \in PageIds : Content(p)' \in since[p]
         /\ UNCHANGED since \/ since' = [p \in PageIds |-> {Content(p)'}]
<1>1. /\ Reopened
      /\ io_errors' = io_errors /\ stops' \in Nat
      /\ file' \in File /\ NoGaps(file')
      /\ \A p \in PageIds : file'[p] \in unsynced[p]
      /\ \/ UNCHANGED <<unsynced, since>>
         \/ unsynced' = [p \in PageIds |-> {file'[p]}] /\ since' = unsynced'
  <2>1. stops + 1 \in Nat
    BY Types DEF Inv
  <2>2. CASE Kill
    BY <2>1, <2>2, Types DEF Kill, Inv, FileOK, History
  <2>3. CASE PowerLoss
    BY <2>1, <2>3 DEF PowerLoss, File, NoGaps
  <2> QED BY <2>2, <2>3
<1>2. /\ Cached' = {} /\ frames' \in [{} -> Frame] /\ lru_order' = << >>
      /\ next_page_id' = Cardinality({p \in PageIds : file'[p] # Missing})
  BY <1>1 DEF Reopened, NoFrames, Cached
<1>3. /\ next_page_id' \in Nat
      /\ \A p \in PageIds : file'[p] # Missing => p < next_page_id'
  BY <1>1, <1>2, CountSpec
<1>4. \A p \in PageIds : Content(p)' = file'[p]
  BY <1>2 DEF Content
<1>5. \A p \in PageIds : Content(p)' \in since[p]
  BY <1>1, <1>4 DEF Inv, History
<1>6. UNCHANGED since \/ since' = [p \in PageIds |-> {Content(p)'}]
  BY <1>1, <1>4
<1>7. TypeOK'
  <2>1. /\ unsynced' \in [PageIds -> SUBSET (Data \cup {Missing})]
        /\ since' \in [PageIds -> SUBSET (Data \cup {Missing})]
    BY <1>1, Types DEF Inv, File
  <2>2. << >> \in Seq(PageIds)
    BY EmptySeq
  <2>3. {io_errors', stops'} \subseteq Nat
    BY <1>1, Types DEF Inv
  <2> QED BY <1>1, <1>2, <1>3, <2>1, <2>2, <2>3 DEF TypeOK, File
<1>8. PoolOK'
  <2>1. Cardinality({}) <= Capacity
    BY FS_EmptySet, PoolAssumption
  <2>2. Lists(<< >>, {})
    BY EmptySeq DEF Lists
  <2> QED BY <1>2, <2>1, <2>2 DEF PoolOK
<1>9. CleanMatchesFile'
  BY <1>2 DEF CleanMatchesFile
<1>10. FileOK'
  BY <1>1, <1>2, <1>3 DEF FileOK, NoGaps
<1>11. History'
  BY <1>1, <1>4 DEF Inv, History
<1> QED BY <1>5, <1>6, <1>7, <1>8, <1>9, <1>10, <1>11 DEF Inv
---------------------------------------------------------------------------
LEMMA InvInit == Init => Inv
<1> SUFFICES ASSUME Init PROVE Inv
  OBVIOUS
<1>1. /\ Cached = {} /\ frames \in [Cached -> Frame] /\ lru_order = << >>
      /\ next_page_id = 0 /\ io_errors = 0 /\ stops = 0
      /\ file = [p \in PageIds |-> Missing]
      /\ unsynced = [p \in PageIds |-> {Missing}]
      /\ since = unsynced
  BY DEF Init, Cached
<1>2. TypeOK
  BY <1>1, EmptySeq DEF TypeOK
<1>3. PoolOK
  <2>1. Cardinality({}) <= Capacity
    BY FS_EmptySet, PoolAssumption
  <2>2. Lists(<< >>, {})
    BY EmptySeq DEF Lists
  <2> QED BY <1>1, <2>1, <2>2 DEF PoolOK
<1>4. CleanMatchesFile /\ FileOK /\ History
  BY <1>1 DEF CleanMatchesFile, FileOK, NoGaps, History, Content
<1> QED BY <1>2, <1>3, <1>4 DEF Inv

LEMMA InvNext == Inv /\ [Next]_vars => Inv'
<1> SUFFICES ASSUME Inv, [Next]_vars PROVE Inv'
  OBVIOUS
<1>1. ASSUME NEW p \in PageIds, FetchHit(p) PROVE Inv'
  BY <1>1, FetchHitStep
<1>2. ASSUME NEW p \in PageIds, FetchMiss(p) PROVE Inv'
  BY <1>2, FetchMissStep
<1>3. ASSUME NEW p \in PageIds, FetchFails(p) PROVE Inv'
  BY <1>3, FetchFailsStep
<1>4. ASSUME NEW p \in PageIds, Unpin(p) PROVE Inv'
  BY <1>4, UnpinStep
<1>5. ASSUME NEW p \in PageIds, FlushPage(p) \/ FlushFails(p) PROVE Inv'
  BY <1>5, FlushPageStep
<1>6. ASSUME NEW p \in PageIds, NEW d \in Data, WritePageData(p, d) PROVE Inv'
  BY <1>6, WriteStep
<1>7. CASE Create
  BY <1>7, CreateStep
<1>8. CASE CreateFull \/ CreateFails
  BY <1>8, CreateErrStep
<1>9. CASE FlushAll \/ Shutdown
  BY <1>9, FlushAllStep
<1>10. CASE FlushAllFails
  BY <1>10, FlushAllFailsStep
<1>11. CASE Kill \/ PowerLoss
  BY <1>11, StopStep
<1>12. CASE UNCHANGED vars
  BY <1>12 DEF Inv, TypeOK, PoolOK, CleanMatchesFile, FileOK, NoGaps, History, Content, Cached,
               vars, poolVars, fileVars
<1> QED BY <1>1, <1>2, <1>3, <1>4, <1>5, <1>6, <1>7, <1>8, <1>9, <1>10, <1>11, <1>12 DEF Next

(* The strengthened invariant, whose parts are the theorems below.         *)
THEOREM InvHolds == Spec => []Inv
<1>1. Init => Inv
  BY InvInit
<1>2. Inv /\ [Next]_vars => Inv'
  BY InvNext
<1> QED BY <1>1, <1>2, PTL DEF Spec

(* Frames, list, counters and file keep their types: unpin never takes a   *)
(* count below zero.                                                       *)
THEOREM TypeCorrect == Spec => []TypeOK
<1>1. Inv => TypeOK
  BY DEF Inv
<1> QED BY <1>1, InvHolds, PTL

(* What evict drops without writing is in the file.                        *)
THEOREM CleanFramesMatch == Spec => []CleanMatchesFile
<1>1. Inv => CleanMatchesFile
  BY DEF Inv
<1> QED BY <1>1, InvHolds, PTL

(* At most Capacity frames, each listed once.                              *)
THEOREM LruComplete == Spec => []LruListsFrames
<1>1. Inv => LruListsFrames
  BY ListsLength DEF Inv, PoolOK, LruListsFrames
<1> QED BY <1>1, InvHolds, PTL
---------------------------------------------------------------------------
(* Only a page without a pin is evicted.                                   *)
THEOREM PinsHold == Spec => PinnedStays
<1> DEFINE Stays == \A p \in Cached : frames[p].pin_count > 0 =>
                      \/ frames' = [q \in {} |-> Zero]
                      \/ p \in DOMAIN frames' /\ frames'[p].pin_count + 1 >= frames[p].pin_count
           Kept(p) == p \in Cached' /\ frames'[p].pin_count = frames[p].pin_count
<1>1. ASSUME TypeOK, \A p \in Cached : frames[p].pin_count > 0 => Kept(p)
      PROVE  Stays
  BY <1>1, Types DEF Cached
<1>2. Inv /\ [Next]_vars => [Stays]_vars
  <2> SUFFICES ASSUME Inv, Next PROVE Stays
    OBVIOUS
  <2>1. ASSUME NEW p \in PageIds, FetchHit(p) PROVE Stays
    BY <2>1, Types DEF FetchHit, Inv, Cached, Frame
  <2>2. ASSUME NEW p \in PageIds, FetchMiss(p) PROVE Stays
    <3>1. /\ p \notin Cached /\ file[p] # Missing
          /\ Full => Victims # {}
          /\ file' = FileAfterEvict(file)
          /\ Load(p, file'[p], FALSE)
      BY <2>2 DEF FetchMiss, Miss, FileBecomes
    <3>2. file \in File /\ NoGaps(file)
      BY Types DEF Inv, FileOK
    <3>3. /\ \A q \in Evictees : frames[q].pin_count = 0
          /\ p \notin Evictees
          /\ file'[p] = file[p]
      BY <3>1, <3>2, EvictSpec DEF Inv
    <3>4. file'[p] \in Data
      BY <3>1, <3>2, <3>3 DEF File
    <3>5. /\ Cached' = (Cached \ Evictees) \cup {p}
          /\ \A q \in Cached \ Evictees : frames'[q] = frames[q]
      BY <3>1, <3>4, LoadSpec DEF Inv
    <3> QED BY <1>1, <3>3, <3>5 DEF Inv
  <2>3. ASSUME NEW p \in PageIds, FetchFails(p) PROVE Stays
    <3>1. (Full => Victims # {}) /\ (Evict \/ UNCHANGED poolVars)
      BY <2>3 DEF FetchFails
    <3>2. \A q \in Evictees : frames[q].pin_count = 0
      BY <3>1, VictimSpec DEF Inv, Evictees
    <3>3. CASE Evict
      <4>1. Cached' = Cached \ Evictees /\ \A q \in Cached' : frames'[q] = frames[q]
        BY <3>1, <3>3, EvictStep
      <4> QED BY <1>1, <3>2, <4>1 DEF Inv
    <3>4. CASE UNCHANGED poolVars
      BY <1>1, <3>4 DEF Inv, poolVars, Cached
    <3> QED BY <3>1, <3>3, <3>4
  <2>4. ASSUME NEW p \in PageIds, Unpin(p) PROVE Stays
    BY <2>4, Types DEF Unpin, Inv, Cached, Frame
  <2>5. ASSUME NEW p \in PageIds, FlushPage(p) \/ FlushFails(p) PROVE Stays
    BY <2>5, Types DEF FlushPage, FlushFails, poolVars, Inv, Cached, Frame
  <2>6. ASSUME NEW p \in PageIds, NEW d \in Data, WritePageData(p, d) PROVE Stays
    BY <2>6, Types DEF WritePageData, Inv, Cached, Frame
  <2>7. CASE Create
    <3>1. /\ next_page_id < MaxPages
          /\ Full => Victims # {}
          /\ Load(next_page_id, Zero, TRUE)
      BY <2>7 DEF Create
    <3>2. next_page_id \in PageIds /\ next_page_id \notin Cached
      BY <3>1, AllocSpec
    <3>3. /\ Cached' = (Cached \ Evictees) \cup {next_page_id}
          /\ \A q \in Cached \ Evictees : frames'[q] = frames[q]
      BY <3>1, <3>2, LoadSpec, PoolAssumption DEF Inv
    <3>4. \A q \in Evictees : frames[q].pin_count = 0
      BY <3>1, VictimSpec DEF Inv, Evictees
    <3> QED BY <1>1, <3>3, <3>4 DEF Inv
  <2>8. CASE CreateFull \/ CreateFails
    BY <1>1, <2>8 DEF CreateFull, CreateFails, poolVars, Inv, Cached
  <2>9. CASE FlushAll \/ FlushAllFails
    <3>1. PICK S \in SUBSET Cached : frames' = Cleaned(S)
      BY <2>9 DEF FlushAll, FlushAllFails
    <3> QED BY <1>1, <3>1, CleanedSpec DEF Inv
  <2>10. CASE Shutdown \/ Kill \/ PowerLoss
    BY <2>10 DEF Shutdown, Kill, PowerLoss, Reopened, NoFrames
  <2> QED BY <2>1, <2>2, <2>3, <2>4, <2>5, <2>6, <2>7, <2>8, <2>9, <2>10 DEF Next
<1>3. Spec => [][Stays]_vars
  <2> HIDE DEF Stays
  <2> QED BY <1>2, InvHolds, PTL DEF Spec
<1> QED BY <1>3 DEF PinnedStays
---------------------------------------------------------------------------
(* The refinement.  What a step of the pool is to its readers.             *)
View == [p \in PageIds |-> Content(p)]

LEMMA StutterView ==
  ASSUME Inv, Same, Seen \/ UNCHANGED since
  PROVE  View' = View /\ since' = since
<1>1. View' = View
  BY DEF View, Same
<1>2. CASE Seen
  <2>1. \A p \in PageIds : since'[p] = since[p]
    BY <1>2 DEF Seen, Same, Inv, History
  <2>2. since' = [p \in PageIds |-> since'[p]] /\ since = [p \in PageIds |-> since[p]]
    BY <1>2, Types DEF Seen, Inv
  <2> QED BY <1>1, <2>1, <2>2
<1> QED BY <1>1, <1>2

LEMMA GrowView ==
  ASSUME Grown, Seen
  PROVE  PS!Grow
BY DEF Grown, Seen, PS!Grow, PS!Seen

LEMMA WriteView ==
  ASSUME NEW p \in PageIds, NEW d \in Data, Seen,
         Content(p) # Missing, Content(p)' = d,
         \A q \in PageIds \ {p} : Content(q)' = Content(q)
  PROVE  PS!Write(p, d)
BY DEF Seen, PS!Write, PS!Seen

LEMMA SyncView ==
  ASSUME Same, since' = [q \in PageIds |-> {Content(q)'}]
  PROVE  PS!Sync
BY DEF Same, PS!Sync

LEMMA StopView ==
  ASSUME TypeOK', \A p \in PageIds : Content(p)' \in since[p],
         UNCHANGED since \/ since' = [p \in PageIds |-> {Content(p)'}]
  PROVE  PS!Stop
<1>1. \A p \in PageIds : Content(p)' \in Data \cup {Missing}
  <2>1. \A p \in Cached' : frames'[p].data \in Data
    BY DEF TypeOK, Frame
  <2> QED BY <2>1 DEF TypeOK, Content
<1> QED BY <1>1 DEF PS!Stop

LEMMA StepView ==
  ASSUME Inv, Inv', Next
  PROVE  PS!Next \/ (View' = View /\ since' = since)
<1>1. ASSUME NEW p \in PageIds, FetchHit(p) \/ FetchMiss(p) \/ FetchFails(p) \/ Unpin(p)
                                \/ FlushPage(p) \/ FlushFails(p)
      PROVE  View' = View /\ since' = since
  BY <1>1, FetchHitStep, FetchMissStep, FetchFailsStep, UnpinStep, FlushPageStep, StutterView
<1>2. ASSUME NEW p \in PageIds, NEW d \in Data, WritePageData(p, d) PROVE PS!Next
  <2>1. PS!Write(p, d)
    BY <1>2, WriteStep, WriteView
  <2> QED BY <2>1 DEF PS!Next
<1>3. CASE Create \/ CreateFull \/ CreateFails
  <2>1. PS!Grow
    BY <1>3, CreateStep, CreateErrStep, GrowView
  <2> QED BY <2>1 DEF PS!Next
<1>4. CASE FlushAll \/ Shutdown
  <2>1. PS!Sync
    BY <1>4, FlushAllStep, SyncView
  <2> QED BY <2>1 DEF PS!Next
<1>5. CASE FlushAllFails
  BY <1>5, FlushAllFailsStep, StutterView
<1>6. CASE Kill \/ PowerLoss
  <2>1. PS!Stop
    BY <1>6, StopStep, StopView DEF Inv
  <2> QED BY <2>1 DEF PS!Next
<1> QED BY <1>1, <1>2, <1>3, <1>4, <1>5, <1>6 DEF Next

(* The pool over its file is a store of pages, whatever is cached, evicted *)
(* or fails, and through kills and power losses.                           *)
THEOREM PoolImplementsPageStore == Spec => ImplementsPageStore
<1>1. Init => PS!Init
  BY DEF Init, PS!Init, Content, Cached
<1>2. Inv /\ Inv' /\ [Next]_vars => [PS!Next]_(PS!vars)
  <2> SUFFICES ASSUME Inv, Inv', [Next]_vars
               PROVE  PS!Next \/ UNCHANGED PS!vars
    OBVIOUS
  <2>1. CASE Next
    BY <2>1, StepView DEF PS!vars, View
  <2>2. CASE UNCHANGED vars
    BY <2>2 DEF vars, poolVars, fileVars, PS!vars, Content, Cached
  <2> QED BY <2>1, <2>2
<1> QED BY <1>1, <1>2, InvHolds, PTL DEF Spec, PS!Spec, ImplementsPageStore
===========================================================================
