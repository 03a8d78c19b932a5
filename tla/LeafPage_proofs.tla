--------------------------- MODULE LeafPage_proofs ------------------------
(***************************************************************************)
(* What holds of a leaf and its bytes for keys and values of every length. *)
(* First the order of byte strings: compare_keys is a strict total order,  *)
(* and the range of prefix_scan has every key with the prefix and, but for *)
(* its upper bound, no other, unless the prefix ends in 0xFF.  Then where  *)
(* entries end, what deserialize makes of a leaf, what each call does to   *)
(* the map the leaf stands for, and the properties of LeafPage.            *)
(***************************************************************************)
EXTENDS LeafPage, NaturalOrder, SequenceTheorems

ByteString == Seq(Byte)

(* What SMT needs to know of a byte string.                                *)
LEMMA ByteStringFacts ==
  ASSUME NEW s \in ByteString
  PROVE  /\ Len(s) \in Nat
         /\ DOMAIN s = 1 .. Len(s)
         /\ s \in [1 .. Len(s) -> Byte]
         /\ \A i \in DOMAIN s : s[i] \in Int
<1>1. Len(s) \in Nat /\ DOMAIN s = 1 .. Len(s) /\ s \in [1 .. Len(s) -> Byte]
  BY LenProperties DEF ByteString
<1>2. \A i \in DOMAIN s : s[i] \in Byte
  BY <1>1
<1>3. \A i \in DOMAIN s : s[i] \in Int
  BY <1>2 DEF Byte
<1> QED BY <1>1, <1>3

(* No key is less than itself.                                             *)
LEMMA LessIrreflexive ==
  ASSUME NEW a \in ByteString
  PROVE  ~Less(a, a)
<1> SUFFICES ASSUME NEW i \in DOMAIN a, i \in DOMAIN a => a[i] < a[i] PROVE FALSE
  BY DEF Less
<1>1. a[i] \in Int
  BY ByteStringFacts
<1> QED BY <1>1

(* compare_keys is transitive: the first difference decides.               *)
LEMMA LessTransitive ==
  ASSUME NEW a \in ByteString, NEW b \in ByteString, NEW c \in ByteString,
         Less(a, b), Less(b, c)
  PROVE  Less(a, c)
<1>1. PICK i \in DOMAIN b : /\ \A j \in 1 .. i - 1 : j \in DOMAIN a /\ a[j] = b[j]
                            /\ i \in DOMAIN a => a[i] < b[i]
  BY DEF Less
<1>2. PICK l \in DOMAIN c : /\ \A j \in 1 .. l - 1 : j \in DOMAIN b /\ b[j] = c[j]
                            /\ l \in DOMAIN b => b[l] < c[l]
  BY DEF Less
<1>3. /\ DOMAIN a = 1 .. Len(a) /\ DOMAIN b = 1 .. Len(b) /\ DOMAIN c = 1 .. Len(c)
      /\ Len(a) \in Nat /\ Len(b) \in Nat /\ Len(c) \in Nat
  BY ByteStringFacts
<1>4. /\ \A j \in DOMAIN a : a[j] \in Int
      /\ \A j \in DOMAIN b : b[j] \in Int
      /\ \A j \in DOMAIN c : c[j] \in Int
  BY ByteStringFacts
<1>5. CASE i < l
  <2>1. i \in DOMAIN c /\ i \in 1 .. l - 1
    BY <1>1, <1>2, <1>3, <1>5
  <2>2. \A j \in 1 .. i - 1 : j \in DOMAIN a /\ a[j] = c[j]
    BY <1>1, <1>2, <1>3, <1>5
  <2>3. i \in DOMAIN a => a[i] < c[i]
    BY <1>1, <1>2, <2>1
  <2> QED BY <2>1, <2>2, <2>3 DEF Less
<1>6. CASE l <= i
  <2>1. \A j \in 1 .. l - 1 : j \in DOMAIN a /\ a[j] = c[j]
    BY <1>1, <1>2, <1>3, <1>6
  <2>2. l \in DOMAIN b
    BY <1>1, <1>2, <1>3, <1>6
  <2>3. ASSUME l \in DOMAIN a PROVE a[l] < c[l]
    <3>1. CASE l = i
      BY <1>1, <1>2, <1>3, <1>4, <2>2, <2>3, <3>1
    <3>2. CASE l < i
      BY <1>1, <1>2, <1>3, <1>4, <2>2, <2>3, <3>2
    <3> QED BY <1>3, <1>6, <3>1, <3>2
  <2> QED BY <2>1, <2>3 DEF Less
<1> QED BY <1>3, <1>5, <1>6

(* A set of natural numbers has a least one.                               *)
LEMMA LeastNatural ==
  ASSUME NEW T \in SUBSET Nat, T # {}
  PROVE  \E x \in T : \A y \in Nat : y < x => y \notin T
<1>1. PICK x \in T : \A y \in T : <<y, x>> \notin OpToRel(<, Nat)
  BY WFMin, NatLessThanWellFounded
<1>2. ASSUME NEW y \in Nat, y < x, y \in T PROVE FALSE
  <2>1. <<y, x>> \in Nat \X Nat /\ <<y, x>>[1] < <<y, x>>[2]
    BY <1>2
  <2> QED BY <1>1, <1>2, <2>1 DEF OpToRel
<1> QED BY <1>2

(* Of two different keys one is less: the order leaves none aside.         *)
LEMMA LessTotal ==
  ASSUME NEW a \in ByteString, NEW b \in ByteString, a # b
  PROVE  Less(a, b) \/ Less(b, a)
<1> DEFINE Same(i) == i \in DOMAIN a /\ i \in DOMAIN b /\ a[i] = b[i]
           T == {i \in Nat : i >= 1 /\ ~Same(i)}
<1>1. /\ Len(a) \in Nat /\ DOMAIN a = 1 .. Len(a) /\ a \in [1 .. Len(a) -> Byte]
      /\ Len(b) \in Nat /\ DOMAIN b = 1 .. Len(b) /\ b \in [1 .. Len(b) -> Byte]
      /\ \A i \in DOMAIN a : a[i] \in Int
      /\ \A i \in DOMAIN b : b[i] \in Int
  BY ByteStringFacts
<1>2. Len(a) + 1 \in T
  BY <1>1
<1>3. PICK d \in T : \A y \in Nat : y < d => y \notin T
  <2> HIDE DEF T
  <2>1. T \in SUBSET Nat
    BY DEF T
  <2> QED BY <1>2, <2>1, LeastNatural
<1>4. /\ d \in Nat /\ d >= 1 /\ ~Same(d)
      /\ \A j \in 1 .. d - 1 : Same(j)
  BY <1>3
<1>5. d \in DOMAIN a \/ d \in DOMAIN b
  <2> SUFFICES ASSUME d \notin DOMAIN a, d \notin DOMAIN b PROVE FALSE
    OBVIOUS
  <2>1. Len(a) = d - 1 /\ Len(b) = d - 1
    BY <1>1, <1>4
  <2>2. \A i \in 1 .. d - 1 : a[i] = b[i]
    BY <1>4
  <2>3. a = b
    BY <1>1, <2>1, <2>2
  <2> QED BY <2>3
<1>6. CASE d \in DOMAIN b /\ (d \in DOMAIN a => a[d] < b[d])
  BY <1>4, <1>6 DEF Less
<1>7. CASE d \in DOMAIN a /\ (d \in DOMAIN b => b[d] < a[d])
  BY <1>4, <1>7 DEF Less
<1>8. d \in DOMAIN a /\ d \in DOMAIN b => a[d] < b[d] \/ b[d] < a[d]
  BY <1>1, <1>4
<1> QED BY <1>5, <1>6, <1>7, <1>8

(* The range's end is the prefix with its last byte one larger.            *)
LEMMA PrefixEndFacts ==
  ASSUME NEW p \in ByteString, p # <<>>, p[Len(p)] < 255
  PROVE  LET end == compute_prefix_end(p)
         IN  /\ Len(p) \in Nat /\ Len(p) >= 1
             /\ DOMAIN p = 1 .. Len(p) /\ DOMAIN end = 1 .. Len(p)
             /\ end[Len(p)] = p[Len(p)] + 1
             /\ \A j \in 1 .. Len(p) - 1 : end[j] = p[j]
<1> DEFINE n == Len(p)
           end == compute_prefix_end(p)
<1>1. n \in Nat /\ n >= 1 /\ DOMAIN p = 1 .. n
  BY ByteStringFacts, EmptySeq DEF ByteString
<1>2. p \in [1 .. n -> Byte]
  BY ByteStringFacts
<1>3. end = [p EXCEPT ![n] = p[n] + 1]
  BY DEF compute_prefix_end
<1> HIDE DEF n, end
<1>4. DOMAIN end = 1 .. n
  BY <1>1, <1>3
<1>5. n \in DOMAIN p /\ \A j \in 1 .. n - 1 : j \in DOMAIN p /\ j # n
  BY <1>1
<1>6. end[n] = p[n] + 1 /\ \A j \in 1 .. n - 1 : end[j] = p[j]
  BY <1>3, <1>5
<1> QED BY <1>1, <1>4, <1>6 DEF n, end

(* Every key that begins with a prefix of this kind is in the range of its *)
(* prefix_scan (kv_engine.rs:212-239).                                     *)
THEOREM PrefixRangeComplete ==
  ASSUME NEW p \in ByteString, p # <<>>, p[Len(p)] < 255,
         NEW k \in ByteString, BeginsWith(p, k)
  PROVE  ~Less(k, p) /\ Less(k, compute_prefix_end(p))
<1> DEFINE n == Len(p)
           end == compute_prefix_end(p)
<1>1. /\ n \in Nat /\ n >= 1 /\ DOMAIN p = 1 .. n /\ DOMAIN end = 1 .. n
      /\ end[n] = p[n] + 1
      /\ \A j \in 1 .. n - 1 : end[j] = p[j]
  BY PrefixEndFacts
<1>2. \A i \in 1 .. n : i \in DOMAIN k /\ k[i] = p[i] /\ p[i] \in Int
  BY <1>1, ByteStringFacts DEF BeginsWith
<1>3. ~Less(k, p)
  BY <1>1, <1>2 DEF Less
<1> HIDE DEF n, end
<1>4. n \in DOMAIN end /\ k[n] < end[n]
  BY <1>1, <1>2
<1>5. \A j \in 1 .. n - 1 : j \in DOMAIN k /\ k[j] = end[j]
  BY <1>1, <1>2
<1>6. Less(k, end)
  BY <1>4, <1>5 DEF Less
<1> QED BY <1>3, <1>6 DEF end

(* And what is in that range begins with the prefix, or is the range's     *)
(* end, which range_scan includes: the filter of prefix_scan is there for  *)
(* that one key.                                                           *)
THEOREM PrefixRangeSound ==
  ASSUME NEW p \in ByteString, p # <<>>, p[Len(p)] < 255,
         NEW k \in ByteString, ~Less(k, p), Less(k, compute_prefix_end(p))
  PROVE  BeginsWith(p, k)
<1> DEFINE n == Len(p)
           end == compute_prefix_end(p)
<1>1. /\ n \in Nat /\ n >= 1 /\ DOMAIN p = 1 .. n /\ DOMAIN end = 1 .. n
      /\ end[n] = p[n] + 1
      /\ \A j \in 1 .. n - 1 : end[j] = p[j]
  BY PrefixEndFacts
<1>2. /\ \A j \in DOMAIN k : k[j] \in Int
      /\ \A j \in DOMAIN p : p[j] \in Int
  BY ByteStringFacts
<1>3. PICK i \in DOMAIN end : /\ \A j \in 1 .. i - 1 : j \in DOMAIN k /\ k[j] = end[j]
                              /\ i \in DOMAIN k => k[i] < end[i]
  BY DEF Less
<1> HIDE DEF n, end
<1>4. \A j \in 1 .. i - 1 : j \in DOMAIN k /\ k[j] = p[j]
  BY <1>1, <1>3
<1>5. i \in DOMAIN p
  BY <1>1, <1>3
<1>6. i \in DOMAIN k /\ ~(k[i] < p[i])
  BY <1>4, <1>5 DEF Less
<1>7. i = n
  BY <1>1, <1>3, <1>6
<1>8. k[n] = p[n]
  BY <1>1, <1>2, <1>3, <1>5, <1>6, <1>7
<1> QED BY <1>1, <1>4, <1>6, <1>7, <1>8 DEF BeginsWith
---------------------------------------------------------------------------
(* A function defined by going back one place exists.                      *)
IsSum(f, n, b, h) == f = [i \in 0 .. n |-> IF i = 0 THEN h ELSE f[i - 1] + b[i]]

LEMMA SumsExist ==
  ASSUME NEW n \in Nat, NEW b, NEW h
  PROVE  \E f : IsSum(f, n, b, h)
<1> DEFINE T == {m \in Nat : \E f : IsSum(f, m, b, h)}
<1>1. 0 \in T
  <2> DEFINE f == [i \in 0 .. 0 |-> h]
  <2>1. \A i \in 0 .. 0 : i = 0
    OBVIOUS
  <2>2. f = [i \in 0 .. 0 |-> IF i = 0 THEN h ELSE f[i - 1] + b[i]]
    BY <2>1
  <2> QED BY <2>2 DEF IsSum
<1>2. ASSUME NEW m \in 1 .. n, m - 1 \in T PROVE m \in T
  <2>1. PICK f : IsSum(f, m - 1, b, h)
    BY <1>2
  <2> DEFINE g == [i \in 0 .. m |-> IF i = m THEN f[m - 1] + b[m] ELSE f[i]]
  <2>2. ASSUME NEW i \in 0 .. m
        PROVE  g[i] = IF i = 0 THEN h ELSE g[i - 1] + b[i]
    <3>1. CASE i = m
      <4>1. m - 1 \in 0 .. m /\ m - 1 # m /\ m # 0
        OBVIOUS
      <4> QED BY <3>1, <4>1
    <3>2. CASE i # m
      <4>1. i \in 0 .. m - 1 /\ g[i] = f[i]
        BY <3>2
      <4>2. f[i] = IF i = 0 THEN h ELSE f[i - 1] + b[i]
        <5> HIDE DEF g
        <5> QED BY <2>1, <4>1 DEF IsSum
      <4>3. i # 0 => i - 1 \in 0 .. m /\ i - 1 # m
        BY <3>2
      <4>4. i # 0 => g[i - 1] = f[i - 1]
        BY <4>3
      <4> QED BY <4>1, <4>2, <4>4
    <3> QED BY <3>1, <3>2
  <2>3. IsSum(g, m, b, h)
    <3>1. g = [i \in 0 .. m |-> g[i]]
      OBVIOUS
    <3> HIDE DEF g
    <3> QED BY <2>2, <3>1 DEF IsSum
  <2> QED BY <2>3
<1>3. n \in T
  <2> HIDE DEF T
  <2> QED BY <1>1, <1>2, UpTo
<1> QED BY <1>3
---------------------------------------------------------------------------
(* A leaf as it is in the page: one more key than values at most.          *)
Value == (Keys \X ValueSizes) \cup {Empty}
Node == [keys : Seq(Keys), values : Seq(Value)]
Paired(node) == /\ node \in Node
                /\ Len(node.values) <= Len(node.keys)
                /\ Len(node.keys) <= Len(node.values) + 1

LEMMA NodeFacts ==
  ASSUME NEW node \in Node
  PROVE  /\ node.keys \in Seq(Keys) /\ node.values \in Seq(Value)
         /\ Len(node.keys) \in Nat /\ Len(node.values) \in Nat
         /\ DOMAIN node.keys = 1 .. Len(node.keys)
         /\ DOMAIN node.values = 1 .. Len(node.values)
         /\ \A i \in 1 .. Len(node.keys) : node.keys[i] \in Keys /\ Len(node.keys[i]) \in Nat
         /\ \A i \in 1 .. Len(node.values) : /\ node.values[i] \in Value
                                             /\ Size(node.values[i]) \in Nat
<1>1. /\ node.keys \in Seq(Keys) /\ node.values \in Seq(Value)
      /\ Len(node.keys) \in Nat /\ Len(node.values) \in Nat
      /\ DOMAIN node.keys = 1 .. Len(node.keys)
      /\ DOMAIN node.values = 1 .. Len(node.values)
  BY LenProperties DEF Node
<1>2. ASSUME NEW i \in 1 .. Len(node.keys)
      PROVE  node.keys[i] \in Keys /\ Len(node.keys[i]) \in Nat
  <2>1. node.keys[i] \in Keys
    BY <1>1, ElementOfSeq
  <2>2. node.keys[i] \in ByteString
    BY <2>1, LeafAssumption DEF ByteString
  <2> QED BY <2>1, <2>2, ByteStringFacts
<1>3. ASSUME NEW i \in 1 .. Len(node.values)
      PROVE  node.values[i] \in Value /\ Size(node.values[i]) \in Nat
  <2>1. node.values[i] \in Value
    BY <1>1, ElementOfSeq
  <2>2. node.values[i] = Empty \/ node.values[i][2] \in Nat
    BY <2>1, LeafAssumption DEF Value
  <2> QED BY <2>1, <2>2 DEF Size
<1> QED BY <1>1, <1>2, <1>3

LEMMA EntryBytesType ==
  ASSUME NEW node \in Node, NEW i \in 1 .. Len(node.keys)
  PROVE  /\ EntryBytes(node, i) \in Nat
         /\ EntryBytes(node, i) >= 4 + Len(node.keys[i])
<1>1. Len(node.keys[i]) \in Nat
  BY NodeFacts
<1>2. i <= Len(node.values) => Size(node.values[i]) \in Nat
  BY NodeFacts
<1> QED BY <1>1, <1>2 DEF EntryBytes, HasValue

LEMMA EndsSpec ==
  ASSUME NEW node \in Node
  PROVE  /\ EntryEnd(node, 0) = HeaderBytes
         /\ \A i \in 1 .. Len(node.keys) :
              EntryEnd(node, i) = EntryEnd(node, i - 1) + EntryBytes(node, i)
<1> DEFINE n == Len(node.keys)
           b == [i \in 1 .. n |-> EntryBytes(node, i)]
           e == EntryEnds(node)
<1>1. n \in Nat
  BY NodeFacts
<1>2. PICK f : IsSum(f, n, b, HeaderBytes)
  <2> HIDE DEF n, b
  <2> QED BY <1>1, SumsExist
<1>3. f = [i \in 0 .. n |-> IF i = 0 THEN HeaderBytes ELSE f[i - 1] + EntryBytes(node, i)]
  <2>1. \A i \in 0 .. n : i # 0 => b[i] = EntryBytes(node, i)
    BY <1>1
  <2> HIDE DEF b
  <2> QED BY <1>2, <2>1 DEF IsSum
<1>4. e = [i \in 0 .. n |-> IF i = 0 THEN HeaderBytes ELSE e[i - 1] + EntryBytes(node, i)]
  BY <1>3 DEF EntryEnds
<1> HIDE DEF e
<1>5. e[0] = HeaderBytes /\ \A i \in 1 .. n : e[i] = e[i - 1] + EntryBytes(node, i)
  <2>1. 0 \in 0 .. n /\ \A i \in 1 .. n : i \in 0 .. n /\ i # 0
    BY <1>1
  <2> HIDE DEF n
  <2> QED BY <1>4, <2>1
<1> QED BY <1>5 DEF EntryEnd, e

(* The offsets grow from entry to entry.                                   *)
LEMMA EndsGrow ==
  ASSUME NEW node \in Node
  PROVE  /\ \A j \in 0 .. Len(node.keys) : EntryEnd(node, j) \in Nat
         /\ \A i, j \in 0 .. Len(node.keys) : i <= j => EntryEnd(node, i) <= EntryEnd(node, j)
         /\ \A i \in 1 .. Len(node.keys) : /\ KeyEnd(node, i) \in Nat
                                           /\ EntryEnd(node, i - 1) <= KeyEnd(node, i)
                                           /\ KeyEnd(node, i) <= EntryEnd(node, i)
<1> DEFINE n == Len(node.keys)
           e(i) == EntryEnd(node, i)
           T == {j \in 0 .. n : e(j) \in Nat /\ \A i \in 0 .. j : e(i) \in Nat /\ e(i) <= e(j)}
<1>1. n \in Nat /\ e(0) = HeaderBytes /\ HeaderBytes \in Nat
  BY NodeFacts, EndsSpec DEF HeaderBytes
<1>2. \A i \in 1 .. n : EntryBytes(node, i) \in Nat /\ e(i) = e(i - 1) + EntryBytes(node, i)
  BY EndsSpec, EntryBytesType
<1> HIDE DEF n, e
<1>3. 0 \in T
  BY <1>1
<1>4. ASSUME NEW j \in 1 .. n, j - 1 \in T PROVE j \in T
  <2>1. e(j) \in Nat /\ e(j - 1) <= e(j)
    BY <1>2, <1>4
  <2>2. \A i \in 0 .. j : i \in 0 .. j - 1 \/ i = j
    BY <1>1
  <2>3. \A i \in 0 .. j - 1 : e(i) \in Nat /\ e(i) <= e(j)
    <3>1. e(j - 1) \in Nat /\ \A i \in 0 .. j - 1 : e(i) \in Nat /\ e(i) <= e(j - 1)
      BY <1>4
    <3> QED BY <2>1, <3>1
  <2>4. \A i \in 0 .. j : e(i) \in Nat /\ e(i) <= e(j)
    BY <2>1, <2>2, <2>3
  <2> QED BY <1>1, <2>1, <2>4
<1>5. \A j \in 0 .. n : j \in T
  <2> HIDE DEF T
  <2> QED BY <1>1, <1>3, <1>4, UpTo
<1>6. ASSUME NEW i \in 1 .. n
      PROVE  /\ KeyEnd(node, i) \in Nat
             /\ e(i - 1) <= KeyEnd(node, i)
             /\ KeyEnd(node, i) <= e(i)
  <2>1. i - 1 \in 0 .. n /\ e(i - 1) \in Nat
    BY <1>1, <1>5
  <2>2. KeyEnd(node, i) = e(i - 1) + 4 + Len(node.keys[i])
    BY DEF KeyEnd, e
  <2>3. Len(node.keys[i]) \in Nat /\ EntryBytes(node, i) >= 4 + Len(node.keys[i])
    BY NodeFacts, EntryBytesType DEF n
  <2>4. EntryBytes(node, i) \in Nat /\ e(i) = e(i - 1) + EntryBytes(node, i)
    BY <1>2
  <2>5. \A a, s, l \in Nat :
          s >= 4 + l => a + 4 + l \in Nat /\ a <= a + 4 + l /\ a + 4 + l <= a + s
    OBVIOUS
  <2> DEFINE before == e(i - 1)
             entry == EntryBytes(node, i)
             key == Len(node.keys[i])
  <2>6. before \in Nat /\ entry \in Nat /\ key \in Nat /\ entry >= 4 + key
    BY <2>1, <2>3, <2>4
  <2> HIDE DEF before, entry, key
  <2>7. /\ before + 4 + key \in Nat
        /\ before <= before + 4 + key /\ before + 4 + key <= before + entry
    BY <2>5, <2>6
  <2> QED BY <2>2, <2>4, <2>7 DEF before, entry, key
<1> QED BY <1>1, <1>5, <1>6 DEF n, e

(* And they are those of another leaf as far as its entries are the same.  *)
LEMMA EndsAgree ==
  ASSUME NEW a \in Node, NEW b \in Node, NEW m \in Nat,
         m <= Len(a.keys), m <= Len(b.keys),
         \A i \in 1 .. m : EntryBytes(a, i) = EntryBytes(b, i)
  PROVE  \A i \in 0 .. m : EntryEnd(a, i) = EntryEnd(b, i)
<1> DEFINE T == {i \in 0 .. m : EntryEnd(a, i) = EntryEnd(b, i)}
<1>1. 0 \in T
  BY EndsSpec
<1>2. ASSUME NEW i \in 1 .. m, i - 1 \in T PROVE i \in T
  <2>1. i \in 1 .. Len(a.keys) /\ i \in 1 .. Len(b.keys)
    BY NodeFacts
  <2> QED BY <1>2, <2>1, EndsSpec
<1>3. \A i \in 0 .. m : i \in T
  <2> HIDE DEF T
  <2> QED BY <1>1, <1>2, UpTo
<1> QED BY <1>3
---------------------------------------------------------------------------
(* A set of places that has all those in front of its own is counted by    *)
(* its last one.                                                           *)
LEMMA FrontCounted ==
  ASSUME NEW n \in Nat, NEW S \in SUBSET (1 .. n), \A i \in S : \A j \in 1 .. i : j \in S
  PROVE  /\ Cardinality(S) \in 0 .. n
         /\ S = 1 .. Cardinality(S)
<1>1. CASE S = {}
  BY <1>1, FS_EmptySet
<1>2. CASE S # {}
  <2>1. S \in SUBSET (0 .. n)
    OBVIOUS
  <2>2. PICK m \in S : \A i \in S : i <= m
    BY <1>2, <2>1, GreatestElement
  <2>3. S = 1 .. m
    <3>1. \A i \in S : i \in 1 .. n /\ i <= m
      BY <2>2
    <3>2. \A i \in S : i \in 1 .. m
      BY <3>1
    <3> QED BY <2>2, <3>2
  <2>4. Cardinality(1 .. m) = m
    <3>1. 1 \in Int /\ m \in Int /\ ~ (1 > m) /\ m - 1 + 1 = m
      OBVIOUS
    <3> QED BY <3>1, FS_Interval
  <2> QED BY <2>3, <2>4
<1> QED BY <1>1, <1>2
---------------------------------------------------------------------------
(* What a leaf of any length is read back as: its first keys and values,   *)
(* as far as they are whole.                                               *)
Fits(node) ==
  /\ \A i \in 1 .. Len(node.keys) : KeyEnd(node, i) <= NodeBytes
  /\ \A i \in 1 .. Len(node.values) : EntryEnd(node, i) <= NodeBytes

\* The keys that are whole are the first ones, and so are the entries.
LEMMA WholeCounted ==
  ASSUME NEW node, Paired(node)
  PROVE  LET n == Cardinality({i \in DOMAIN node.keys : KeyEnd(node, i) <= NodeBytes})
             m == Cardinality({i \in DOMAIN node.values : EntryEnd(node, i) <= NodeBytes})
         IN  /\ n \in 0 .. Len(node.keys)
             /\ m \in 0 .. Len(node.values)
             /\ \A i \in 1 .. Len(node.keys) : i <= n <=> KeyEnd(node, i) <= NodeBytes
             /\ \A i \in 1 .. Len(node.values) : i <= m <=> EntryEnd(node, i) <= NodeBytes
             /\ m <= n /\ n <= m + 1
<1> DEFINE K == {i \in DOMAIN node.keys : KeyEnd(node, i) <= NodeBytes}
           V == {i \in DOMAIN node.values : EntryEnd(node, i) <= NodeBytes}
           n == Cardinality(K)
           m == Cardinality(V)
           keys == Len(node.keys)
           values == Len(node.values)
           e(i) == EntryEnd(node, i)
           h(i) == KeyEnd(node, i)
<1>1. /\ node \in Node /\ keys \in Nat /\ values \in Nat
      /\ values <= keys /\ keys <= values + 1
      /\ DOMAIN node.keys = 1 .. keys /\ DOMAIN node.values = 1 .. values
  BY NodeFacts DEF Paired
<1>2. /\ NodeBytes \in Nat
      /\ \A j \in 0 .. keys : e(j) \in Nat
      /\ \A i, j \in 0 .. keys : i <= j => e(i) <= e(j)
      /\ \A i \in 1 .. keys : h(i) \in Nat /\ e(i - 1) <= h(i) /\ h(i) <= e(i)
  BY <1>1, EndsGrow DEF NodeBytes
<1> HIDE DEF e, h, keys, values
<1>3. \A i \in 1 .. keys : \A j \in 1 .. i - 1 : e(j) <= h(i)
  <2> SUFFICES ASSUME NEW i \in 1 .. keys, NEW j \in 1 .. i - 1 PROVE e(j) <= h(i)
    OBVIOUS
  <2>1. i \in Int /\ j \in 0 .. keys /\ i - 1 \in 0 .. keys /\ j <= i - 1
    BY <1>1
  <2>2. e(j) <= e(i - 1) /\ e(i - 1) <= h(i)
    BY <1>2, <2>1
  <2> QED BY <1>2, <2>1, <2>2
<1>4. \A i \in K : \A j \in 1 .. i : j \in K
  <2> SUFFICES ASSUME NEW i \in K, NEW j \in 1 .. i PROVE j \in K
    OBVIOUS
  <2>1. i \in 1 .. keys /\ j \in 1 .. keys /\ h(i) <= NodeBytes
    BY <1>1 DEF h, keys
  <2>2. j # i => h(j) <= e(j) /\ e(j) <= h(i) /\ e(j) \in Nat
    <3>1. j # i => j \in 1 .. i - 1 /\ j \in 0 .. keys
      BY <2>1
    <3> QED BY <1>2, <1>3, <2>1, <3>1
  <2>3. h(j) <= NodeBytes
    BY <1>2, <2>1, <2>2
  <2> QED BY <1>1, <2>1, <2>3 DEF h
<1>5. \A i \in V : \A j \in 1 .. i : j \in V
  <2> SUFFICES ASSUME NEW i \in V, NEW j \in 1 .. i PROVE j \in V
    OBVIOUS
  <2>1. i \in 1 .. values /\ j \in 1 .. values /\ e(i) <= NodeBytes
    BY <1>1 DEF e, values
  <2>2. i \in 0 .. keys /\ j \in 0 .. keys /\ j <= i
    BY <1>1, <2>1
  <2>3. e(j) <= NodeBytes
    BY <1>2, <2>1, <2>2
  <2> QED BY <1>1, <2>1, <2>3 DEF e
<1>6. K \in SUBSET (1 .. keys) /\ V \in SUBSET (1 .. values)
  BY <1>1 DEF keys, values
<1>7. n \in 0 .. keys /\ K = 1 .. n /\ m \in 0 .. values /\ V = 1 .. m
  <2> HIDE DEF K, V
  <2> QED BY <1>1, <1>4, <1>5, <1>6, FrontCounted
<1> HIDE DEF n, m
<1>8. \A i \in 1 .. keys : i <= n <=> h(i) <= NodeBytes
  <2>1. \A i \in 1 .. keys : i \in K <=> h(i) <= NodeBytes
    BY <1>1 DEF h, keys
  <2> HIDE DEF K
  <2> QED BY <1>1, <1>7, <2>1
<1>9. \A i \in 1 .. values : i <= m <=> e(i) <= NodeBytes
  <2>1. \A i \in 1 .. values : i \in V <=> e(i) <= NodeBytes
    BY <1>1 DEF e, values
  <2> HIDE DEF V
  <2> QED BY <1>1, <1>7, <2>1
<1>10. m <= n
  <2>1. CASE m = 0
    BY <1>1, <1>7, <2>1
  <2>2. CASE m # 0
    <3>1. m \in 1 .. values /\ m \in 1 .. keys /\ m \in 0 .. keys
      BY <1>1, <1>7, <2>2
    <3>2. h(m) <= NodeBytes
      BY <1>2, <1>9, <3>1
    <3> QED BY <1>8, <3>1, <3>2
  <2> QED BY <2>1, <2>2
<1>11. n <= m + 1
  <2>1. CASE m = values
    BY <1>1, <1>7, <2>1
  <2>2. CASE m # values
    <3> SUFFICES ASSUME m + 1 < n PROVE FALSE
      BY <1>1, <1>7
    <3>1. m + 1 \in 1 .. values /\ n \in 1 .. keys /\ m + 1 \in 1 .. n - 1 /\ m + 1 \in 0 .. keys
      BY <1>1, <1>7, <2>2
    <3>2. ~ (e(m + 1) <= NodeBytes)
      BY <1>1, <1>7, <1>9, <3>1
    <3>3. h(n) <= NodeBytes
      BY <1>1, <1>7, <1>8, <3>1
    <3> QED BY <1>2, <1>3, <3>1, <3>2, <3>3
  <2> QED BY <2>1, <2>2
<1> QED BY <1>7, <1>8, <1>9, <1>10, <1>11 DEF n, m, keys, values, e, h

LEMMA DeserializeSpec ==
  ASSUME NEW node, Paired(node)
  PROVE  LET d == deserialize(node)
         IN  /\ Paired(d) /\ Fits(d)
             /\ Len(d.keys) <= Len(node.keys)
             /\ \A i \in 1 .. Len(d.keys) : d.keys[i] = node.keys[i]
             /\ \A i \in 1 .. Len(d.values) :
                  d.values[i] = IF i <= Len(node.values) THEN node.values[i] ELSE Empty
             /\ \A i \in 1 .. Len(node.keys) : KeyEnd(node, i) <= NodeBytes => i <= Len(d.keys)
             /\ \A i \in 1 .. Len(node.values) :
                  EntryEnd(node, i) <= NodeBytes => i <= Len(d.values)
<1> DEFINE n == Cardinality({i \in DOMAIN node.keys : KeyEnd(node, i) <= NodeBytes})
           m == Cardinality({i \in DOMAIN node.values : EntryEnd(node, i) <= NodeBytes})
           zeros == n > Len(node.values) /\ KeyEnd(node, n) + 4 <= NodeBytes
           d == deserialize(node)
           tail == IF zeros THEN <<Empty>> ELSE <<>>
           front == SubSeq(node.values, 1, m)
           keys == Len(node.keys)
           values == Len(node.values)
<1>1. /\ node \in Node /\ keys \in Nat /\ values \in Nat
      /\ values <= keys /\ keys <= values + 1
      /\ node.keys \in Seq(Keys) /\ node.values \in Seq(Value)
      /\ NodeBytes \in Nat
  BY NodeFacts DEF Paired, NodeBytes
<1>2. /\ n \in 0 .. keys /\ m \in 0 .. values
      /\ \A i \in 1 .. keys : i <= n <=> KeyEnd(node, i) <= NodeBytes
      /\ \A i \in 1 .. values : i <= m <=> EntryEnd(node, i) <= NodeBytes
      /\ m <= n /\ n <= m + 1
  BY WholeCounted
<1>3. d = [keys |-> SubSeq(node.keys, 1, n), values |-> front \o tail]
  BY DEF deserialize
<1> HIDE DEF n, m, d
<1>4. /\ d.keys \in Seq(Keys) /\ Len(d.keys) = n
      /\ \A i \in 1 .. n : d.keys[i] = node.keys[i]
  BY <1>1, <1>2, <1>3, Prefix
<1>5. /\ front \in Seq(Value) /\ Len(front) = m
      /\ \A i \in 1 .. m : front[i] = node.values[i]
  BY <1>1, <1>2, Prefix
<1>6. /\ tail \in Seq(Value)
      /\ Len(tail) = IF zeros THEN 1 ELSE 0
      /\ zeros => tail[1] = Empty
  <2>1. CASE zeros
    <3>1. tail = <<Empty>> /\ Empty \in Value
      BY <2>1 DEF Value
    <3> HIDE DEF tail, zeros
    <3> QED BY <2>1, <3>1
  <2>2. CASE ~zeros
    <3>1. tail = <<>>
      BY <2>2
    <3> HIDE DEF tail, zeros
    <3> QED BY <2>2, <3>1, EmptySeq
  <2> QED BY <2>1, <2>2
<1> HIDE DEF front, tail
<1>7. /\ d.values \in Seq(Value)
      /\ Len(d.values) = m + Len(tail)
      /\ \A i \in 1 .. m + Len(tail) : d.values[i] = IF i <= m THEN front[i] ELSE tail[i - m]
  BY <1>3, <1>5, <1>6, ConcatProperties
<1>8. zeros => n = m + 1 /\ m = values
  BY <1>1, <1>2
<1> HIDE DEF zeros
<1>9. \A i \in 1 .. Len(d.values) :
         d.values[i] = IF i <= values THEN node.values[i] ELSE Empty
  <2> SUFFICES ASSUME NEW i \in 1 .. Len(d.values)
               PROVE  d.values[i] = IF i <= values THEN node.values[i] ELSE Empty
    OBVIOUS
  <2>1. CASE i <= m
    BY <1>1, <1>2, <1>5, <1>6, <1>7, <2>1
  <2>2. CASE ~ (i <= m)
    <3>1. zeros /\ i - m = 1 /\ ~ (i <= values)
      BY <1>1, <1>2, <1>6, <1>7, <1>8, <2>2
    <3> QED BY <1>6, <1>7, <2>2, <3>1
  <2> QED BY <2>1, <2>2
<1>10. Paired(d)
  <2>1. d = [keys |-> d.keys, values |-> d.values]
    BY <1>3
  <2>2. d \in Node
    BY <1>4, <1>7, <2>1 DEF Node
  <2>3. Len(d.values) <= Len(d.keys) /\ Len(d.keys) <= Len(d.values) + 1
    BY <1>2, <1>4, <1>6, <1>7, <1>8
  <2> QED BY <2>2, <2>3 DEF Paired
<1>11. \A i \in 1 .. m : EntryBytes(d, i) = EntryBytes(node, i)
  <2> SUFFICES ASSUME NEW i \in 1 .. m PROVE EntryBytes(d, i) = EntryBytes(node, i)
    OBVIOUS
  <2>1. d.keys[i] = node.keys[i] /\ d.values[i] = node.values[i]
    <3>1. i \in 1 .. n /\ i \in 1 .. m + Len(tail) /\ i <= m
      BY <1>2, <1>6
    <3> QED BY <1>4, <1>5, <1>7, <3>1
  <2>2. HasValue(d, i) /\ HasValue(node, i)
    BY <1>1, <1>2, <1>6, <1>7 DEF HasValue
  <2> QED BY <2>1, <2>2 DEF EntryBytes
<1>12. \A i \in 0 .. m : EntryEnd(d, i) = EntryEnd(node, i)
  BY <1>1, <1>2, <1>4, <1>10, <1>11, EndsAgree DEF Paired
<1>13. \A i \in 1 .. n : KeyEnd(d, i) = KeyEnd(node, i)
  BY <1>2, <1>4, <1>12 DEF KeyEnd
<1>14. Fits(d)
  <2>1. \A i \in 1 .. Len(d.keys) : KeyEnd(d, i) <= NodeBytes
    BY <1>1, <1>2, <1>4, <1>13
  <2>2. ASSUME NEW i \in 1 .. Len(d.values) PROVE EntryEnd(d, i) <= NodeBytes
    <3>1. CASE i <= m
      <4>1. i \in 1 .. values /\ i \in 0 .. m
        BY <1>1, <1>2, <3>1
      <4> QED BY <1>2, <1>12, <3>1, <4>1
    <3>2. CASE ~ (i <= m)
      <4>1. zeros /\ i = n /\ i \in 1 .. Len(d.keys)
        BY <1>1, <1>2, <1>4, <1>6, <1>7, <1>8, <3>2
      <4>2. EntryEnd(d, n) = EntryEnd(d, n - 1) + EntryBytes(d, n)
        BY <1>10, <4>1, EndsSpec DEF Paired
      <4>3. HasValue(d, n) /\ d.values[n] = Empty
        <5>1. ~ (n <= values)
          BY <1>1, <1>8, <4>1
        <5> QED BY <1>9, <4>1, <5>1 DEF HasValue
      <4>4. EntryBytes(d, n) = 4 + Len(d.keys[n]) + 4
        BY <1>10, <4>1, <4>3, NodeFacts DEF EntryBytes, Size, Paired
      <4>5. n \in 1 .. n /\ n - 1 \in 0 .. Len(d.keys) /\ Len(d.keys[n]) \in Nat
        BY <1>2, <1>4, <1>10, <4>1, NodeFacts DEF Paired
      <4>6. KeyEnd(d, n) = EntryEnd(d, n - 1) + 4 + Len(d.keys[n]) /\ EntryEnd(d, n - 1) \in Nat
        BY <1>10, <4>5, EndsGrow DEF KeyEnd, Paired
      <4>7. EntryEnd(d, n) = KeyEnd(d, n) + 4
        <5> DEFINE before == EntryEnd(d, n - 1)
                   length == Len(d.keys[n])
        <5>1. /\ before \in Nat /\ length \in Nat
              /\ KeyEnd(d, n) = before + 4 + length
              /\ EntryEnd(d, n) = before + (4 + length + 4)
          BY <4>2, <4>4, <4>5, <4>6
        <5> HIDE DEF before, length
        <5> QED BY <5>1
      <4>8. KeyEnd(node, n) + 4 <= NodeBytes
        BY <4>1 DEF zeros
      <4> QED BY <1>13, <4>1, <4>5, <4>7, <4>8
    <3> QED BY <3>1, <3>2
  <2> QED BY <2>1, <2>2 DEF Fits
<1>15. \A i \in 1 .. values : EntryEnd(node, i) <= NodeBytes => i <= Len(d.values)
  BY <1>1, <1>2, <1>6, <1>7
<1> QED BY <1>1, <1>2, <1>4, <1>9, <1>10, <1>14, <1>15 DEF d

\* A leaf that is not longer than its page is read back whole.
LEMMA WholeRead ==
  ASSUME NEW node, Paired(node), Len(node.values) = Len(node.keys), ~TooLong(node)
  PROVE  deserialize(node) = node
<1> DEFINE d == deserialize(node)
           n == Len(node.keys)
<1>1. /\ Paired(d)
      /\ Len(d.keys) <= n
      /\ \A i \in 1 .. Len(d.keys) : d.keys[i] = node.keys[i]
      /\ \A i \in 1 .. Len(d.values) :
           d.values[i] = IF i <= n THEN node.values[i] ELSE Empty
      /\ \A i \in 1 .. n : KeyEnd(node, i) <= NodeBytes => i <= Len(d.keys)
      /\ \A i \in 1 .. n : EntryEnd(node, i) <= NodeBytes => i <= Len(d.values)
  BY DeserializeSpec
<1> HIDE DEF d
<1>2. /\ node \in Node /\ d \in Node /\ n \in Nat
      /\ Len(d.keys) \in Nat /\ Len(d.values) \in Nat /\ Len(d.values) <= Len(d.keys)
      /\ node.keys \in Seq(Keys) /\ node.values \in Seq(Value)
      /\ d.keys \in Seq(Keys) /\ d.values \in Seq(Value)
  BY <1>1, NodeFacts DEF Paired
<1>3. \A i \in 1 .. n : KeyEnd(node, i) <= NodeBytes /\ EntryEnd(node, i) <= NodeBytes
  <2> SUFFICES ASSUME NEW i \in 1 .. n
               PROVE  KeyEnd(node, i) <= NodeBytes /\ EntryEnd(node, i) <= NodeBytes
    OBVIOUS
  <2>1. i \in 0 .. n /\ n \in 0 .. n /\ i <= n /\ NodeBytes \in Nat
    BY <1>2 DEF NodeBytes
  <2>2. /\ EntryEnd(node, i) \in Nat /\ EntryEnd(node, n) \in Nat /\ KeyEnd(node, i) \in Nat
        /\ KeyEnd(node, i) <= EntryEnd(node, i)
        /\ EntryEnd(node, i) <= EntryEnd(node, n)
    BY <1>2, <2>1, EndsGrow
  <2>3. EntryEnd(node, n) <= NodeBytes
    BY <2>1, <2>2 DEF TooLong
  <2> QED BY <2>1, <2>2, <2>3
<1>4. Len(d.keys) = n /\ Len(d.values) = n
  <2>1. CASE n = 0
    BY <1>1, <1>2, <2>1
  <2>2. CASE n # 0
    <3>1. n \in 1 .. n
      BY <1>2, <2>2
    <3> QED BY <1>1, <1>2, <1>3, <3>1
  <2> QED BY <2>1, <2>2
<1>5. d.keys = node.keys
  BY <1>1, <1>2, <1>4, SeqEqual
<1>6. d.values = node.values
  <2>1. \A i \in 1 .. Len(d.values) : d.values[i] = node.values[i]
    BY <1>1, <1>2, <1>4
  <2> QED BY <1>2, <1>4, <2>1, SeqEqual
<1> QED BY <1>2, <1>5, <1>6 DEF d, Node
---------------------------------------------------------------------------
(* Vec::insert and Vec::remove.                                            *)
LEMMA InsertAtSpec ==
  ASSUME NEW S, NEW s \in Seq(S), NEW i \in 1 .. Len(s) + 1, NEW x \in S
  PROVE  InsertAt(s, i, x) \in Seq(S) /\ InsertedAt(InsertAt(s, i, x), s, i, x)
BY InsertSpec DEF InsertAt, WithItem

LEMMA RemoveAtSpec ==
  ASSUME NEW S, NEW s \in Seq(S), NEW i \in 1 .. Len(s)
  PROVE  RemoveAt(s, i) \in Seq(S) /\ RemovedAt(RemoveAt(s, i), s, i)
BY RemoveSpec DEF RemoveAt, WithoutItem
---------------------------------------------------------------------------
(* Keys in order.                                                          *)
Sorted(keys) == \A i, j \in 1 .. Len(keys) : i < j => Less(keys[i], keys[j])

LEMMA KeyFacts == Keys \subseteq ByteString
BY LeafAssumption DEF ByteString

LEMMA LessAsymmetric ==
  ASSUME NEW a \in ByteString, NEW b \in ByteString, Less(a, b)
  PROVE  ~Less(b, a) /\ a # b
BY LessTransitive, LessIrreflexive

LEMMA SortedFacts ==
  ASSUME NEW keys \in Seq(Keys), Sorted(keys)
  PROVE  /\ \A i, j \in 1 .. Len(keys) : keys[i] = keys[j] => i = j
         /\ \A i, j \in 1 .. Len(keys) : i <= j <=> ~Less(keys[j], keys[i])
<1>1. Len(keys) \in Nat /\ \A i \in 1 .. Len(keys) : keys[i] \in ByteString
  BY LenProperties, KeyFacts
<1>2. \A i, j \in 1 .. Len(keys) : i < j => ~Less(keys[j], keys[i]) /\ keys[i] # keys[j]
  BY <1>1, LessAsymmetric DEF Sorted
<1>3. \A i, j \in 1 .. Len(keys) : i < j \/ i = j \/ j < i
  BY <1>1
<1>4. \A i \in 1 .. Len(keys) : ~Less(keys[i], keys[i])
  BY <1>1, LessIrreflexive
<1>5. \A i, j \in 1 .. Len(keys) : keys[i] = keys[j] => i = j
  BY <1>2, <1>3
<1>6. ASSUME NEW i \in 1 .. Len(keys), NEW j \in 1 .. Len(keys)
      PROVE  i <= j <=> ~Less(keys[j], keys[i])
  <2>1. CASE i < j
    BY <1>1, <1>2, <2>1
  <2>2. CASE i = j
    BY <1>1, <1>4, <2>2
  <2>3. CASE j < i
    BY <1>1, <2>3 DEF Sorted
  <2> QED BY <1>3, <2>1, <2>2, <2>3
<1> QED BY <1>5, <1>6

(* find_position separates the keys up to k from those beyond it.          *)
LEMMA PositionSpec ==
  ASSUME NEW keys \in Seq(Keys), Sorted(keys), NEW k \in Keys
  PROVE  /\ find_position(keys, k) \in 1 .. Len(keys) + 1
         /\ \A i \in 1 .. Len(keys) : i < find_position(keys, k) <=> ~Less(k, keys[i])
<1> DEFINE n == Len(keys)
           S == {i \in DOMAIN keys : ~Less(k, keys[i])}
<1>1. /\ n \in Nat /\ DOMAIN keys = 1 .. n /\ k \in ByteString
      /\ \A i \in 1 .. n : keys[i] \in ByteString
  BY LenProperties, KeyFacts
<1>2. \A i \in S : \A j \in 1 .. i : j \in S
  <2> SUFFICES ASSUME NEW i \in S, NEW j \in 1 .. i, Less(k, keys[j]) PROVE FALSE
    BY <1>1
  <2>1. i \in 1 .. n /\ j \in 1 .. n /\ ~Less(k, keys[i])
    BY <1>1
  <2>2. j < i => Less(keys[j], keys[i])
    BY <2>1 DEF Sorted
  <2>3. j < i
    <3>1. j # i
      BY <2>1
    <3> QED BY <2>1, <3>1
  <2> QED BY <1>1, <2>1, <2>2, <2>3, LessTransitive
<1>3. S \in SUBSET (1 .. n)
  BY <1>1
<1>4. Cardinality(S) \in 0 .. n /\ S = 1 .. Cardinality(S)
  <2> HIDE DEF S
  <2> QED BY <1>1, <1>2, <1>3, FrontCounted
<1>5. find_position(keys, k) = 1 + Cardinality(S)
  BY DEF find_position
<1>6. \A i \in 1 .. n : i \in S <=> ~Less(k, keys[i])
  BY <1>1
<1> HIDE DEF S, n
<1>7. \A i \in 1 .. n : i < 1 + Cardinality(S) <=> i \in S
  BY <1>1, <1>4
<1> QED BY <1>1, <1>4, <1>5, <1>6, <1>7 DEF n
---------------------------------------------------------------------------
(* What a leaf is to the map c the callers expect, undamaged or not.  The  *)
(* conjuncts for an undamaged leaf are ReadsBack, those in front of it are *)
(* what makes it inductive.                                                *)
Map == [Keys -> (Keys \X ValueSizes) \cup {None}]

Stands(node, c, damaged) ==
  /\ Paired(node)
  /\ Sorted(node.keys)
  /\ \A i \in 1 .. Len(node.values) :
        node.values[i] = c[node.keys[i]] \/ (damaged /\ node.values[i] = Empty)
  /\ ~damaged => /\ Len(node.values) = Len(node.keys)
                 /\ \A k \in Keys : c[k] # None <=> \E i \in 1 .. Len(node.keys) : node.keys[i] = k

LeafInv == /\ contents \in Map
           /\ {panicked, cut} \subseteq BOOLEAN
           /\ Stands(leaf, contents, cut)
           /\ Fits(leaf)
           /\ ~cut => ~panicked

LEMMA StandsFacts ==
  ASSUME NEW node, NEW c, NEW damaged, Stands(node, c, damaged)
  PROVE  /\ node \in Node
         /\ node.keys \in Seq(Keys) /\ node.values \in Seq(Value)
         /\ Len(node.keys) \in Nat /\ Len(node.values) \in Nat
         /\ DOMAIN node.keys = 1 .. Len(node.keys)
         /\ DOMAIN node.values = 1 .. Len(node.values)
         /\ Len(node.values) <= Len(node.keys)
         /\ Len(node.keys) <= Len(node.values) + 1
         /\ \A i \in 1 .. Len(node.keys) : node.keys[i] \in Keys
         /\ \A i \in 1 .. Len(node.values) : node.values[i] \in Value
BY NodeFacts DEF Stands, Paired

\* Reading the leaf back keeps it so.
LEMMA ReadBackStands ==
  ASSUME NEW node, NEW c, NEW damaged, Stands(node, c, damaged)
  PROVE  /\ Stands(deserialize(node), c, damaged \/ TooLong(node))
         /\ Fits(deserialize(node))
<1> DEFINE d == deserialize(node)
<1>1. /\ Paired(node)
      /\ Paired(d) /\ Fits(d)
      /\ Len(d.keys) <= Len(node.keys)
      /\ \A i \in 1 .. Len(d.keys) : d.keys[i] = node.keys[i]
      /\ \A i \in 1 .. Len(d.values) :
           d.values[i] = IF i <= Len(node.values) THEN node.values[i] ELSE Empty
  BY DeserializeSpec DEF Stands
<1>2. CASE ~damaged /\ ~TooLong(node)
  <2>1. Len(node.values) = Len(node.keys)
    BY <1>2 DEF Stands
  <2>2. d = node
    BY <1>1, <1>2, <2>1, WholeRead
  <2> HIDE DEF d
  <2> QED BY <1>1, <1>2, <2>2 DEF Stands, d
<1>3. CASE damaged \/ TooLong(node)
  <2> HIDE DEF d
  <2>1. /\ Len(d.keys) \in Nat /\ Len(node.keys) \in Nat /\ Len(d.values) \in Nat
        /\ Len(node.values) \in Nat
        /\ Len(d.values) <= Len(d.keys)
        /\ Len(node.values) <= Len(node.keys) /\ Len(node.keys) <= Len(node.values) + 1
    BY <1>1, NodeFacts DEF Paired
  <2>2. Sorted(d.keys)
    <3>1. \A i \in 1 .. Len(d.keys) : i \in 1 .. Len(node.keys)
      BY <1>1, <2>1
    <3> QED BY <1>1, <3>1 DEF Stands, Sorted
  <2>3. ASSUME NEW i \in 1 .. Len(d.values)
        PROVE  d.values[i] = c[d.keys[i]] \/ d.values[i] = Empty
    <3>1. i \in 1 .. Len(d.keys) /\ d.keys[i] = node.keys[i]
      BY <1>1, <2>1
    <3>2. CASE i <= Len(node.values)
      <4>1. i \in 1 .. Len(node.values) /\ d.values[i] = node.values[i]
        BY <1>1, <2>1, <3>2
      <4> QED BY <3>1, <4>1 DEF Stands
    <3>3. CASE ~ (i <= Len(node.values))
      BY <1>1, <3>3
    <3> QED BY <3>2, <3>3
  <2> QED BY <1>1, <1>3, <2>2, <2>3 DEF Stands, d
<1> QED BY <1>1, <1>2, <1>3

\* The three changes of a leaf in memory.
LEMMA UpdateStands ==
  ASSUME NEW node, NEW c \in Map, NEW damaged \in BOOLEAN, Stands(node, c, damaged),
         NEW i \in 1 .. Len(node.values), NEW v \in Keys \X ValueSizes
  PROVE  Stands([node EXCEPT !.values[i] = v], [c EXCEPT ![node.keys[i]] = v], damaged)
<1> DEFINE k == node.keys[i]
           new == [node EXCEPT !.values[i] = v]
           c2 == [c EXCEPT ![k] = v]
<1>1. /\ node \in Node /\ node.keys \in Seq(Keys) /\ node.values \in Seq(Value)
      /\ Len(node.keys) \in Nat /\ Len(node.values) \in Nat
      /\ Len(node.values) <= Len(node.keys) /\ Len(node.keys) <= Len(node.values) + 1
      /\ \A j \in 1 .. Len(node.keys) : node.keys[j] \in Keys
  BY StandsFacts
<1>2. k \in Keys /\ i \in 1 .. Len(node.keys)
  BY <1>1
<1>3. new = [keys |-> node.keys, values |-> [node.values EXCEPT ![i] = v]]
  <2>1. node = [keys |-> node.keys, values |-> node.values]
    BY <1>1 DEF Node
  <2>2. [[keys |-> node.keys, values |-> node.values] EXCEPT !.values[i] = v]
          = [keys |-> node.keys, values |-> [node.values EXCEPT ![i] = v]]
    OBVIOUS
  <2> QED BY <2>1, <2>2
<1>4. /\ new.keys = node.keys
      /\ new.values \in Seq(Value) /\ Len(new.values) = Len(node.values)
      /\ \A j \in 1 .. Len(node.values) :
           new.values[j] = IF j = i THEN v ELSE node.values[j]
  <2>1. v \in Value
    BY DEF Value
  <2> QED BY <1>1, <1>3, <2>1, ExceptSeq
<1>5. Paired(new)
  BY <1>1, <1>3, <1>4 DEF Paired, Node
<1>6. \A j \in 1 .. Len(node.keys) : j # i => node.keys[j] # k
  BY <1>1, <1>2, SortedFacts DEF Stands
<1>7. c2[k] = v /\ \A x \in Keys : x # k => c2[x] = c[x]
  BY <1>2 DEF Map
<1>8. v # None
  BY LeafAssumption
<1> HIDE DEF new, c2, k
<1>9. ASSUME NEW j \in 1 .. Len(new.values)
      PROVE  new.values[j] = c2[new.keys[j]] \/ (damaged /\ new.values[j] = Empty)
  <2>1. j \in 1 .. Len(node.values) /\ j \in 1 .. Len(node.keys) /\ node.keys[j] \in Keys
    BY <1>1, <1>4
  <2>2. CASE j = i
    BY <1>4, <1>7, <2>1, <2>2 DEF k
  <2>3. CASE j # i
    BY <1>4, <1>6, <1>7, <2>1, <2>3 DEF Stands
  <2> QED BY <2>2, <2>3
<1>10. ASSUME ~damaged
       PROVE  /\ Len(new.values) = Len(new.keys)
              /\ \A x \in Keys : c2[x] # None <=> \E j \in 1 .. Len(new.keys) : new.keys[j] = x
  <2>1. /\ Len(node.values) = Len(node.keys)
        /\ \A x \in Keys : c[x] # None <=> \E j \in 1 .. Len(node.keys) : node.keys[j] = x
    BY <1>10 DEF Stands
  <2>2. ASSUME NEW x \in Keys
        PROVE  c2[x] # None <=> \E j \in 1 .. Len(node.keys) : node.keys[j] = x
    <3>1. CASE x = k
      BY <1>2, <1>7, <1>8, <3>1 DEF k
    <3>2. CASE x # k
      BY <1>7, <2>1, <3>2
    <3> QED BY <3>1, <3>2
  <2> QED BY <1>4, <2>1, <2>2
<1>11. Sorted(new.keys)
  BY <1>4 DEF Stands
<1> QED BY <1>5, <1>9, <1>10, <1>11 DEF Stands, new, c2, k

WithEntry(node, i, k, v) ==
  [keys |-> InsertAt(node.keys, i, k), values |-> InsertAt(node.values, i, v)]

\* Where find_position says a new key goes, the keys stay in order.
LEMMA InsertPlaces ==
  ASSUME NEW node, node.keys \in Seq(Keys), node.values \in Seq(Value), Sorted(node.keys),
         NEW k \in Keys, PositionsOf(node.keys, k) = {},
         NEW i \in 1 .. Len(node.values) + 1, i = find_position(node.keys, k),
         NEW v \in Value,
         NEW new, new = WithEntry(node, i, k, v)
  PROVE  /\ i \in 1 .. Len(node.keys) + 1
         /\ new \in Node
         /\ Sorted(new.keys)
         /\ InsertedAt(new.keys, node.keys, i, k)
         /\ InsertedAt(new.values, node.values, i, v)
         /\ \A j \in i .. Len(node.keys) : Less(k, node.keys[j])
         /\ \A j \in i .. Len(new.keys) : ~Less(new.keys[j], k)
<1> DEFINE n == Len(node.keys)
           m == Len(node.values)
<1>0. new = [keys |-> InsertAt(node.keys, i, k), values |-> InsertAt(node.values, i, v)]
  BY DEF WithEntry
<1>1. /\ n \in Nat /\ m \in Nat
      /\ DOMAIN node.keys = 1 .. n
      /\ \A j \in 1 .. n : node.keys[j] \in Keys
  BY LenProperties
<1>2. i \in 1 .. n + 1 /\ i \in 1 .. m + 1 /\ i \in Int
  BY <1>1, PositionSpec
<1>3. \A j \in 1 .. n : node.keys[j] # k /\ node.keys[j] \in ByteString /\ k \in ByteString
  BY <1>1, KeyFacts DEF PositionsOf
<1>4. \A j \in 1 .. n : IF j < i THEN Less(node.keys[j], k) ELSE Less(k, node.keys[j])
  <2>1. \A j \in 1 .. n : j < i <=> ~Less(k, node.keys[j])
    BY <1>1, PositionSpec
  <2> QED BY <1>3, <2>1, LessTotal
<1>5. /\ new.keys \in Seq(Keys) /\ Len(new.keys) = n + 1
      /\ \A j \in 1 .. n + 1 :
           new.keys[j] = IF j < i THEN node.keys[j] ELSE IF j = i THEN k ELSE node.keys[j - 1]
  <2>1. new.keys = InsertAt(node.keys, i, k)
    BY <1>0
  <2> DEFINE ks == node.keys
  <2>2. ks \in Seq(Keys) /\ i \in 1 .. Len(ks) + 1
    BY <1>1, <1>2
  <2> HIDE DEF ks
  <2>3. InsertAt(ks, i, k) \in Seq(Keys) /\ InsertedAt(InsertAt(ks, i, k), ks, i, k)
    BY <2>2, InsertAtSpec
  <2> QED BY <2>1, <2>3 DEF ks, InsertedAt
<1>6. /\ new.values \in Seq(Value) /\ Len(new.values) = m + 1
      /\ \A j \in 1 .. m + 1 :
           new.values[j] = IF j < i THEN node.values[j]
                           ELSE IF j = i THEN v ELSE node.values[j - 1]
  <2>2. new.values = InsertAt(node.values, i, v)
    BY <1>0
  <2> DEFINE vs == node.values
  <2>3. vs \in Seq(Value) /\ i \in 1 .. Len(vs) + 1
    BY <1>1, <1>2
  <2> HIDE DEF vs
  <2>4. InsertAt(vs, i, v) \in Seq(Value) /\ InsertedAt(InsertAt(vs, i, v), vs, i, v)
    BY <2>3, InsertAtSpec
  <2> QED BY <2>2, <2>4 DEF vs, InsertedAt
<1>7. new \in Node
  BY <1>0, <1>5, <1>6 DEF Node
<1> HIDE DEF n, m
<1>9. Sorted(new.keys)
  <2> SUFFICES ASSUME NEW a \in 1 .. n + 1, NEW b \in 1 .. n + 1, a < b
               PROVE  Less(new.keys[a], new.keys[b])
    BY <1>5 DEF Sorted
  <2>1. \A p, q \in 1 .. n : p < q => Less(node.keys[p], node.keys[q])
    BY DEF Sorted, n
  <2>2. CASE b < i
    <3>1. a \in 1 .. n /\ b \in 1 .. n /\ a < i
      BY <1>1, <1>2, <2>2
    <3>2. new.keys[a] = node.keys[a] /\ new.keys[b] = node.keys[b]
      BY <1>5, <2>2, <3>1
    <3> QED BY <2>1, <3>1, <3>2
  <2>3. CASE b = i
    <3>1. a \in 1 .. n /\ a < i
      BY <1>1, <1>2, <2>3
    <3> QED BY <1>4, <1>5, <2>3, <3>1
  <2>4. CASE b > i
    <3>1. b - 1 \in 1 .. n /\ ~ (b - 1 < i) /\ new.keys[b] = node.keys[b - 1]
      BY <1>1, <1>2, <1>5, <2>4
    <3>2. CASE a < i
      <4>1. a \in 1 .. n /\ a < b - 1 /\ new.keys[a] = node.keys[a]
        BY <1>1, <1>2, <1>5, <2>4, <3>2
      <4> QED BY <2>1, <3>1, <4>1
    <3>3. CASE a = i
      BY <1>4, <1>5, <3>1, <3>3
    <3>4. CASE a > i
      <4>1. a - 1 \in 1 .. n /\ a - 1 < b - 1 /\ new.keys[a] = node.keys[a - 1]
        BY <1>1, <1>2, <1>5, <2>4, <3>4
      <4> QED BY <2>1, <3>1, <4>1
    <3> QED BY <1>2, <3>2, <3>3, <3>4
  <2> QED BY <1>2, <2>2, <2>3, <2>4
<1>13. \A j \in i .. n : Less(k, node.keys[j])
  <2>1. \A j \in i .. n : j \in 1 .. n /\ ~ (j < i)
    BY <1>1, <1>2
  <2> QED BY <1>4, <2>1
<1>14. \A j \in i .. n + 1 : ~Less(new.keys[j], k)
  <2> SUFFICES ASSUME NEW j \in i .. n + 1 PROVE ~Less(new.keys[j], k)
    BY <1>0
  <2>1. CASE j = i
    BY <1>2, <1>5, <2>1, KeyFacts, LessIrreflexive
  <2>2. CASE j # i
    <3>1. j - 1 \in 1 .. n /\ ~ (j - 1 < i) /\ j \in 1 .. n + 1 /\ ~ (j < i)
      BY <1>1, <1>2, <2>2
    <3>2. new.keys[j] = node.keys[j - 1] /\ Less(k, node.keys[j - 1])
      BY <1>4, <1>5, <2>2, <3>1
    <3> QED BY <1>3, <3>1, <3>2, LessAsymmetric
  <2> QED BY <2>1, <2>2
<1> QED BY <1>2, <1>5, <1>6, <1>7, <1>9, <1>13, <1>14 DEF n, m, InsertedAt

LEMMA InsertStands ==
  ASSUME NEW node, NEW c \in Map, NEW damaged \in BOOLEAN, Stands(node, c, damaged),
         NEW k \in Keys, PositionsOf(node.keys, k) = {},
         NEW i \in 1 .. Len(node.values) + 1, i = find_position(node.keys, k),
         NEW v \in Keys \X ValueSizes,
         NEW new, new = WithEntry(node, i, k, v),
         NEW c2, c2[k] = v, \A x \in Keys : x # k => c2[x] = c[x]
  PROVE  Stands(new, c2, damaged)
<1> DEFINE n == Len(node.keys)
           m == Len(node.values)
<1>1. /\ node.keys \in Seq(Keys) /\ node.values \in Seq(Value)
      /\ n \in Nat /\ m \in Nat /\ m <= n /\ n <= m + 1
      /\ DOMAIN node.keys = 1 .. n
      /\ \A j \in 1 .. n : node.keys[j] \in Keys
  BY StandsFacts
<1>2. i \in 1 .. n + 1 /\ i \in 1 .. m + 1 /\ i \in Int
  BY <1>1, PositionSpec DEF Stands
<1>3. \A j \in 1 .. n : node.keys[j] # k
  BY <1>1 DEF PositionsOf
<1>4. v \in Value
  BY DEF Value
<1>5. /\ new \in Node
      /\ Sorted(new.keys)
      /\ Len(new.keys) = n + 1
      /\ \A j \in 1 .. n + 1 :
           new.keys[j] = IF j < i THEN node.keys[j] ELSE IF j = i THEN k ELSE node.keys[j - 1]
      /\ Len(new.values) = m + 1
      /\ \A j \in 1 .. m + 1 :
           new.values[j] = IF j < i THEN node.values[j]
                           ELSE IF j = i THEN v ELSE node.values[j - 1]
  <2>1. Sorted(node.keys)
    BY DEF Stands
  <2>2. /\ new \in Node /\ Sorted(new.keys)
        /\ InsertedAt(new.keys, node.keys, i, k) /\ InsertedAt(new.values, node.values, i, v)
    BY <1>1, <1>4, <2>1, InsertPlaces
  <2> QED BY <2>2 DEF InsertedAt
<1> HIDE DEF n, m
<1>7. Paired(new)
  BY <1>1, <1>5 DEF Paired
<1>8. c2[k] = v /\ v # None /\ \A x \in Keys : x # k => c2[x] = c[x]
  BY LeafAssumption DEF Map
<1>10. ASSUME NEW j \in 1 .. Len(new.values)
       PROVE  new.values[j] = c2[new.keys[j]] \/ (damaged /\ new.values[j] = Empty)
  <2>1. j \in 1 .. m + 1 /\ j \in 1 .. n + 1
    BY <1>1, <1>5
  <2>2. \A p \in 1 .. m : /\ p \in 1 .. n /\ node.keys[p] \in Keys /\ node.keys[p] # k
                          /\ \/ node.values[p] = c[node.keys[p]]
                             \/ damaged /\ node.values[p] = Empty
    <3>1. \A p \in 1 .. m : p \in 1 .. n
      BY <1>1
    <3>2. \A p \in 1 .. m : node.values[p] = c[node.keys[p]] \/ (damaged /\ node.values[p] = Empty)
      BY DEF Stands, m
    <3> QED BY <1>1, <1>3, <3>1, <3>2
  <2>3. CASE j < i
    <3>1. j \in 1 .. m
      BY <1>1, <1>2, <2>1, <2>3
    <3>2. new.values[j] = node.values[j] /\ new.keys[j] = node.keys[j]
      BY <1>5, <2>1, <2>3
    <3> QED BY <1>8, <2>2, <3>1, <3>2
  <2>4. CASE j = i
    BY <1>5, <1>8, <2>1, <2>4
  <2>5. CASE j > i
    <3>1. j - 1 \in 1 .. m /\ ~ (j < i) /\ j # i
      BY <1>1, <1>2, <2>1, <2>5
    <3>2. new.values[j] = node.values[j - 1] /\ new.keys[j] = node.keys[j - 1]
      BY <1>5, <2>1, <3>1
    <3> QED BY <1>8, <2>2, <3>1, <3>2
  <2> QED BY <1>2, <2>1, <2>3, <2>4, <2>5
<1>11. ASSUME ~damaged
       PROVE  /\ Len(new.values) = Len(new.keys)
              /\ \A x \in Keys : c2[x] # None <=> \E j \in 1 .. Len(new.keys) : new.keys[j] = x
  <2>1. /\ m = n
        /\ \A x \in Keys : c[x] # None <=> \E j \in 1 .. n : node.keys[j] = x
    BY <1>11 DEF Stands, n, m
  <2>2. ASSUME NEW x \in Keys
        PROVE  c2[x] # None <=> \E j \in 1 .. n + 1 : new.keys[j] = x
    <3>1. CASE x = k
      BY <1>2, <1>5, <1>8, <3>1
    <3>2. CASE x # k
      <4>1. ASSUME NEW j \in 1 .. n, node.keys[j] = x
            PROVE  \E l \in 1 .. n + 1 : new.keys[l] = x
        <5>1. CASE j < i
          <6>1. j \in 1 .. n + 1
            BY <1>1
          <6> QED BY <1>5, <4>1, <5>1, <6>1
        <5>2. CASE ~ (j < i)
          <6>1. j + 1 \in 1 .. n + 1 /\ ~ (j + 1 < i) /\ j + 1 # i /\ (j + 1) - 1 = j
            BY <1>1, <1>2, <5>2
          <6> QED BY <1>5, <4>1, <6>1
        <5> QED BY <5>1, <5>2
      <4>2. ASSUME NEW l \in 1 .. n + 1, new.keys[l] = x
            PROVE  \E j \in 1 .. n : node.keys[j] = x
        <5>1. l # i
          BY <1>5, <3>2, <4>2
        <5>2. CASE l < i
          <6>1. l \in 1 .. n
            BY <1>1, <1>2, <5>2
          <6> QED BY <1>5, <4>2, <5>2, <6>1
        <5>3. CASE ~ (l < i)
          <6>1. l - 1 \in 1 .. n
            BY <1>1, <1>2, <5>1, <5>3
          <6> QED BY <1>5, <4>2, <5>1, <5>3, <6>1
        <5> QED BY <5>2, <5>3
      <4> QED BY <1>8, <2>1, <3>2, <4>1, <4>2
    <3> QED BY <3>1, <3>2
  <2> QED BY <1>5, <2>1, <2>2
<1> QED BY <1>5, <1>7, <1>10, <1>11 DEF Stands

WithoutEntry(node, i) ==
  [keys |-> RemoveAt(node.keys, i), values |-> RemoveAt(node.values, i)]

\* Without the entry at i the others close up.
LEMMA DeletePlaces ==
  ASSUME NEW node, node.keys \in Seq(Keys), node.values \in Seq(Value),
         Len(node.values) <= Len(node.keys), Sorted(node.keys),
         NEW i \in 1 .. Len(node.values), NEW k, k = node.keys[i],
         NEW new, new = WithoutEntry(node, i)
  PROVE  /\ new \in Node
         /\ Sorted(new.keys)
         /\ RemovedAt(new.keys, node.keys, i)
         /\ RemovedAt(new.values, node.values, i)
         /\ \A j \in i .. Len(new.keys) : Less(k, new.keys[j])
<1> DEFINE ks == node.keys
           vs == node.values
           n == Len(ks)
           m == Len(vs)
<1>1. /\ ks \in Seq(Keys) /\ vs \in Seq(Value)
      /\ n \in Nat /\ m \in Nat /\ m <= n
  BY LenProperties
<1>2. i \in 1 .. n /\ i \in 1 .. m /\ i \in Int /\ k = ks[i]
  BY <1>1
<1>3. \A p, q \in 1 .. n : p < q => Less(ks[p], ks[q])
  BY DEF Sorted
<1>5. new.keys = RemoveAt(ks, i) /\ new.values = RemoveAt(vs, i)
  BY DEF WithoutEntry
<1>8. new = [keys |-> new.keys, values |-> new.values]
  BY DEF WithoutEntry
<1> HIDE DEF n, m, ks, vs
<1>9. /\ new.keys \in Seq(Keys) /\ Len(new.keys) = n - 1
      /\ \A j \in 1 .. n - 1 : new.keys[j] = IF j < i THEN ks[j] ELSE ks[j + 1]
  BY <1>1, <1>2, <1>5, RemoveAtSpec DEF n, RemovedAt
<1>10. /\ new.values \in Seq(Value) /\ Len(new.values) = m - 1
       /\ \A j \in 1 .. m - 1 : new.values[j] = IF j < i THEN vs[j] ELSE vs[j + 1]
  BY <1>1, <1>2, <1>5, RemoveAtSpec DEF m, RemovedAt
<1>11. new \in Node
  BY <1>8, <1>9, <1>10 DEF Node
<1>12. Sorted(new.keys)
  <2> SUFFICES ASSUME NEW a \in 1 .. n - 1, NEW b \in 1 .. n - 1, a < b
               PROVE  Less(new.keys[a], new.keys[b])
    BY <1>9 DEF Sorted
  <2> DEFINE A == IF a < i THEN a ELSE a + 1
             B == IF b < i THEN b ELSE b + 1
  <2>1. A \in 1 .. n /\ B \in 1 .. n /\ A < B
    BY <1>1, <1>2
  <2>2. new.keys[a] = ks[A] /\ new.keys[b] = ks[B]
    BY <1>9
  <2> HIDE DEF A, B
  <2> QED BY <1>3, <2>1, <2>2
<1>16. \A j \in i .. n - 1 : Less(k, new.keys[j])
  <2> SUFFICES ASSUME NEW j \in i .. n - 1 PROVE Less(k, new.keys[j])
    OBVIOUS
  <2>1. j \in 1 .. n - 1 /\ ~ (j < i) /\ j + 1 \in 1 .. n /\ i < j + 1
    BY <1>1, <1>2
  <2> QED BY <1>2, <1>3, <1>9, <2>1
<1> QED BY <1>9, <1>10, <1>11, <1>12, <1>16 DEF n, m, ks, vs, RemovedAt

LEMMA DeleteStands ==
  ASSUME NEW node, NEW c \in Map, NEW damaged \in BOOLEAN, Stands(node, c, damaged),
         NEW i \in 1 .. Len(node.values), NEW k, k = node.keys[i],
         NEW new, new = WithoutEntry(node, i),
         NEW c2, c2[k] = None, \A x \in Keys : x # k => c2[x] = c[x]
  PROVE  Stands(new, c2, damaged)
<1> DEFINE ks == node.keys
           vs == node.values
           n == Len(ks)
           m == Len(vs)
<1>1. /\ node \in Node /\ ks \in Seq(Keys) /\ vs \in Seq(Value)
      /\ n \in Nat /\ m \in Nat /\ m <= n /\ n <= m + 1
      /\ \A j \in 1 .. n : ks[j] \in Keys
  BY StandsFacts
<1>2. i \in 1 .. n /\ i \in 1 .. m /\ i \in Int /\ k \in Keys /\ k = ks[i]
  BY <1>1
<1>3. /\ \A j \in 1 .. n : ks[j] = k => j = i
      /\ \A p, q \in 1 .. n : p < q => Less(ks[p], ks[q])
  <2>1. Sorted(ks)
    BY DEF Stands
  <2>2. \A j \in 1 .. n : ks[j] = k => j = i
    BY <1>1, <1>2, <2>1, SortedFacts
  <2> QED BY <2>1, <2>2 DEF Sorted
<1>4. \A p \in 1 .. m : p \in 1 .. n /\ (vs[p] = c[ks[p]] \/ (damaged /\ vs[p] = Empty))
  <2>1. \A p \in 1 .. m : p \in 1 .. n
    BY <1>1
  <2> QED BY <2>1 DEF Stands
<1>6. c2[k] = None /\ \A x \in Keys : x # k => c2[x] = c[x]
  OBVIOUS
<1>7. ~damaged => m = n /\ \A x \in Keys : c[x] # None <=> \E j \in 1 .. n : ks[j] = x
  BY DEF Stands
<1>8. Sorted(ks)
  BY DEF Stands
<1>9. /\ new \in Node
      /\ Sorted(new.keys)
      /\ Len(new.keys) = n - 1
      /\ \A j \in 1 .. n - 1 : new.keys[j] = IF j < i THEN ks[j] ELSE ks[j + 1]
      /\ Len(new.values) = m - 1
      /\ \A j \in 1 .. m - 1 : new.values[j] = IF j < i THEN vs[j] ELSE vs[j + 1]
  <2>1. /\ new \in Node /\ Sorted(new.keys)
        /\ RemovedAt(new.keys, ks, i) /\ RemovedAt(new.values, vs, i)
    BY <1>1, <1>2, <1>8, DeletePlaces
  <2> QED BY <2>1 DEF RemovedAt
<1> HIDE DEF n, m, ks, vs
<1>11. Paired(new)
  BY <1>1, <1>2, <1>9 DEF Paired
<1>13. ASSUME NEW j \in 1 .. Len(new.values)
       PROVE  new.values[j] = c2[new.keys[j]] \/ (damaged /\ new.values[j] = Empty)
  <2> DEFINE J == IF j < i THEN j ELSE j + 1
  <2>1. J \in 1 .. m /\ J # i /\ j \in 1 .. m - 1 /\ j \in 1 .. n - 1
    BY <1>1, <1>2, <1>9
  <2>2. new.keys[j] = ks[J] /\ new.values[j] = vs[J]
    BY <1>9, <2>1
  <2> HIDE DEF J
  <2>3. ks[J] \in Keys /\ ks[J] # k
    BY <1>1, <1>3, <1>4, <2>1
  <2> QED BY <1>4, <1>6, <2>1, <2>2, <2>3
<1>14. ASSUME ~damaged
       PROVE  /\ Len(new.values) = Len(new.keys)
              /\ \A x \in Keys : c2[x] # None <=> \E j \in 1 .. Len(new.keys) : new.keys[j] = x
  <2>1. ASSUME NEW x \in Keys
        PROVE  c2[x] # None <=> \E j \in 1 .. n - 1 : new.keys[j] = x
    <3>1. ASSUME NEW j \in 1 .. n - 1, new.keys[j] = x
          PROVE  x # k /\ \E l \in 1 .. n : ks[l] = x
      <4> DEFINE J == IF j < i THEN j ELSE j + 1
      <4>1. J \in 1 .. n /\ J # i
        BY <1>1, <1>2
      <4>2. ks[J] = x
        BY <1>9, <3>1
      <4> HIDE DEF J
      <4> QED BY <1>3, <4>1, <4>2
    <3>2. ASSUME NEW l \in 1 .. n, ks[l] = x, x # k
          PROVE  \E j \in 1 .. n - 1 : new.keys[j] = x
      <4>1. l # i
        BY <1>2, <3>2
      <4>2. CASE l < i
        <5>1. l \in 1 .. n - 1
          BY <1>1, <1>2, <4>2
        <5> QED BY <1>9, <3>2, <4>2, <5>1
      <4>3. CASE ~ (l < i)
        <5>1. l - 1 \in 1 .. n - 1 /\ ~ (l - 1 < i) /\ (l - 1) + 1 = l
          BY <1>1, <1>2, <4>1, <4>3
        <5> QED BY <1>9, <3>2, <5>1
      <4> QED BY <4>2, <4>3
    <3> QED BY <1>6, <1>7, <1>14, <3>1, <3>2
  <2> QED BY <1>7, <1>9, <1>14, <2>1
<1> QED BY <1>9, <1>11, <1>13, <1>14 DEF Stands
---------------------------------------------------------------------------
(* What get finds.                                                         *)
Found(node, k) == IF \E i \in PositionsOf(node.keys, k) : HasValue(node, i)
                    THEN node.values[CHOOSE i \in PositionsOf(node.keys, k) : TRUE]
                    ELSE None

LEMMA FoundAt ==
  ASSUME NEW node, NEW c, NEW damaged, Stands(node, c, damaged),
         NEW i \in 1 .. Len(node.keys), NEW k, node.keys[i] = k
  PROVE  Found(node, k) = IF i <= Len(node.values) THEN node.values[i] ELSE None
<1>1. PositionsOf(node.keys, k) = {i}
  <2>1. DOMAIN node.keys = 1 .. Len(node.keys) /\ node.keys \in Seq(Keys)
    BY StandsFacts
  <2>2. \A j \in 1 .. Len(node.keys) : node.keys[j] = k => j = i
    BY <2>1, SortedFacts DEF Stands
  <2> QED BY <2>1, <2>2 DEF PositionsOf
<1>2. (CHOOSE j \in PositionsOf(node.keys, k) : TRUE) = i
  BY <1>1
<1> QED BY <1>1, <1>2 DEF Found, HasValue

LEMMA FoundNowhere ==
  ASSUME NEW node, NEW c, NEW damaged, Stands(node, c, damaged),
         NEW k, \A i \in 1 .. Len(node.keys) : node.keys[i] # k
  PROVE  Found(node, k) = None
<1>1. PositionsOf(node.keys, k) = {}
  BY StandsFacts DEF PositionsOf
<1> QED BY <1>1 DEF Found

\* A change at place i, where the keys are k or larger, leaves alone what is
\* found of smaller keys: what was in the page stays in it.
LEMMA FrontSafe ==
  ASSUME NEW old, NEW c, NEW damaged, Stands(old, c, damaged), Fits(old),
         NEW new, NEW c2, NEW damaged2, Stands(new, c2, damaged2),
         NEW i \in 1 .. Len(old.values) + 1, i <= Len(new.values) + 1,
         \A j \in 1 .. i - 1 : new.keys[j] = old.keys[j] /\ new.values[j] = old.values[j],
         NEW k \in Keys,
         \A j \in i .. Len(old.keys) : ~Less(old.keys[j], k),
         \A j \in i .. Len(new.keys) : ~Less(new.keys[j], k),
         NEW x \in Keys, Less(x, k)
  PROVE  Found(deserialize(new), x) = Found(old, x)
<1> DEFINE d == deserialize(new)
<1>1. /\ old \in Node /\ new \in Node
      /\ Len(old.keys) \in Nat /\ Len(old.values) \in Nat
      /\ Len(new.keys) \in Nat /\ Len(new.values) \in Nat
      /\ Len(old.values) <= Len(old.keys)
      /\ Len(new.values) <= Len(new.keys)
  BY StandsFacts
<1>2. i \in Int /\ 1 <= i /\ i <= Len(old.values) + 1
  BY <1>1
<1>3. \A j \in 1 .. i - 1 : /\ j \in 1 .. Len(old.keys) /\ j \in 1 .. Len(old.values)
                            /\ j \in 1 .. Len(new.keys) /\ j \in 1 .. Len(new.values)
  BY <1>1, <1>2
<1>4. Stands(d, c2, damaged2 \/ TooLong(new))
  BY ReadBackStands
<1>5. /\ Len(d.keys) <= Len(new.keys)
      /\ \A j \in 1 .. Len(d.keys) : d.keys[j] = new.keys[j]
      /\ \A j \in 1 .. Len(d.values) :
           d.values[j] = IF j <= Len(new.values) THEN new.values[j] ELSE Empty
      /\ \A j \in 1 .. Len(new.values) : EntryEnd(new, j) <= NodeBytes => j <= Len(d.values)
  BY DeserializeSpec DEF Stands
<1> HIDE DEF d
<1>6. Len(d.keys) \in Nat /\ Len(d.values) \in Nat /\ Len(d.values) <= Len(d.keys)
  BY <1>4, StandsFacts
<1>7. CASE \E j \in 1 .. Len(old.keys) : old.keys[j] = x
  <2>1. PICK j \in 1 .. Len(old.keys) : old.keys[j] = x
    BY <1>7
  <2>2. j \in 1 .. i - 1
    <3>1. ~ (j \in i .. Len(old.keys))
      BY <2>1
    <3> QED BY <1>1, <1>2, <3>1
  <2>3. \A l \in 0 .. i - 1 : EntryEnd(new, l) = EntryEnd(old, l)
    <3>1. ASSUME NEW l \in 1 .. i - 1 PROVE EntryBytes(new, l) = EntryBytes(old, l)
      <4>1. l <= Len(new.values) /\ l <= Len(old.values)
        BY <1>1, <1>3
      <4>2. new.keys[l] = old.keys[l] /\ new.values[l] = old.values[l]
        OBVIOUS
      <4> QED BY <4>1, <4>2 DEF EntryBytes, HasValue
    <3>2. i - 1 \in Nat /\ i - 1 <= Len(new.keys) /\ i - 1 <= Len(old.keys)
      BY <1>1, <1>2
    <3> QED BY <1>1, <3>1, <3>2, EndsAgree
  <2>4. EntryEnd(new, j) <= NodeBytes
    <3>1. j \in 0 .. i - 1 /\ j \in 1 .. Len(old.values)
      BY <1>3, <2>2
    <3> QED BY <2>3, <3>1 DEF Fits
  <2>5. /\ j \in 1 .. Len(d.values) /\ j \in 1 .. Len(d.keys)
        /\ j <= Len(d.values) /\ j <= Len(old.values) /\ j <= Len(new.values)
    BY <1>1, <1>3, <1>5, <1>6, <2>2, <2>4
  <2>6. d.keys[j] = x /\ d.values[j] = old.values[j]
    BY <1>5, <2>1, <2>2, <2>5
  <2> QED BY <1>4, <2>1, <2>5, <2>6, FoundAt DEF d
<1>8. CASE \A j \in 1 .. Len(old.keys) : old.keys[j] # x
  <2>1. ASSUME NEW j \in 1 .. Len(d.keys) PROVE d.keys[j] # x
    <3>1. j \in 1 .. Len(new.keys) /\ d.keys[j] = new.keys[j]
      BY <1>1, <1>5, <1>6
    <3>2. CASE j \in 1 .. i - 1
      BY <1>3, <1>8, <3>1, <3>2
    <3>3. CASE j \in i .. Len(new.keys)
      BY <3>1, <3>3
    <3> QED BY <1>1, <1>2, <3>1, <3>2, <3>3
  <2> QED BY <1>4, <1>8, <2>1, FoundNowhere DEF d
<1> QED BY <1>7, <1>8
---------------------------------------------------------------------------
(* The steps.                                                              *)
LEMMA WriteStep ==
  ASSUME LeafInv, NEW node, Stands(node, contents', cut), contents' \in Map, write_node(node)
  PROVE  LeafInv'
<1>1. TooLong(node) \in BOOLEAN
  BY DEF TooLong
<1>2. leaf' = deserialize(node) /\ cut' = (cut \/ TooLong(node)) /\ panicked' = panicked
  BY DEF write_node
<1>3. Stands(leaf', contents', cut') /\ Fits(leaf')
  BY <1>2, ReadBackStands
<1> QED BY <1>1, <1>2, <1>3 DEF LeafInv

LEMMA PanicStep ==
  ASSUME LeafInv, Panic, cut, contents' \in Map, NEW k \in Keys,
         \A x \in Keys : x # k => contents'[x] = contents[x],
         \A i \in 1 .. Len(leaf.values) : leaf.keys[i] # k
  PROVE  LeafInv'
<1>1. leaf' = leaf /\ cut' = cut /\ panicked' = TRUE
  BY DEF Panic
<1>2. Stands(leaf, contents, cut)
  BY DEF LeafInv
<1>3. \A i \in 1 .. Len(leaf.values) : leaf.keys[i] \in Keys
  <2>1. /\ Len(leaf.values) \in Nat /\ Len(leaf.keys) \in Nat
        /\ Len(leaf.values) <= Len(leaf.keys)
        /\ \A i \in 1 .. Len(leaf.keys) : leaf.keys[i] \in Keys
    BY <1>2, StandsFacts
  <2>2. \A i \in 1 .. Len(leaf.values) : i \in 1 .. Len(leaf.keys)
    BY <2>1
  <2> QED BY <2>1, <2>2
<1>4. Stands(leaf, contents', cut)
  BY <1>2, <1>3 DEF Stands
<1> QED BY <1>1, <1>4 DEF LeafInv

LEMMA PutStep ==
  ASSUME LeafInv, NEW k \in Keys, NEW size \in ValueSizes, Put(k, size)
  PROVE  /\ LeafInv'
         /\ \A x \in Keys : Less(x, k) => Found(leaf', x) = Found(leaf, x)
<1> DEFINE v == <<k, size>>
<1>1. /\ Stands(leaf, contents, cut) /\ Fits(leaf) /\ contents \in Map /\ cut \in BOOLEAN
      /\ leaf \in Node /\ leaf.keys \in Seq(Keys)
      /\ DOMAIN leaf.keys = 1 .. Len(leaf.keys)
      /\ Len(leaf.keys) \in Nat /\ Len(leaf.values) \in Nat
      /\ Len(leaf.values) <= Len(leaf.keys)
  BY StandsFacts DEF LeafInv
<1>2. insert(k, v) /\ contents' = [contents EXCEPT ![k] = v] /\ v \in Keys \X ValueSizes
  BY DEF Put
<1>3. contents' \in Map /\ \A x \in Keys : x # k => contents'[x] = contents[x]
  BY <1>1, <1>2 DEF Map
<1> HIDE DEF v
<1>4. \A i, j \in 1 .. Len(leaf.keys) : leaf.keys[i] = leaf.keys[j] => i = j
  BY <1>1, SortedFacts DEF Stands
<1>5. ASSUME NEW i \in PositionsOf(leaf.keys, k), HasValue(leaf, i),
             write_node([leaf EXCEPT !.values[i] = v])
      PROVE  /\ LeafInv'
             /\ \A x \in Keys : Less(x, k) => Found(leaf', x) = Found(leaf, x)
  <2> DEFINE new == [leaf EXCEPT !.values[i] = v]
  <2>1. i \in 1 .. Len(leaf.keys) /\ i \in 1 .. Len(leaf.values) /\ leaf.keys[i] = k
    BY <1>1, <1>5 DEF PositionsOf, HasValue
  <2>2. Stands(new, contents', cut)
    <3>1. Stands(leaf, contents, cut) /\ contents \in Map /\ cut \in BOOLEAN
      BY <1>1
    <3>2. Stands(new, [contents EXCEPT ![leaf.keys[i]] = v], cut)
      BY <1>2, <2>1, <3>1, UpdateStands
    <3> QED BY <1>2, <2>1, <3>2
  <2>3. /\ new.keys = leaf.keys
        /\ new.values = [leaf.values EXCEPT ![i] = v]
    BY <1>1 DEF Node
  <2>4. Len(new.values) = Len(leaf.values) /\ \A j \in 1 .. i - 1 : new.values[j] = leaf.values[j]
    <3>1. leaf.values \in Seq(Value) /\ v \in Value
      BY <1>1, <1>2, StandsFacts DEF Value
    <3>2. \A j \in 1 .. i - 1 : j \in 1 .. Len(leaf.values) /\ j # i
      BY <1>1, <2>1
    <3> HIDE DEF new
    <3> QED BY <2>1, <2>3, <3>1, <3>2, ExceptSeq
  <2>5. \A j \in i .. Len(leaf.keys) : ~Less(leaf.keys[j], k)
    <3>1. \A j \in i .. Len(leaf.keys) : j \in 1 .. Len(leaf.keys) /\ i <= j
      BY <1>1, <2>1
    <3>2. \A j \in 1 .. Len(leaf.keys) : i <= j <=> ~Less(leaf.keys[j], leaf.keys[i])
      BY <1>1, <2>1, SortedFacts DEF Stands
    <3> QED BY <2>1, <3>1, <3>2
  <2>6. leaf' = deserialize(new)
    BY <1>5 DEF write_node
  <2>7. LeafInv'
    BY <1>3, <1>5, <2>2, WriteStep
  <2> HIDE DEF new
  <2>8. i \in 1 .. Len(leaf.values) + 1 /\ i <= Len(new.values) + 1
    BY <1>1, <2>1, <2>4
  <2>9. \A x \in Keys : Less(x, k) => Found(deserialize(new), x) = Found(leaf, x)
    <3>1. \A j \in 1 .. i - 1 : new.keys[j] = leaf.keys[j] /\ new.values[j] = leaf.values[j]
      BY <2>3, <2>4
    <3>2. \A j \in i .. Len(new.keys) : ~Less(new.keys[j], k)
      BY <2>3, <2>5
    <3>3. Stands(leaf, contents, cut) /\ Fits(leaf)
      BY <1>1
    <3> QED BY <2>2, <2>5, <2>8, <3>1, <3>2, <3>3, FrontSafe
  <2> QED BY <2>6, <2>7, <2>9
<1>6. ASSUME NEW i \in PositionsOf(leaf.keys, k), ~HasValue(leaf, i), Panic
      PROVE  /\ LeafInv'
             /\ \A x \in Keys : Less(x, k) => Found(leaf', x) = Found(leaf, x)
  <2>1. i \in 1 .. Len(leaf.keys) /\ leaf.keys[i] = k /\ ~ (i <= Len(leaf.values))
    BY <1>1, <1>6 DEF PositionsOf, HasValue
  <2>2. cut
    BY <1>1, <2>1 DEF Stands
  <2>3. \A j \in 1 .. Len(leaf.values) : leaf.keys[j] # k
    <3>1. \A j \in 1 .. Len(leaf.values) : j \in 1 .. Len(leaf.keys) /\ j # i
      BY <1>1, <2>1
    <3> QED BY <1>4, <2>1, <3>1
  <2> QED BY <1>3, <1>6, <2>2, <2>3, PanicStep DEF Panic
<1>7. ASSUME PositionsOf(leaf.keys, k) = {},
             NEW i, i = find_position(leaf.keys, k), i <= Len(leaf.values) + 1,
             Inserted(i, k, v)
      PROVE  /\ LeafInv'
             /\ \A x \in Keys : Less(x, k) => Found(leaf', x) = Found(leaf, x)
  <2> DEFINE new == WithEntry(leaf, i, k, v)
  <2>1. write_node(new) /\ leaf' = deserialize(new)
    BY <1>7 DEF Inserted, write_node, WithEntry
  <2>2. /\ Stands(new, contents', cut)
        /\ i \in 1 .. Len(leaf.values) + 1
        /\ Len(new.values) = Len(leaf.values) + 1
        /\ \A j \in 1 .. i - 1 : new.keys[j] = leaf.keys[j] /\ new.values[j] = leaf.values[j]
        /\ \A j \in i .. Len(leaf.keys) : Less(k, leaf.keys[j])
        /\ \A j \in i .. Len(new.keys) : ~Less(new.keys[j], k)
    <3>1. Stands(leaf, contents, cut) /\ contents \in Map /\ cut \in BOOLEAN
      BY <1>1
    <3>2. /\ v \in Keys \X ValueSizes /\ contents'[k] = v
          /\ \A x \in Keys : x # k => contents'[x] = contents[x]
      BY <1>1, <1>2, <1>3 DEF Map
    <3>3. i \in 1 .. Len(leaf.values) + 1
      <4>1. i \in 1 .. Len(leaf.keys) + 1
        BY <1>1, <1>7, PositionSpec DEF Stands
      <4> QED BY <1>1, <1>7, <4>1
    <3>4. PositionsOf(leaf.keys, k) = {} /\ i = find_position(leaf.keys, k)
      BY <1>7
    <3>5. new = WithEntry(leaf, i, k, v)
      OBVIOUS
    <3> HIDE DEF new
    <3>6. Stands(new, contents', cut)
      BY <3>1, <3>2, <3>3, <3>4, <3>5, InsertStands
    <3>7. leaf.keys \in Seq(Keys) /\ leaf.values \in Seq(Value) /\ Sorted(leaf.keys)
      BY <3>1, StandsFacts DEF Stands
    <3>8. v \in Value
      BY <3>2 DEF Value
    <3>9. /\ InsertedAt(new.keys, leaf.keys, i, k) /\ InsertedAt(new.values, leaf.values, i, v)
          /\ \A j \in i .. Len(leaf.keys) : Less(k, leaf.keys[j])
          /\ \A j \in i .. Len(new.keys) : ~Less(new.keys[j], k)
      BY <3>3, <3>4, <3>5, <3>7, <3>8, InsertPlaces
    <3>10. \A j \in 1 .. i - 1 : /\ j \in 1 .. Len(leaf.keys) + 1
                                 /\ j \in 1 .. Len(leaf.values) + 1 /\ j < i
      BY <1>1, <3>3
    <3>11. \A j \in 1 .. i - 1 : new.keys[j] = leaf.keys[j] /\ new.values[j] = leaf.values[j]
      BY <3>9, <3>10 DEF InsertedAt
    <3>12. Len(new.values) = Len(leaf.values) + 1
      BY <3>9 DEF InsertedAt
    <3> QED BY <3>3, <3>6, <3>9, <3>11, <3>12
  <2> HIDE DEF new
  <2>3. LeafInv'
    BY <1>3, <2>1, <2>2, WriteStep
  <2>4. \A j \in i .. Len(leaf.keys) : ~Less(leaf.keys[j], k)
    <3>1. \A j \in i .. Len(leaf.keys) : leaf.keys[j] \in ByteString /\ k \in ByteString
      <4>1. \A j \in i .. Len(leaf.keys) : j \in 1 .. Len(leaf.keys)
        BY <1>1, <2>2
      <4> QED BY <1>1, <4>1, StandsFacts, KeyFacts
    <3> QED BY <2>2, <3>1, LessAsymmetric
  <2>5. i <= Len(new.values) + 1
    BY <1>1, <2>2
  <2>6. \A x \in Keys : Less(x, k) => Found(deserialize(new), x) = Found(leaf, x)
    BY <1>1, <2>2, <2>4, <2>5, FrontSafe
  <2> QED BY <2>1, <2>3, <2>6
<1>8. ASSUME PositionsOf(leaf.keys, k) = {},
             ~ (find_position(leaf.keys, k) <= Len(leaf.values) + 1), Panic
      PROVE  /\ LeafInv'
             /\ \A x \in Keys : Less(x, k) => Found(leaf', x) = Found(leaf, x)
  <2>1. find_position(leaf.keys, k) \in 1 .. Len(leaf.keys) + 1
    BY <1>1, PositionSpec DEF Stands
  <2>2. cut
    BY <1>1, <1>8, <2>1 DEF Stands
  <2>3. \A j \in 1 .. Len(leaf.values) : leaf.keys[j] # k
    <3>1. \A j \in 1 .. Len(leaf.values) : j \in 1 .. Len(leaf.keys)
      BY <1>1
    <3> QED BY <1>1, <1>8, <3>1 DEF PositionsOf
  <2> QED BY <1>3, <1>8, <2>2, <2>3, PanicStep DEF Panic
<1> QED BY <1>2, <1>5, <1>6, <1>7, <1>8 DEF insert

LEMMA DeleteStep ==
  ASSUME LeafInv, NEW k \in Keys, Delete(k)
  PROVE  /\ LeafInv'
         /\ \A x \in Keys : Less(x, k) => Found(leaf', x) = Found(leaf, x)
<1>1. /\ Stands(leaf, contents, cut) /\ Fits(leaf) /\ contents \in Map /\ cut \in BOOLEAN
      /\ leaf.keys \in Seq(Keys)
      /\ DOMAIN leaf.keys = 1 .. Len(leaf.keys)
      /\ Len(leaf.keys) \in Nat /\ Len(leaf.values) \in Nat
      /\ Len(leaf.values) <= Len(leaf.keys)
  BY StandsFacts DEF LeafInv
<1>2. /\ contents' \in Map /\ contents'[k] = None
      /\ \A x \in Keys : x # k => contents'[x] = contents[x]
  BY <1>1 DEF Delete, Map
<1>3. PICK i \in PositionsOf(leaf.keys, k) :
        IF HasValue(leaf, i) THEN write_node(WithoutEntry(leaf, i)) ELSE Panic
  BY DEF Delete, WithoutEntry
<1>4. i \in 1 .. Len(leaf.keys) /\ leaf.keys[i] = k
  BY <1>1 DEF PositionsOf
<1>5. \A j \in 1 .. Len(leaf.keys) : leaf.keys[j] = k => j = i
  BY <1>1, <1>4, SortedFacts DEF Stands
<1>6. CASE i <= Len(leaf.values)
  <2> DEFINE new == WithoutEntry(leaf, i)
  <2>1. i \in 1 .. Len(leaf.values)
    BY <1>1, <1>4, <1>6
  <2>2. write_node(new) /\ leaf' = deserialize(new)
    BY <1>3, <1>6 DEF HasValue, write_node
  <2>3. new = WithoutEntry(leaf, i)
    OBVIOUS
  <2> HIDE DEF new
  <2>4. /\ Stands(new, contents', cut)
        /\ Len(new.values) = Len(leaf.values) - 1
        /\ \A j \in 1 .. i - 1 : new.keys[j] = leaf.keys[j] /\ new.values[j] = leaf.values[j]
        /\ \A j \in i .. Len(new.keys) : Less(k, new.keys[j])
    <3>1. Stands(leaf, contents, cut) /\ contents \in Map /\ cut \in BOOLEAN
      BY <1>1
    <3>2. k = leaf.keys[i]
      BY <1>4
    <3>3. contents'[k] = None /\ \A x \in Keys : x # k => contents'[x] = contents[x]
      BY <1>2
    <3>4. Stands(new, contents', cut)
      BY <2>1, <2>3, <3>1, <3>2, <3>3, DeleteStands
    <3>5. /\ leaf.keys \in Seq(Keys) /\ leaf.values \in Seq(Value) /\ Sorted(leaf.keys)
          /\ Len(leaf.values) <= Len(leaf.keys)
      BY <3>1, StandsFacts DEF Stands
    <3>6. /\ RemovedAt(new.keys, leaf.keys, i) /\ RemovedAt(new.values, leaf.values, i)
          /\ \A j \in i .. Len(new.keys) : Less(k, new.keys[j])
      BY <2>1, <2>3, <3>2, <3>5, DeletePlaces
    <3>7. \A j \in 1 .. i - 1 : /\ j \in 1 .. Len(leaf.keys) - 1
                                /\ j \in 1 .. Len(leaf.values) - 1 /\ j < i
      BY <1>1, <2>1
    <3>8. \A j \in 1 .. i - 1 : new.keys[j] = leaf.keys[j] /\ new.values[j] = leaf.values[j]
      BY <3>6, <3>7 DEF RemovedAt
    <3>9. Len(new.values) = Len(leaf.values) - 1
      BY <3>6 DEF RemovedAt
    <3> QED BY <3>4, <3>6, <3>8, <3>9
  <2>5. LeafInv'
    BY <1>2, <2>2, <2>4, WriteStep
  <2>6. \A j \in i .. Len(leaf.keys) : ~Less(leaf.keys[j], k)
    <3>1. \A j \in i .. Len(leaf.keys) : j \in 1 .. Len(leaf.keys) /\ i <= j
      BY <1>1, <1>4
    <3>2. \A j \in 1 .. Len(leaf.keys) : i <= j <=> ~Less(leaf.keys[j], leaf.keys[i])
      BY <1>1, <1>4, SortedFacts DEF Stands
    <3> QED BY <1>4, <3>1, <3>2
  <2>7. \A j \in i .. Len(new.keys) : ~Less(new.keys[j], k)
    <3>1. \A j \in 1 .. Len(new.keys) : new.keys[j] \in ByteString /\ k \in ByteString
      BY <2>4, StandsFacts, KeyFacts
    <3>2. \A j \in i .. Len(new.keys) : j \in 1 .. Len(new.keys)
      <4>1. Len(new.keys) \in Nat
        BY <2>4, StandsFacts
      <4> QED BY <2>1, <4>1
    <3> QED BY <2>4, <3>1, <3>2, LessAsymmetric
  <2>8. i \in 1 .. Len(leaf.values) + 1 /\ i <= Len(new.values) + 1
    BY <1>1, <2>1, <2>4
  <2>9. \A x \in Keys : Less(x, k) => Found(deserialize(new), x) = Found(leaf, x)
    BY <1>1, <2>4, <2>6, <2>7, <2>8, FrontSafe
  <2> QED BY <2>2, <2>5, <2>9
<1>7. CASE ~ (i <= Len(leaf.values))
  <2>1. Panic
    BY <1>3, <1>7 DEF HasValue
  <2>2. cut
    BY <1>1, <1>4, <1>7 DEF Stands
  <2>3. \A j \in 1 .. Len(leaf.values) : leaf.keys[j] # k
    <3>1. \A j \in 1 .. Len(leaf.values) : j \in 1 .. Len(leaf.keys) /\ j # i
      BY <1>1, <1>7
    <3> QED BY <1>5, <3>1
  <2> QED BY <1>2, <2>1, <2>2, <2>3, PanicStep DEF Panic
<1> QED BY <1>6, <1>7

\* A scan meets a key without a value only in a leaf that was cut off.
LEMMA ScanStep ==
  ASSUME LeafInv, NEW start, NEW end, Scan(start, end)
  PROVE  LeafInv' /\ leaf' = leaf
<1>1. Stands(leaf, contents, cut) /\ DOMAIN leaf.keys = 1 .. Len(leaf.keys)
  BY StandsFacts DEF LeafInv
<1>2. cut
  <2>1. PICK i \in DOMAIN leaf.keys : ~ (i <= Len(leaf.values))
    BY DEF Scan, ScanPanics, InRange, HasValue
  <2>2. Len(leaf.keys) \in Nat
    BY <1>1, StandsFacts
  <2> QED BY <1>1, <2>1, <2>2 DEF Stands
<1>3. leaf' = leaf /\ cut' = cut /\ panicked' = TRUE /\ contents' = contents
  BY DEF Scan, Panic
<1> QED BY <1>2, <1>3 DEF LeafInv

LEMMA LeafInvInit == Init => LeafInv
<1> SUFFICES ASSUME Init PROVE LeafInv
  OBVIOUS
<1>1. leaf = [keys |-> <<>>, values |-> <<>>] /\ leaf \in Node
  BY DEF Init, Node
<1>2. /\ leaf.keys = <<>> /\ Len(leaf.keys) = 0
      /\ leaf.values = <<>> /\ Len(leaf.values) = 0
  BY <1>1
<1>3. contents \in Map /\ cut = FALSE /\ panicked = FALSE /\ \A k \in Keys : contents[k] = None
  BY DEF Init, Map
<1>4. Stands(leaf, contents, cut)
  BY <1>1, <1>2, <1>3 DEF Stands, Paired, Sorted
<1>5. Fits(leaf)
  BY <1>1, <1>2 DEF Fits
<1> QED BY <1>3, <1>4, <1>5 DEF LeafInv

LEMMA LeafInvNext == LeafInv /\ [Next]_vars => LeafInv'
<1> SUFFICES ASSUME LeafInv, [Next]_vars PROVE LeafInv'
  OBVIOUS
<1>1. ASSUME NEW k \in Keys, NEW size \in ValueSizes, Put(k, size) PROVE LeafInv'
  BY <1>1, PutStep
<1>2. ASSUME NEW k \in Keys, Delete(k) PROVE LeafInv'
  BY <1>2, DeleteStep
<1>3. ASSUME NEW start, NEW end, Scan(start, end) PROVE LeafInv'
  BY <1>3, ScanStep
<1>4. CASE UNCHANGED vars
  BY <1>4 DEF vars, LeafInv
<1> QED BY <1>1, <1>2, <1>3, <1>4 DEF Next, PrefixScan

(* The invariant of the leaf.                                              *)
THEOREM LeafStands == Spec => []LeafInv
BY LeafInvInit, LeafInvNext, PTL DEF Spec
---------------------------------------------------------------------------
(* Behind a leaf that was cut off entries are gone and no other value is   *)
(* there, however often and whatever the callers put and delete            *)
(* (btree.rs:64-179).                                                      *)
THEOREM CutLosesValuesOnly == Spec => []CutLosesOnly
<1>1. LeafInv => CutLosesOnly
  <2> SUFFICES ASSUME LeafInv PROVE CutLosesOnly
    OBVIOUS
  <2>1. /\ Stands(leaf, contents, cut)
        /\ Len(leaf.keys) \in Nat /\ Len(leaf.values) \in Nat
        /\ Len(leaf.values) <= Len(leaf.keys) /\ Len(leaf.keys) <= Len(leaf.values) + 1
    BY StandsFacts DEF LeafInv
  <2>2. ASSUME NEW k \in Keys
        PROVE  get(k) \in {None, contents[k]} \cup IF cut THEN {Empty} ELSE {}
    <3>1. get(k) = Found(leaf, k)
      BY DEF get, Found
    <3>2. CASE \A i \in 1 .. Len(leaf.keys) : leaf.keys[i] # k
      BY <2>1, <3>1, <3>2, FoundNowhere
    <3>3. CASE \E i \in 1 .. Len(leaf.keys) : leaf.keys[i] = k
      <4>1. PICK i \in 1 .. Len(leaf.keys) : leaf.keys[i] = k
        BY <3>3
      <4>2. Found(leaf, k) = IF i <= Len(leaf.values) THEN leaf.values[i] ELSE None
        BY <2>1, <4>1, FoundAt
      <4>3. i <= Len(leaf.values) =>
              leaf.values[i] = contents[k] \/ (cut /\ leaf.values[i] = Empty)
        <5>1. i <= Len(leaf.values) => i \in 1 .. Len(leaf.values)
          BY <2>1
        <5> QED BY <2>1, <4>1, <5>1 DEF Stands
      <4> QED BY <3>1, <4>2, <4>3
    <3> QED BY <3>2, <3>3
  <2>3. Len(leaf.keys) - Len(leaf.values) \in {0, 1}
    BY <2>1
  <2> QED BY <2>2, <2>3 DEF CutLosesOnly
<1> QED BY <1>1, LeafStands, PTL

(* A put that cuts the leaf off, a put that does not and a delete leave    *)
(* alone the values of the keys in front of their own (btree.rs:285-287,   *)
(* 391-392).                                                               *)
THEOREM FrontKeepsValues == Spec => KeysInFrontSafe
<1> DEFINE Safe == \A k \in Keys : contents'[k] # contents[k] =>
                     \A j \in Keys : Less(j, k) => get(j)' = get(j)
<1>1. LeafInv /\ [Next]_vars => [Safe]_vars
  <2> SUFFICES ASSUME LeafInv, Next,
                      NEW k \in Keys, contents'[k] # contents[k],
                      NEW j \in Keys, Less(j, k)
               PROVE  get(j)' = get(j)
    BY DEF vars
  <2>1. get(j) = Found(leaf, j) /\ get(j)' = Found(leaf', j)
    BY DEF get, Found
  <2>2. contents \in Map
    BY DEF LeafInv
  <2>3. ASSUME NEW x \in Keys, NEW size \in ValueSizes, Put(x, size) PROVE get(j)' = get(j)
    <3>1. x = k
      BY <2>2, <2>3 DEF Put, Map
    <3> QED BY <2>1, <2>3, <3>1, PutStep
  <2>4. ASSUME NEW x \in Keys, Delete(x) PROVE get(j)' = get(j)
    <3>1. x = k
      BY <2>2, <2>4 DEF Delete, Map
    <3> QED BY <2>1, <2>4, <3>1, DeleteStep
  <2>5. ASSUME NEW start, NEW end, Scan(start, end) PROVE FALSE
    BY <2>5 DEF Scan
  <2> QED BY <2>3, <2>4, <2>5 DEF Next, PrefixScan
<1> QED BY <1>1, LeafStands, PTL DEF Spec, KeysInFrontSafe
---------------------------------------------------------------------------
(* A scan lists its places in their order, the callers expect the keys in  *)
(* theirs: of a sorted leaf these are the same lists.                      *)
Rank(S, j) == Cardinality({x \in S : x <= j})

LEMMA RankFacts ==
  ASSUME NEW n \in Nat, NEW S \in SUBSET (1 .. n)
  PROVE  /\ IsFiniteSet(S) /\ Cardinality(S) \in Nat
         /\ \A i, j \in S : Rank(S, i) = Rank(S, j) => i = j
         /\ \A r \in 1 .. Cardinality(S) : \E j \in S : Rank(S, j) = r
<1> DEFINE UpToPlace(j) == {x \in S : x <= j}
           rank == [j \in S |-> Rank(S, j)]
<1>1. IsFiniteSet(S) /\ Cardinality(S) \in Nat
  <2>1. IsFiniteSet(1 .. n)
    BY FS_Interval
  <2> QED BY <2>1, FS_Subset, FS_CardinalityType
<1>2. \A j \in S : IsFiniteSet(UpToPlace(j)) /\ Rank(S, j) = Cardinality(UpToPlace(j))
  <2>1. \A j \in S : UpToPlace(j) \in SUBSET S
    OBVIOUS
  <2> QED BY <1>1, <2>1, FS_Subset DEF Rank
<1>3. ASSUME NEW i \in S, NEW j \in S, Rank(S, i) = Rank(S, j), i < j
      PROVE  FALSE
  <2>1. UpToPlace(i) \in SUBSET UpToPlace(j)
    <3>1. \A x \in S : x <= i => x <= j
      BY <1>3
    <3> QED BY <3>1
  <2>2. j \in UpToPlace(j) /\ j \notin UpToPlace(i)
    BY <1>3
  <2> HIDE DEF UpToPlace
  <2>3. UpToPlace(i) = UpToPlace(j)
    BY <1>2, <1>3, <2>1, FS_Subset
  <2> QED BY <2>2, <2>3
<1>4. \A i, j \in S : Rank(S, i) = Rank(S, j) => i = j
  <2>1. \A i, j \in S : i < j \/ i = j \/ j < i
    OBVIOUS
  <2> QED BY <1>3, <2>1
<1>5. \A j \in S : Rank(S, j) \in 1 .. Cardinality(S)
  <2> SUFFICES ASSUME NEW j \in S PROVE Rank(S, j) \in 1 .. Cardinality(S)
    OBVIOUS
  <2>1. UpToPlace(j) \in SUBSET S /\ j \in UpToPlace(j)
    OBVIOUS
  <2> HIDE DEF UpToPlace
  <2>2. Rank(S, j) \in Nat /\ Rank(S, j) <= Cardinality(S) /\ Rank(S, j) # 0
    BY <1>1, <1>2, <2>1, FS_Subset, FS_CardinalityType, FS_EmptySet
  <2> QED BY <1>1, <2>2
<1>6. rank \in Injection(S, 1 .. Cardinality(S))
  BY <1>4, <1>5 DEF Injection, IsInjective
<1>7. rank \in Surjection(S, 1 .. Cardinality(S))
  <2>1. IsFiniteSet(1 .. Cardinality(S)) /\ Cardinality(1 .. Cardinality(S)) = Cardinality(S)
    BY <1>1, FS_Interval
  <2> HIDE DEF rank
  <2> QED BY <1>6, <2>1, FS_Injection
<1>8. \A r \in 1 .. Cardinality(S) : \E j \in S : Rank(S, j) = r
  BY <1>7 DEF Surjection
<1> QED BY <1>1, <1>4, <1>8

LEMMA PresentRank ==
  ASSUME NEW keys \in Seq(Keys), Sorted(keys), NEW S \in SUBSET (1 .. Len(keys)),
         NEW present, present = {keys[i] : i \in S}
  PROVE  /\ Cardinality(present) = Cardinality(S)
         /\ \A j \in S : Cardinality({y \in present : ~Less(keys[j], y)}) = Rank(S, j)
<1> DEFINE At(T) == {keys[i] : i \in T}
<1>1. Len(keys) \in Nat /\ DOMAIN keys = 1 .. Len(keys)
  BY LenProperties
<1>2. ASSUME NEW T \in SUBSET S PROVE Cardinality(At(T)) = Cardinality(T)
  <2> DEFINE f == [i \in T |-> keys[i]]
  <2>1. IsFiniteSet(T)
    <3>1. IsFiniteSet(S)
      BY <1>1, RankFacts
    <3> QED BY <3>1, FS_Subset
  <2>2. \A i, j \in T : keys[i] = keys[j] => i = j
    <3>1. \A i \in T : i \in 1 .. Len(keys)
      OBVIOUS
    <3> QED BY <3>1, SortedFacts
  <2>3. f \in Bijection(T, At(T))
    <3>1. f \in [T -> At(T)]
      OBVIOUS
    <3>2. f \in Injection(T, At(T))
      BY <2>2, <3>1 DEF Injection, IsInjective
    <3>3. f \in Surjection(T, At(T))
      BY <3>1 DEF Surjection
    <3> QED BY <3>2, <3>3 DEF Bijection
  <2>4. ExistsBijection(T, At(T))
    BY <2>3 DEF ExistsBijection
  <2> HIDE DEF At
  <2> QED BY <2>1, <2>4, FS_Bijection
<1>3. ASSUME NEW j \in S
      PROVE  {y \in At(S) : ~Less(keys[j], y)} = At({x \in S : x <= j})
  <2>1. \A x \in S : x <= j <=> ~Less(keys[j], keys[x])
    BY SortedFacts
  <2> QED BY <2>1
<1>4. ASSUME NEW j \in S
      PROVE  Cardinality({y \in At(S) : ~Less(keys[j], y)}) = Rank(S, j)
  <2>1. {x \in S : x <= j} \in SUBSET S
    OBVIOUS
  <2> QED BY <1>2, <1>3, <2>1 DEF Rank
<1>5. Cardinality(At(S)) = Cardinality(S)
  BY <1>2
<1> QED BY <1>4, <1>5

\* The places of a whole leaf and the keys they are of.
LEMMA SameLists ==
  ASSUME LeafInv, ~cut, NEW S \in SUBSET (1 .. Len(leaf.keys)), NEW ks,
         {k \in ks : contents[k] # None} = {leaf.keys[i] : i \in S}
  PROVE  EntriesAt(S) = EntriesOf(ks)
<1> DEFINE present == {leaf.keys[i] : i \in S}
           AtRank(r) == CHOOSE j \in S : Rank(S, j) = r
           KeyAtRank(r) == CHOOSE x \in present : Cardinality({y \in present : ~Less(x, y)}) = r
<1>1. /\ Stands(leaf, contents, cut)
      /\ leaf.keys \in Seq(Keys) /\ Sorted(leaf.keys) /\ Len(leaf.keys) \in Nat
      /\ Len(leaf.values) = Len(leaf.keys)
  <2>1. Stands(leaf, contents, cut)
    BY DEF LeafInv
  <2>2. Sorted(leaf.keys) /\ Len(leaf.values) = Len(leaf.keys)
    BY <2>1 DEF Stands
  <2> QED BY <2>1, <2>2, StandsFacts
<1>2. \A i \in S : leaf.values[i] = contents[leaf.keys[i]]
  BY <1>1 DEF Stands
<1>3. /\ Cardinality(present) = Cardinality(S)
      /\ \A j \in S : Cardinality({y \in present : ~Less(leaf.keys[j], y)}) = Rank(S, j)
  <2> DEFINE keys == leaf.keys
  <2>1. keys \in Seq(Keys) /\ Sorted(keys) /\ S \in SUBSET (1 .. Len(keys))
    BY <1>1
  <2>2. present = {keys[i] : i \in S}
    OBVIOUS
  <2> HIDE DEF present, keys
  <2>3. /\ Cardinality(present) = Cardinality(S)
        /\ \A j \in S : Cardinality({y \in present : ~Less(keys[j], y)}) = Rank(S, j)
    BY <2>1, <2>2, PresentRank
  <2> QED BY <2>3 DEF keys
<1>4. /\ \A i, j \in S : Rank(S, i) = Rank(S, j) => i = j
      /\ \A r \in 1 .. Cardinality(S) : \E j \in S : Rank(S, j) = r
  <2> DEFINE n == Len(leaf.keys)
  <2>1. n \in Nat /\ S \in SUBSET (1 .. n)
    BY <1>1
  <2> HIDE DEF n, present
  <2> QED BY <2>1, RankFacts
<1>5. ASSUME NEW r \in 1 .. Cardinality(S)
      PROVE  AtRank(r) \in S /\ KeyAtRank(r) = leaf.keys[AtRank(r)]
  <2>1. PICK j \in S : Rank(S, j) = r
    BY <1>4
  <2>2. \A i \in S : Rank(S, i) = r => i = j
    BY <1>4, <2>1
  <2>3. AtRank(r) = j
    BY <2>1, <2>2
  <2>4. \A x \in present : Cardinality({y \in present : ~Less(x, y)}) = r <=> x = leaf.keys[j]
    <3> SUFFICES ASSUME NEW x \in present
                 PROVE  Cardinality({y \in present : ~Less(x, y)}) = r <=> x = leaf.keys[j]
      OBVIOUS
    <3>1. PICK i \in S : x = leaf.keys[i]
      OBVIOUS
    <3>2. leaf.keys[i] = leaf.keys[j] => i = j
      BY <1>1, SortedFacts
    <3> HIDE DEF present
    <3> QED BY <1>3, <2>1, <2>2, <3>1, <3>2
  <2>5. leaf.keys[j] \in present
    OBVIOUS
  <2> HIDE DEF present
  <2>6. KeyAtRank(r) = leaf.keys[j]
    BY <2>4, <2>5
  <2> QED BY <2>3, <2>6
<1> HIDE DEF present
<1>6. EntriesAt(S) =
        [r \in 1 .. Cardinality(S) |-> <<leaf.keys[AtRank(r)], leaf.values[AtRank(r)]>>]
  BY DEF EntriesAt, Rank
<1>7. EntriesOf(ks) =
        [r \in 1 .. Cardinality(present) |-> <<KeyAtRank(r), contents[KeyAtRank(r)]>>]
  <2> DEFINE Listed(p) ==
        [i \in 1 .. Cardinality(p) |->
           LET k == CHOOSE x \in p : Cardinality({y \in p : ~Less(x, y)}) = i
           IN  <<k, contents[k]>>]
  <2>1. EntriesOf(ks) = Listed({k \in ks : contents[k] # None})
    BY DEF EntriesOf
  <2>2. Listed(present) =
          [r \in 1 .. Cardinality(present) |-> <<KeyAtRank(r), contents[KeyAtRank(r)]>>]
    OBVIOUS
  <2>3. {k \in ks : contents[k] # None} = present
    BY DEF present
  <2> HIDE DEF Listed
  <2> QED BY <2>1, <2>2, <2>3
<1> HIDE DEF AtRank, KeyAtRank
<1>8. \A r \in 1 .. Cardinality(S) :
        <<leaf.keys[AtRank(r)], leaf.values[AtRank(r)]>> = <<KeyAtRank(r), contents[KeyAtRank(r)]>>
  BY <1>2, <1>5
<1> DEFINE f == [r \in 1 .. Cardinality(S) |-> <<leaf.keys[AtRank(r)], leaf.values[AtRank(r)]>>]
           g == [r \in 1 .. Cardinality(S) |-> <<KeyAtRank(r), contents[KeyAtRank(r)]>>]
<1>9. f = g
  BY <1>8, Zenon
<1>10. EntriesOf(ks) = g
  BY <1>3, <1>7
<1>11. EntriesAt(S) = f
  BY <1>6
<1> QED BY <1>9, <1>10, <1>11

\* The keys of a leaf are in order, so a scan stops behind the last in range.
LEMMA RangeOfScan ==
  ASSUME LeafInv, NEW start, NEW end \in ByteString
  PROVE  InRange(start, end) = {i \in 1 .. Len(leaf.keys) : /\ ~Less(leaf.keys[i], start)
                                                           /\ ~Less(end, leaf.keys[i])}
<1>1. /\ DOMAIN leaf.keys = 1 .. Len(leaf.keys) /\ Len(leaf.keys) \in Nat
      /\ Sorted(leaf.keys)
      /\ \A i \in 1 .. Len(leaf.keys) : leaf.keys[i] \in ByteString
  BY StandsFacts, KeyFacts DEF LeafInv, Stands
<1>2. ASSUME NEW i \in 1 .. Len(leaf.keys), ~Less(end, leaf.keys[i]), NEW j \in 1 .. i
      PROVE  ~Less(end, leaf.keys[j])
  <2>1. j \in 1 .. Len(leaf.keys) /\ (j = i \/ j < i)
    BY <1>1
  <2>2. j < i => Less(leaf.keys[j], leaf.keys[i])
    BY <1>1, <2>1 DEF Sorted
  <2> QED BY <1>1, <1>2, <2>1, <2>2, LessTransitive
<1>3. \A i \in 1 .. Len(leaf.keys) : i \in 1 .. i
  BY <1>1
<1> QED BY <1>1, <1>2, <1>3 DEF InRange

\* A whole leaf has the keys the callers expect, and their values.
LEMMA WholeLeaf ==
  ASSUME LeafInv, ~cut
  PROVE  /\ \A i \in 1 .. Len(leaf.keys) : leaf.keys[i] \in Keys /\ contents[leaf.keys[i]] # None
         /\ \A k \in Keys : contents[k] # None => \E i \in 1 .. Len(leaf.keys) : leaf.keys[i] = k
         /\ \A k \in Keys : get(k) = contents[k]
<1>1. Stands(leaf, contents, cut)
  BY DEF LeafInv
<1>2. /\ Len(leaf.values) = Len(leaf.keys) /\ Len(leaf.keys) \in Nat
      /\ \A i \in 1 .. Len(leaf.keys) : leaf.keys[i] \in Keys
      /\ \A k \in Keys : contents[k] # None <=> \E i \in 1 .. Len(leaf.keys) : leaf.keys[i] = k
      /\ \A i \in 1 .. Len(leaf.keys) : leaf.values[i] = contents[leaf.keys[i]]
  BY <1>1, StandsFacts DEF Stands
<1>3. ASSUME NEW k \in Keys PROVE get(k) = contents[k]
  <2>1. get(k) = Found(leaf, k)
    BY DEF get, Found
  <2>2. CASE \E i \in 1 .. Len(leaf.keys) : leaf.keys[i] = k
    <3>1. PICK i \in 1 .. Len(leaf.keys) : leaf.keys[i] = k
      BY <2>2
    <3>2. i <= Len(leaf.values)
      BY <1>2
    <3> QED BY <1>1, <1>2, <2>1, <3>1, <3>2, FoundAt
  <2>3. CASE \A i \in 1 .. Len(leaf.keys) : leaf.keys[i] # k
    BY <1>1, <1>2, <2>1, <2>3, FoundNowhere
  <2> QED BY <2>2, <2>3
<1> QED BY <1>2, <1>3

(* As long as no leaf was longer than its page, whatever the lengths of    *)
(* the keys and the values, each key has the value of its last put, a scan *)
(* lists what the callers expect in order, and no call panics              *)
(* (btree.rs:64-196, 272-298).                                             *)
THEOREM WholeLeafReadsBack == Spec => []ReadsBack
<1>1. LeafInv => ReadsBack
  <2> SUFFICES ASSUME LeafInv, ~cut
               PROVE  /\ ~panicked
                      /\ \A k \in Keys : get(k) = contents[k]
                      /\ \A start, end \in Keys :
                           range_scan(start, end) =
                             EntriesOf({k \in Keys : ~Less(k, start) /\ ~Less(end, k)})
    BY DEF ReadsBack
  <2>1. ~panicked
    BY DEF LeafInv
  <2>2. ASSUME NEW start \in Keys, NEW end \in Keys
        PROVE  range_scan(start, end) =
                 EntriesOf({k \in Keys : ~Less(k, start) /\ ~Less(end, k)})
    <3> DEFINE S == InRange(start, end)
               ks == {k \in Keys : ~Less(k, start) /\ ~Less(end, k)}
    <3>1. S = {i \in 1 .. Len(leaf.keys) : ~Less(leaf.keys[i], start) /\ ~Less(end, leaf.keys[i])}
      BY RangeOfScan, KeyFacts
    <3> HIDE DEF S
    <3>2. {k \in ks : contents[k] # None} = {leaf.keys[i] : i \in S}
      BY <3>1, WholeLeaf
    <3>3. S \in SUBSET (1 .. Len(leaf.keys))
      BY <3>1
    <3> HIDE DEF ks
    <3>4. EntriesAt(S) = EntriesOf(ks)
      BY <3>2, <3>3, SameLists
    <3> QED BY <3>4 DEF range_scan, S, ks
  <2> QED BY <2>1, <2>2, WholeLeaf
<1> QED BY <1>1, LeafStands, PTL

(* And prefix_scan lists just the keys that begin with a prefix that ends  *)
(* in another byte than 0xFF, of any length (kv_engine.rs:209-239).        *)
THEOREM PrefixScanExact == Spec => []PrefixExact
<1>1. LeafInv => PrefixExact
  <2> SUFFICES ASSUME LeafInv, ~cut, NEW p \in ScanPrefixes, p # <<>>, Last(p) < 255
               PROVE  prefix_scan(p) = EntriesOf({k \in Keys : BeginsWith(p, k)})
    BY DEF PrefixExact
  <2> DEFINE n == Len(p)
             end == compute_prefix_end(p)
             S == {i \in InRange(p, end) : BeginsWith(p, leaf.keys[i])}
             ks == {k \in Keys : BeginsWith(p, k)}
  <2>1. p \in ByteString /\ p[n] < 255
    BY LeafAssumption DEF ByteString, Last
  <2>2. end \in ByteString
    <3>1. n \in Nat /\ n >= 1 /\ p \in [1 .. n -> Byte]
      BY <2>1, PrefixEndFacts, ByteStringFacts
    <3>2. n \in 1 .. n /\ p[n] + 1 \in Byte
      <4>1. n \in 1 .. n
        BY <3>1
      <4>2. p[n] \in Byte
        BY <3>1, <4>1
      <4>3. \A b \in Byte : b < 255 => b + 1 \in Byte
        BY DEF Byte
      <4> QED BY <2>1, <4>1, <4>2, <4>3
    <3>3. end = [p EXCEPT ![n] = p[n] + 1]
      BY <2>1 DEF compute_prefix_end
    <3> QED BY <2>1, <3>2, <3>3, ExceptSeq DEF ByteString
  <2> HIDE DEF end, n
  <2>3. InRange(p, end) = {i \in 1 .. Len(leaf.keys) : /\ ~Less(leaf.keys[i], p)
                                                      /\ ~Less(end, leaf.keys[i])}
    BY <2>2, RangeOfScan
  <2>4. ASSUME NEW k \in Keys, BeginsWith(p, k) PROVE ~Less(k, p) /\ ~Less(end, k)
    <3>1. k \in ByteString
      BY KeyFacts
    <3>2. ~Less(k, p) /\ Less(k, end)
      BY <2>1, <2>4, <3>1, PrefixRangeComplete DEF end, n
    <3> QED BY <2>2, <3>1, <3>2, LessAsymmetric
  <2>5. {k \in ks : contents[k] # None} = {leaf.keys[i] : i \in S}
    <3>1. \A i \in S : i \in 1 .. Len(leaf.keys) /\ BeginsWith(p, leaf.keys[i])
      BY <2>3
    <3>2. \A i \in 1 .. Len(leaf.keys) : BeginsWith(p, leaf.keys[i]) => i \in S
      BY <2>3, <2>4, WholeLeaf
    <3> HIDE DEF S
    <3> QED BY <3>1, <3>2, WholeLeaf
  <2>6. S \in SUBSET (1 .. Len(leaf.keys))
    BY <2>3
  <2> HIDE DEF S, ks
  <2>7. EntriesAt(S) = EntriesOf(ks)
    BY <2>5, <2>6, SameLists
  <2> QED BY <2>7 DEF prefix_scan, S, ks, end
<1> QED BY <1>1, LeafStands, PTL
===========================================================================
