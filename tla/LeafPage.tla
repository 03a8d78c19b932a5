------------------------------ MODULE LeafPage ----------------------------
(***************************************************************************)
(* The engine over a tree of one leaf, with the sizes of keys and values:  *)
(* write_node cuts a leaf that is longer than its page off (src/btree.rs), *)
(* put limits a key and a value but not the two together, and prefix_scan  *)
(* computes the end of its range from bytes (src/kv_engine.rs).            *)
(*                                                                         *)
(* Keys are byte strings.  A value is <<key, size>>, so that one that is   *)
(* read back next to another key shows; what its bytes are is left out.    *)
(* leaf is what deserialize makes of the page.  Orders are large: no leaf  *)
(* is split for its number of keys.                                        *)
(***************************************************************************)
EXTENDS ByteKeys, Integers, FiniteSets, SequencesExt

CONSTANTS Keys,        \* the keys callers use: byte strings
          ValueSizes,  \* the sizes of the values they put
          ScanPrefixes, \* what they look for with prefix_scan
          None         \* no value

ASSUME LeafAssumption == /\ Keys \cup ScanPrefixes \subseteq Seq(Byte)
                         /\ ValueSizes \subseteq Nat
                         /\ None \notin Keys \X ValueSizes

MAX_KEY_SIZE == 4060
MAX_VALUE_SIZE == 4060

NodeBytes == 4096 - 8    \* what a page has for its node
HeaderBytes == 11        \* type, parent, number of keys, next_leaf

VARIABLES leaf,      \* the keys and values as the page has them
          panicked,  \* an index was out of range: the process is gone
          contents,  \* the map the callers expect (history)
          cut        \* a leaf was written that was longer than its page (history)

vars == <<leaf, panicked, contents, cut>>

Empty == <<>>
Size(value) == IF value = Empty THEN 0 ELSE value[2]
---------------------------------------------------------------------------
(* A leaf and its bytes.  Only its last key can be without a value.        *)

HasValue(node, i) == i <= Len(node.values)

EntryBytes(node, i) ==
  4 + Len(node.keys[i]) + IF HasValue(node, i) THEN 4 + Size(node.values[i]) ELSE 0

\* The offsets where entry i and key i end.
EntryEnds(node) ==
  LET end[i \in 0 .. Len(node.keys)] ==
        IF i = 0 THEN HeaderBytes ELSE end[i - 1] + EntryBytes(node, i)
  IN  end
EntryEnd(node, i) == EntryEnds(node)[i]
KeyEnd(node, i) == EntryEnd(node, i - 1) + 4 + Len(node.keys[i])

TooLong(node) == EntryEnd(node, Len(node.keys)) > NodeBytes

\* Variant: the last byte of the page is not looked at.
deserialize_short(node) ==
  LET n == Cardinality({i \in DOMAIN node.keys : EntryEnd(node, i) < NodeBytes})
  IN  [keys |-> SubSeq(node.keys, 1, n), values |-> SubSeq(node.values, 1, n)]

\* Up to the first key or value that is not whole.  A last key without a
\* value finds the zeros behind it, if any, and takes them for an empty one.
deserialize(node) ==
  LET n == Cardinality({i \in DOMAIN node.keys : KeyEnd(node, i) <= NodeBytes})
      m == Cardinality({i \in DOMAIN node.values : EntryEnd(node, i) <= NodeBytes})
      zeros == n > Len(node.values) /\ KeyEnd(node, n) + 4 <= NodeBytes
  IN  [keys   |-> SubSeq(node.keys, 1, n),
       values |-> SubSeq(node.values, 1, m) \o IF zeros THEN <<Empty>> ELSE <<>>]

write_node(node) == /\ leaf' = deserialize(node)
                    /\ cut' = (cut \/ TooLong(node))
                    /\ UNCHANGED panicked

Panic == panicked' = TRUE /\ UNCHANGED <<leaf, cut>>

\* Variant: a new key goes to the front.
find_position_front(keys, k) == 1

find_position(keys, k) == 1 + Cardinality({i \in DOMAIN keys : ~Less(k, keys[i])})

PositionsOf(keys, k) == {i \in DOMAIN keys : keys[i] = k}
---------------------------------------------------------------------------
(* The calls.                                                              *)

\* Variant: the value goes to the end.
InsertedLast(i, k, v) ==
  write_node([keys |-> InsertAt(leaf.keys, i, k), values |-> Append(leaf.values, v)])

Inserted(i, k, v) ==
  write_node([keys |-> InsertAt(leaf.keys, i, k), values |-> InsertAt(leaf.values, i, v)])

insert(k, v) ==
  \/ \E i \in PositionsOf(leaf.keys, k) :
        IF HasValue(leaf, i) THEN write_node([leaf EXCEPT !.values[i] = v]) ELSE Panic
  \/ /\ PositionsOf(leaf.keys, k) = {}
     /\ LET i == find_position(leaf.keys, k)
        IN  IF i <= Len(leaf.values) + 1 THEN Inserted(i, k, v) ELSE Panic

\* The sizes are looked at one by one.
Put(k, size) == /\ ~panicked
                /\ Len(k) <= MAX_KEY_SIZE /\ size <= MAX_VALUE_SIZE
                /\ insert(k, <<k, size>>)
                /\ contents' = [contents EXCEPT ![k] = <<k, size>>]

Delete(k) == /\ ~panicked
             /\ \E i \in PositionsOf(leaf.keys, k) :
                  IF HasValue(leaf, i)
                    THEN write_node([keys |-> RemoveAt(leaf.keys, i),
                                     values |-> RemoveAt(leaf.values, i)])
                    ELSE Panic
             /\ contents' = [contents EXCEPT ![k] = None]

get(k) == IF \E i \in PositionsOf(leaf.keys, k) : HasValue(leaf, i)
            THEN leaf.values[CHOOSE i \in PositionsOf(leaf.keys, k) : TRUE]
            ELSE None

\* The places a scan collects: those from start up to the first key beyond end.
InRange(start, end) ==
  {i \in DOMAIN leaf.keys : /\ ~Less(leaf.keys[i], start)
                            /\ \A j \in 1 .. i : ~Less(end, leaf.keys[j])}

ScanPanics(start, end) == \E i \in InRange(start, end) : ~HasValue(leaf, i)

\* The entries at a set of places, in their order.
EntriesAt(places) ==
  [i \in 1 .. Cardinality(places) |->
     LET at == CHOOSE j \in places : Cardinality({x \in places : x <= j}) = i
     IN  <<leaf.keys[at], leaf.values[at]>>]

range_scan(start, end) == EntriesAt(InRange(start, end))

\* A scan changes nothing but that it may be the last call.
Scan(start, end) == ~panicked /\ ScanPanics(start, end) /\ Panic /\ UNCHANGED contents

\* The filter of prefix_scan leaves out the places of other keys.
prefix_scan(p) ==
  EntriesAt({i \in InRange(p, compute_prefix_end(p)) : BeginsWith(p, leaf.keys[i])})
PrefixScan(p) == Scan(p, compute_prefix_end(p))

Init == /\ leaf = [keys |-> <<>>, values |-> <<>>]
        /\ panicked = FALSE
        /\ contents = [k \in Keys |-> None]
        /\ cut = FALSE

Next == \/ \E k \in Keys : \/ \E size \in ValueSizes : Put(k, size)
                           \/ Delete(k)
                           \/ \E end \in Keys : Scan(k, end)
        \/ \E p \in ScanPrefixes : PrefixScan(p)

Spec == Init /\ [][Next]_vars
---------------------------------------------------------------------------
(* The entries the callers expect of a set of keys, in key order.          *)
EntriesOf(ks) ==
  LET present == {k \in ks : contents[k] # None}
  IN  [i \in 1 .. Cardinality(present) |->
         LET k == CHOOSE x \in present : Cardinality({y \in present : ~Less(x, y)}) = i
         IN  <<k, contents[k]>>]

(* While no leaf was longer than its page, to the last byte, each key has  *)
(* the value of its last put, a scan lists them in order and no call       *)
(* panics (btree.rs:64-196, 272-298).                                      *)
ReadsBack ==
  ~cut => /\ ~panicked
          /\ \A k \in Keys : get(k) = contents[k]
          /\ \A start, end \in Keys :
               range_scan(start, end) =
                 EntriesOf({k \in Keys : ~Less(k, start) /\ ~Less(end, k)})

(* Behind a leaf that was cut off entries may be gone, and a key that lost *)
(* its value may show up with an empty one when the leaf gets shorter; but *)
(* no key ever has a value of an earlier put or of another key, and the    *)
(* last key alone can be without one (btree.rs:101-109, 160-179).          *)
CutLosesOnly ==
  /\ \A k \in Keys : get(k) \in {None, contents[k]} \cup IF cut THEN {Empty} ELSE {}
  /\ Len(leaf.keys) - Len(leaf.values) \in {0, 1}

(* What a put, cut off or not, or a delete does to other keys, it does to  *)
(* those behind its own: keys in front of it keep what they had            *)
(* (btree.rs:285-287, 391-392).                                            *)
KeysInFrontSafe ==
  [][\A k \in Keys : contents'[k] # contents[k] =>
        \A j \in Keys : Less(j, k) => get(j)' = get(j)]_vars

(* prefix_scan of a prefix that ends in another byte than 0xFF lists just  *)
(* the keys that begin with it, those of which the prefix is the smallest  *)
(* and the largest included (kv_engine.rs:209-239).                        *)
PrefixExact ==
  ~cut => \A p \in ScanPrefixes :
            p # <<>> /\ Last(p) < 255 =>
              prefix_scan(p) = EntriesOf({k \in Keys : BeginsWith(p, k)})
===========================================================================
