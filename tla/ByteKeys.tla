------------------------------ MODULE ByteKeys ----------------------------
(***************************************************************************)
(* Byte strings as keys: compare_keys of src/btree.rs, and the end of the  *)
(* range prefix_scan asks for (src/kv_engine.rs).                          *)
(***************************************************************************)
EXTENDS Naturals, Sequences

Byte == 0 .. 255

\* compare_keys is Less: at the first byte where they differ, or a is a
\* proper prefix of b.
Less(a, b) ==
  \E i \in DOMAIN b :
     /\ \A j \in 1 .. i - 1 : j \in DOMAIN a /\ a[j] = b[j]
     /\ i \in DOMAIN a => a[i] < b[i]

BeginsWith(p, k) == \A i \in DOMAIN p : i \in DOMAIN k /\ k[i] = p[i]

\* Variant: the smallest longer string.
prefix_end_longer(p) == Append(p, 0)

compute_prefix_end(p) ==
  IF p = <<>> THEN <<255>>
  ELSE IF p[Len(p)] < 255 THEN [p EXCEPT ![Len(p)] = @ + 1]
  ELSE Append(p, 0)
===========================================================================
