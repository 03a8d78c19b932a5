-------------------------- MODULE WALManagerLemmas ------------------------
(***************************************************************************)
(* Facts about reading and extending the log, for every log.  The proofs   *)
(* about WALManagerSpec and about KVEngine rest on them.                   *)
(***************************************************************************)
EXTENDS WALManager, SequenceTheorems, NaturalOrder

Chunk == WALRecord \cup {Torn}

(* The readable length exists and is what WALManager::recover stops at:    *)
(* everything before it deserializes and the chunk behind it, if there is  *)
(* one, does not.                                                          *)
LEMMA ReadableLenSpec ==
  ASSUME NEW file \in Seq(Chunk)
  PROVE  /\ ReadableLen(file) \in 0 .. Len(file)
         /\ \A i \in 1 .. ReadableLen(file) : file[i] # Torn
         /\ ReadableLen(file) < Len(file) => file[ReadableLen(file) + 1] = Torn
<1> DEFINE P(n) == /\ \A i \in 1 .. n : file[i] # Torn
                   /\ n < Len(file) => file[n + 1] = Torn
           tears == {i \in 1 .. Len(file) : file[i] = Torn}
<1>1. Len(file) \in Nat
  BY LenProperties
<1>2. \E n \in 0 .. Len(file) : P(n)
  <2>1. CASE tears = {}
    BY <2>1, <1>1
  <2>2. CASE tears # {}
    <3> tears \in SUBSET Nat
      BY <1>1
    <3>1. PICK t \in tears : \A u \in tears : t <= u
      <4> HIDE DEF tears
      <4> QED BY <2>2, LeastElement
    <3>2. t - 1 \in 0 .. Len(file) /\ P(t - 1)
      BY <3>1, <1>1
    <3> QED BY <3>2
  <2> QED BY <2>1, <2>2
<1> HIDE DEF P
<1>3. ReadableLen(file) = CHOOSE n \in 0 .. Len(file) : P(n)
  BY DEF ReadableLen, P
<1>4. ReadableLen(file) \in 0 .. Len(file) /\ P(ReadableLen(file))
  BY <1>2, <1>3
<1> QED BY <1>4 DEF P

(* There is one such length only.                                          *)
LEMMA ReadableLenUnique ==
  ASSUME NEW file \in Seq(Chunk), NEW n \in 0 .. Len(file),
         \A i \in 1 .. n : file[i] # Torn,
         n < Len(file) => file[n + 1] = Torn
  PROVE  ReadableLen(file) = n
<1> DEFINE r == ReadableLen(file)
<1>1. /\ r \in 0 .. Len(file)
      /\ \A i \in 1 .. r : file[i] # Torn
      /\ r < Len(file) => file[r + 1] = Torn
  BY ReadableLenSpec
<1>2. Len(file) \in Nat
  BY LenProperties
<1> HIDE DEF r
<1>3. ~ (r < n)
  <2> SUFFICES ASSUME r < n PROVE FALSE
    OBVIOUS
  <2>1. r + 1 \in 1 .. n /\ r < Len(file)
    BY <1>1, <1>2
  <2> QED BY <1>1, <2>1
<1>4. ~ (n < r)
  <2> SUFFICES ASSUME n < r PROVE FALSE
    OBVIOUS
  <2>1. n + 1 \in 1 .. r /\ n < Len(file)
    BY <1>1, <1>2
  <2> QED BY <1>1, <2>1
<1>5. r = n
  BY <1>1, <1>2, <1>3, <1>4
<1> QED BY <1>5 DEF r

(* What one more chunk does to the readable length: it grows by a record   *)
(* at the end of a log without a tear, and by nothing otherwise.           *)
LEMMA ReadableLenAppend ==
  ASSUME NEW file \in Seq(Chunk), NEW c \in Chunk
  PROVE  /\ Append(file, c) \in Seq(Chunk)
         /\ Len(Append(file, c)) = Len(file) + 1
         /\ \A i \in 1 .. Len(file) : Append(file, c)[i] = file[i]
         /\ Append(file, c)[Len(file) + 1] = c
         /\ ReadableLen(Append(file, c)) =
              IF ReadableLen(file) = Len(file) /\ c # Torn
                THEN Len(file) + 1 ELSE ReadableLen(file)
<1> DEFINE g == Append(file, c)
           r == ReadableLen(file)
<1>1. /\ Len(file) \in Nat
      /\ g \in Seq(Chunk)
      /\ Len(g) = Len(file) + 1
      /\ \A i \in 1 .. Len(file) : g[i] = file[i]
      /\ g[Len(file) + 1] = c
  BY LenProperties
<1>2. /\ r \in 0 .. Len(file)
      /\ \A i \in 1 .. r : file[i] # Torn
      /\ r < Len(file) => file[r + 1] = Torn
  BY ReadableLenSpec
<1> HIDE DEF g, r
<1>3. CASE r = Len(file) /\ c # Torn
  <2>1. \A i \in 1 .. Len(file) + 1 : g[i] # Torn
    BY <1>1, <1>2, <1>3
  <2>2. ReadableLen(g) = Len(file) + 1
    BY <1>1, <2>1, ReadableLenUnique
  <2> QED BY <1>1, <1>3, <2>2 DEF g, r
<1>4. CASE r = Len(file) /\ c = Torn
  <2>1. r \in 0 .. Len(g) /\ (\A i \in 1 .. r : g[i] # Torn) /\ g[r + 1] = Torn
    BY <1>1, <1>2, <1>4
  <2>2. ReadableLen(g) = r
    BY <1>1, <2>1, ReadableLenUnique
  <2> QED BY <1>1, <1>4, <2>2 DEF g, r
<1>5. CASE r < Len(file)
  <2>1. r \in 0 .. Len(g) /\ (\A i \in 1 .. r : g[i] # Torn) /\ g[r + 1] = Torn
    BY <1>1, <1>2, <1>5
  <2>2. ReadableLen(g) = r
    BY <1>1, <2>1, ReadableLenUnique
  <2> QED BY <1>1, <1>5, <2>2 DEF g, r
<1> QED BY <1>1, <1>2, <1>3, <1>4, <1>5

(* recover returns the chunks up to the first tear, all of them records.   *)
LEMMA RecoverSpec ==
  ASSUME NEW file \in Seq(Chunk)
  PROVE  /\ recover(file) \in Seq(WALRecord)
         /\ Len(recover(file)) = ReadableLen(file)
         /\ \A i \in 1 .. ReadableLen(file) : recover(file)[i] = file[i]
<1> DEFINE r == ReadableLen(file)
<1>1. r \in 0 .. Len(file) /\ \A i \in 1 .. r : file[i] # Torn
  BY ReadableLenSpec
<1>2. Len(file) \in Nat /\ \A i \in 1 .. Len(file) : file[i] \in Chunk
  BY LenProperties, ElementOfSeq
<1> HIDE DEF r
<1>3. \A i \in 1 .. r : file[i] \in WALRecord
  BY <1>1, <1>2 DEF Chunk
<1>4. /\ SubSeq(file, 1, r) \in Seq(WALRecord)
      /\ Len(SubSeq(file, 1, r)) = IF 1 <= r THEN r - 1 + 1 ELSE 0
      /\ \A i \in 1 .. r - 1 + 1 : SubSeq(file, 1, r)[i] = file[1 + i - 1]
  BY <1>1, <1>3, SubSeqProperties
<1>5. Len(SubSeq(file, 1, r)) = r /\ \A i \in 1 .. r : SubSeq(file, 1, r)[i] = file[i]
  BY <1>1, <1>4
<1> QED BY <1>4, <1>5 DEF recover, r

(* A reader sees one more record if one was appended to a log without a    *)
(* tear, and what it saw before otherwise.                                 *)
LEMMA RecoverAppend ==
  ASSUME NEW file \in Seq(Chunk), NEW c \in Chunk
  PROVE  recover(Append(file, c)) = IF ReadableLen(file) = Len(file) /\ c # Torn
                                      THEN Append(recover(file), c) ELSE recover(file)
<1> DEFINE g   == Append(file, c)
           r   == ReadableLen(file)
           old == recover(file)
           new == recover(g)
<1>1. /\ g \in Seq(Chunk)
      /\ \A i \in 1 .. Len(file) : g[i] = file[i]
      /\ g[Len(file) + 1] = c
      /\ ReadableLen(g) = IF r = Len(file) /\ c # Torn THEN Len(file) + 1 ELSE r
  BY ReadableLenAppend
<1>2. Len(file) \in Nat /\ r \in 0 .. Len(file)
  BY LenProperties, ReadableLenSpec
<1>3. old \in Seq(WALRecord) /\ Len(old) = r /\ \A i \in 1 .. r : old[i] = file[i]
  BY RecoverSpec
<1>4. /\ new \in Seq(WALRecord) /\ Len(new) = ReadableLen(g)
      /\ \A i \in 1 .. ReadableLen(g) : new[i] = g[i]
  BY <1>1, RecoverSpec
<1> HIDE DEF g, r, old, new
<1>5. CASE r = Len(file) /\ c # Torn
  <2>1. c \in WALRecord
    BY <1>5 DEF Chunk
  <2>2. /\ Append(old, c) \in Seq(WALRecord) /\ Len(Append(old, c)) = r + 1
        /\ \A i \in 1 .. r : Append(old, c)[i] = old[i]
        /\ Append(old, c)[r + 1] = c
    BY <1>3, <2>1, AppendProperties
  <2>3. \A i \in 1 .. r + 1 : new[i] = Append(old, c)[i]
    <3>1. \A i \in 1 .. r + 1 : i \in 1 .. r \/ i = r + 1
      BY <1>2
    <3> QED BY <1>1, <1>3, <1>4, <1>5, <2>2, <3>1
  <2>4. new = Append(old, c)
    BY <1>1, <1>4, <1>5, <2>2, <2>3, SeqEqual
  <2> QED BY <1>5, <2>4 DEF g, r, old, new
<1>6. CASE ~ (r = Len(file) /\ c # Torn)
  <2>1. \A i \in 1 .. r : new[i] = old[i]
    BY <1>1, <1>2, <1>3, <1>4, <1>6
  <2>2. new = old
    BY <1>1, <1>3, <1>4, <1>6, <2>1, SeqEqual
  <2> QED BY <1>6, <2>2 DEF g, r, old, new
<1> QED BY <1>5, <1>6

(* The LSNs of a list of records have an upper bound: a shortest prefix    *)
(* without one would be bounded by the bound of the prefix before it and   *)
(* the LSN of its last record.                                             *)
LEMMA LsnsBounded ==
  ASSUME NEW recs \in Seq(WALRecord)
  PROVE  \E b \in Nat : \A i \in 1 .. Len(recs) : recs[i].lsn <= b
<1> DEFINE B(n) == \E b \in Nat : \A i \in 1 .. n : recs[i].lsn <= b
           bad  == {n \in 0 .. Len(recs) : ~ B(n)}
<1>1. Len(recs) \in Nat /\ \A i \in 1 .. Len(recs) : recs[i].lsn \in Nat
  <2>1. \A i \in 1 .. Len(recs) : recs[i] \in WALRecord
    BY ElementOfSeq
  <2> QED BY <2>1, LenProperties DEF WALRecord
<1>2. ASSUME bad # {} PROVE FALSE
  <2>1. bad \in SUBSET Nat
    BY <1>1
  <2>2. PICK n \in bad : \A m \in bad : n <= m
    <3> HIDE DEF bad
    <3> QED BY <1>2, <2>1, LeastElement
  <2>3. B(0)
    OBVIOUS
  <2>4. n # 0 /\ n \in 1 .. Len(recs)
    BY <1>1, <2>2, <2>3
  <2>5. B(n - 1)
    <3>1. n - 1 \in 0 .. Len(recs) /\ ~ (n <= n - 1)
      <4>1. Len(recs) \in Nat /\ n \in 1 .. Len(recs)
        BY <1>1, <2>4
      <4> HIDE DEF bad, B
      <4> QED BY <4>1
    <3>2. n - 1 \notin bad
      BY <2>2, <3>1
    <3> QED BY <3>1, <3>2
  <2>6. PICK b \in Nat : \A i \in 1 .. n - 1 : recs[i].lsn <= b
    BY <2>5
  <2> HIDE DEF bad
  <2>7. b + recs[n].lsn \in Nat /\ \A i \in 1 .. n : recs[i].lsn <= b + recs[n].lsn
    <3>1. recs[n].lsn \in Nat
      BY <1>1, <2>4
    <3>2. ASSUME NEW i \in 1 .. n PROVE recs[i].lsn <= b + recs[n].lsn
      <4>1. i = n \/ i \in 1 .. n - 1
        BY <2>4
      <4>2. recs[i].lsn \in Nat
        <5>1. i \in 1 .. Len(recs)
          BY <1>1, <2>4
        <5> QED BY <1>1, <5>1
      <4>3. i \in 1 .. n - 1 => recs[i].lsn <= b
        BY <2>6
      <4> QED BY <3>1, <4>1, <4>2, <4>3
    <3> QED BY <3>1, <3>2
  <2>8. B(n)
    BY <2>7
  <2> QED BY <2>2, <2>8 DEF bad
<1>3. B(Len(recs))
  BY <1>1, <1>2
<1> QED BY <1>3

(* A log that is opened goes on with an LSN above all it can read.         *)
LEMMA NextLsnSpec ==
  ASSUME NEW file \in Seq(Chunk)
  PROVE  /\ NextLsn(file) \in Nat \ {0}
         /\ \A i \in 1 .. ReadableLen(file) : file[i].lsn < NextLsn(file)
<1> DEFINE r    == ReadableLen(file)
           lsns == {0} \cup {recover(file)[i].lsn : i \in 1 .. r}
           max  == CHOOSE m \in lsns : \A l \in lsns : l <= m
<1>1. /\ recover(file) \in Seq(WALRecord)
      /\ Len(recover(file)) = r
      /\ \A i \in 1 .. r : recover(file)[i] = file[i]
  BY RecoverSpec
<1>2. \A i \in 1 .. r : recover(file)[i].lsn \in Nat
  <2>1. \A i \in 1 .. r : recover(file)[i] \in WALRecord
    BY <1>1, ElementOfSeq
  <2> QED BY <2>1 DEF WALRecord
<1>3. PICK b \in Nat : \A i \in 1 .. r : recover(file)[i].lsn <= b
  BY <1>1, LsnsBounded
<1>4. \A i \in 1 .. r : recover(file)[i].lsn \in 0 .. b
  BY <1>2, <1>3
<1>5. lsns \in SUBSET (0 .. b) /\ lsns # {}
  BY <1>4
<1>6. \E m \in lsns : \A l \in lsns : l <= m
  <2> HIDE DEF lsns
  <2> QED BY <1>5, GreatestElement
<1>7. max \in lsns /\ \A l \in lsns : l <= max
  <2> HIDE DEF lsns
  <2> QED BY <1>6
<1>8. NextLsn(file) = 1 + max
  BY DEF NextLsn
<1>9. max \in Nat /\ \A i \in 1 .. r : recover(file)[i].lsn <= max
  <2>1. \A i \in 1 .. r : recover(file)[i].lsn \in lsns
    OBVIOUS
  <2> HIDE DEF lsns, max
  <2>2. max \in Nat
    <3>1. max \in 0 .. b
      BY <1>5, <1>7
    <3> QED BY <3>1
  <2>3. \A i \in 1 .. r : recover(file)[i].lsn <= max
    BY <1>7, <2>1
  <2> QED BY <2>2, <2>3
<1> HIDE DEF lsns, max
<1> QED BY <1>1, <1>2, <1>8, <1>9

(* What append writes is a record with the LSN it was given.               *)
LEMMA WithLsnType ==
  ASSUME NEW op \in Operation, NEW lsn \in Nat
  PROVE  /\ WithLsn(op, lsn) \in WALRecord
         /\ WithLsn(op, lsn).lsn = lsn
         /\ WithLsn(op, lsn) # Torn
BY WALAssumption DEF WithLsn, Operation, WALRecord

(* An empty file reads as no records.                                      *)
LEMMA EmptyLog == /\ << >> \in Seq(Chunk)
                  /\ Len(<< >>) = 0
                  /\ ReadableLen(<< >>) = 0
<1>1. << >> \in Seq(Chunk) /\ Len(<< >>) = 0
  BY EmptySeq
<1>2. ReadableLen(<< >>) \in 0 .. 0
  BY <1>1, ReadableLenSpec
<1> QED BY <1>1, <1>2
===========================================================================
