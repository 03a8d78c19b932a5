------------------------- MODULE WALManager_proofs ------------------------
(***************************************************************************)
(* The invariants of WALManagerSpec for any number of requests, opens,     *)
(* errors and kills.                                                       *)
(***************************************************************************)
EXTENDS WALManagerSpec, WALManagerLemmas
---------------------------------------------------------------------------
(* The order of what can be read, of a file and of an upper bound for it.  *)
Ordered(file) ==
  \A i, j \in 1 .. ReadableLen(file) : i < j => file[i].lsn < file[j].lsn
Below(file, lsn) == \A i \in 1 .. ReadableLen(file) : file[i].lsn < lsn

(* Whatever an append leaves behind, a torn chunk or a record with the     *)
(* next LSN, keeps the order.                                              *)
LEMMA AppendKeepsOrder ==
  ASSUME NEW file \in Seq(Chunk), NEW lsn \in Nat, Ordered(file), Below(file, lsn),
         NEW c \in Chunk, c # Torn => c.lsn = lsn
  PROVE  Ordered(Append(file, c)) /\ Below(Append(file, c), lsn + 1)
<1> DEFINE g == Append(file, c)
           r == ReadableLen(file)
<1>1. /\ \A i \in 1 .. Len(file) : g[i] = file[i]
      /\ g[Len(file) + 1] = c
      /\ ReadableLen(g) = IF r = Len(file) /\ c # Torn THEN Len(file) + 1 ELSE r
  BY ReadableLenAppend
<1>2. r \in 0 .. Len(file) /\ Len(file) \in Nat
  BY ReadableLenSpec, LenProperties
<1>3. \A i \in 1 .. r : file[i].lsn \in Nat
  <2>1. \A i \in 1 .. r : file[i] \in Chunk /\ file[i] # Torn
    BY <1>2, ReadableLenSpec, ElementOfSeq
  <2> QED BY <2>1 DEF Chunk, WALRecord
<1> HIDE DEF g, r
<1>4. \A i \in 1 .. r : g[i].lsn = file[i].lsn /\ g[i].lsn < lsn
  BY <1>1, <1>2 DEF Below, r
<1>5. \A i, j \in 1 .. r : i < j => g[i].lsn < g[j].lsn
  BY <1>4 DEF Ordered, r
<1>6. CASE ReadableLen(g) = r
  <2>1. Ordered(g)
    BY <1>5, <1>6 DEF Ordered
  <2>2. Below(g, lsn + 1)
    BY <1>3, <1>4, <1>6 DEF Below
  <2> QED BY <2>1, <2>2 DEF g
<1>7. CASE r = Len(file) /\ c # Torn
  <2>1. g[r + 1].lsn = lsn /\ ReadableLen(g) = r + 1
    BY <1>1, <1>7
  <2>2. \A i \in 1 .. r + 1 : i \in 1 .. r \/ i = r + 1
    BY <1>2
  <2>3. Ordered(g)
    BY <1>2, <1>4, <1>5, <2>1, <2>2 DEF Ordered
  <2>4. Below(g, lsn + 1)
    BY <1>3, <1>4, <2>1, <2>2 DEF Below
  <2> QED BY <2>3, <2>4 DEF g
<1> QED BY <1>1, <1>6, <1>7
---------------------------------------------------------------------------
AckedInFile == \A a \in acked : \E i \in 1 .. Len(wal_file) : wal_file[i] = a

Inv == /\ TypeOK
       /\ Ordered(wal_file)
       /\ running => Below(wal_file, current_lsn)
       /\ AckedInFile

(* What the three kinds of append do to the file, as one fact.             *)
LEMMA AppendStep ==
  ASSUME TypeOK, NEW op \in Requests, AppendOk(op) \/ AppendErr(op) \/ Crash(op)
  PROVE  \/ wal_file' = wal_file
         \/ \E c \in Chunk : /\ wal_file' = Append(wal_file, c)
                             /\ c # Torn => c.lsn = current_lsn
<1>1. op \in Operation /\ current_lsn \in Nat
  BY RequestAssumption DEF TypeOK, WALTypeOK
<1>2. WithLsn(op, current_lsn) \in Chunk /\ WithLsn(op, current_lsn).lsn = current_lsn
  BY <1>1, WithLsnType DEF Chunk
<1>3. Torn \in Chunk
  BY DEF Chunk
<1>4. wal_file' \in Unfinished(op)
  BY DEF AppendOk, AppendErr, Crash, append, AppendFails, CrashInAppend, Unfinished
<1> QED BY <1>2, <1>3, <1>4 DEF Unfinished

LEMMA InvInit == Init => Inv
<1> SUFFICES ASSUME Init PROVE Inv
  OBVIOUS
<1>1. TypeOK
  <2>1. wal_file \in Seq(WALRecord \cup {Torn})
    BY EmptyLog DEF Init, WALInit, Chunk
  <2>2. current_lsn \in Nat \ {0}
    BY DEF Init, WALInit
  <2>3. running \in BOOLEAN /\ opens \in Nat /\ acked \subseteq WALRecord
    BY DEF Init
  <2> QED BY <2>1, <2>2, <2>3 DEF TypeOK, WALTypeOK
<1>2. ReadableLen(wal_file) = 0
  BY EmptyLog DEF Init, WALInit
<1>3. Ordered(wal_file) /\ Below(wal_file, current_lsn) /\ AckedInFile
  BY <1>2 DEF Ordered, Below, AckedInFile, Init
<1> QED BY <1>1, <1>3 DEF Inv

LEMMA InvNext == Inv /\ [Next]_vars => Inv'
<1> SUFFICES ASSUME Inv, [Next]_vars PROVE Inv'
  OBVIOUS
<1>0. /\ wal_file \in Seq(Chunk)
      /\ current_lsn \in Nat \ {0}
      /\ running \in BOOLEAN
      /\ opens \in Nat
      /\ acked \subseteq WALRecord
  BY DEF Inv, TypeOK, WALTypeOK, Chunk
<1>1. CASE Open
  <2>1. NextLsn(wal_file) \in Nat \ {0} /\ Below(wal_file, NextLsn(wal_file))
    BY <1>0, NextLsnSpec DEF Below
  <2> QED BY <1>0, <1>1, <2>1 DEF Inv, TypeOK, WALTypeOK, Open, WALNew, Ordered, Below,
                                  AckedInFile
<1>2. CASE Clear \/ ClearErr
  <2>1. CASE wal_file' = <<>>
    <3>1. acked' = {} /\ ReadableLen(wal_file') = 0
      BY <1>2, <2>1, EmptyLog DEF Clear, ClearErr
    <3>2. TypeOK'
      BY <1>0, <1>2, <2>1, <3>1, EmptyLog
      DEF Clear, ClearErr, clear, ClearFails, TypeOK, WALTypeOK, Chunk
    <3> QED BY <3>1, <3>2 DEF Inv, Ordered, Below, AckedInFile
  <2>2. CASE wal_file' # <<>>
    <3>1. UNCHANGED vars
      BY <1>2, <2>2 DEF Clear, ClearErr, clear, ClearFails, vars, walVars
    <3> QED BY <3>1 DEF Inv, vars, walVars, TypeOK, WALTypeOK, Ordered, Below, AckedInFile
  <2> QED BY <2>1, <2>2
<1>3. CASE Exit
  BY <1>3 DEF Inv, TypeOK, WALTypeOK, Exit, walVars, Ordered, Below, AckedInFile
<1>4. ASSUME NEW op \in Requests, AppendOk(op) \/ AppendErr(op) \/ Crash(op)
      PROVE  Inv'
  <2>1. running /\ Below(wal_file, current_lsn) /\ Ordered(wal_file)
    BY <1>4 DEF Inv, AppendOk, AppendErr, Crash
  <2>2. /\ wal_file' \in Seq(Chunk)
        /\ Len(wal_file) <= Len(wal_file') /\ Len(wal_file') \in Nat
        /\ \A i \in 1 .. Len(wal_file) : wal_file'[i] = wal_file[i]
        /\ Ordered(wal_file')
        /\ Below(wal_file', current_lsn + 1)
    <3>1. CASE wal_file' = wal_file
      <4>1. \A i \in 1 .. ReadableLen(wal_file) : wal_file[i].lsn \in Nat
        <5>1. \A i \in 1 .. ReadableLen(wal_file) : wal_file[i] \in Chunk /\ wal_file[i] # Torn
          BY <1>0, ReadableLenSpec, ElementOfSeq, LenProperties
        <5> QED BY <5>1 DEF Chunk, WALRecord
      <4>2. Below(wal_file, current_lsn + 1)
        BY <1>0, <2>1, <4>1 DEF Below
      <4> QED BY <1>0, <2>1, <3>1, <4>2, LenProperties
    <3>2. CASE \E c \in Chunk : wal_file' = Append(wal_file, c) /\ (c # Torn => c.lsn = current_lsn)
      <4>1. PICK c \in Chunk : wal_file' = Append(wal_file, c) /\ (c # Torn => c.lsn = current_lsn)
        BY <3>2
      <4>2. Ordered(wal_file') /\ Below(wal_file', current_lsn + 1)
        BY <1>0, <2>1, <4>1, AppendKeepsOrder
      <4>3. /\ wal_file' \in Seq(Chunk) /\ Len(wal_file') = Len(wal_file) + 1
            /\ \A i \in 1 .. Len(wal_file) : wal_file'[i] = wal_file[i]
        BY <1>0, <4>1, ReadableLenAppend
      <4> QED BY <1>0, <4>2, <4>3, LenProperties
    <3> QED BY <1>4, <3>1, <3>2, AppendStep DEF Inv
  <2>3. WithLsn(op, current_lsn) \in WALRecord
    BY <1>0, WithLsnType, RequestAssumption
  <2>4. TypeOK'
    <3>1. wal_file' \in Seq(WALRecord \cup {Torn})
      BY <2>2 DEF Chunk
    <3>2. current_lsn' \in Nat \ {0}
      BY <1>0, <1>4 DEF AppendOk, AppendErr, Crash, append, AppendFails, CrashInAppend
    <3>3. running' \in BOOLEAN /\ opens' \in Nat
      BY <1>0, <1>4 DEF AppendOk, AppendErr, Crash
    <3>4. acked' \subseteq WALRecord
      BY <1>0, <1>4, <2>3 DEF AppendOk, AppendErr, Crash
    <3> QED BY <3>1, <3>2, <3>3, <3>4 DEF TypeOK, WALTypeOK
  <2>5. running' => Below(wal_file', current_lsn')
    BY <1>4, <2>2 DEF AppendOk, AppendErr, Crash, append, AppendFails
  <2>6. AckedInFile'
    <3>1. ASSUME NEW a \in acked PROVE \E i \in 1 .. Len(wal_file') : wal_file'[i] = a
      <4>1. PICK i \in 1 .. Len(wal_file) : wal_file[i] = a
        BY DEF Inv, AckedInFile
      <4>2. i \in 1 .. Len(wal_file') /\ wal_file'[i] = a
        BY <1>0, <2>2, <4>1, LenProperties
      <4> QED BY <4>2
    <3>2. CASE acked' = acked
      BY <3>1, <3>2 DEF AckedInFile
    <3>3. CASE AppendOk(op)
      <4>1. /\ acked' = acked \cup {WithLsn(op, current_lsn)}
            /\ wal_file' = Append(wal_file, WithLsn(op, current_lsn))
        BY <3>3 DEF AppendOk, append
      <4>2. /\ Len(wal_file') = Len(wal_file) + 1
            /\ wal_file'[Len(wal_file) + 1] = WithLsn(op, current_lsn)
        BY <1>0, <2>3, <4>1, ReadableLenAppend DEF Chunk
      <4>3. Len(wal_file') \in 1 .. Len(wal_file')
        BY <1>0, <4>2, LenProperties
      <4> QED BY <3>1, <4>1, <4>2, <4>3 DEF AckedInFile
    <3> QED BY <1>4, <3>2, <3>3 DEF AppendErr, Crash
  <2> QED BY <2>2, <2>4, <2>5, <2>6 DEF Inv
<1>5. CASE UNCHANGED vars
  BY <1>5 DEF Inv, vars, walVars, TypeOK, WALTypeOK, Ordered, Below, AckedInFile
<1> QED BY <1>1, <1>2, <1>3, <1>4, <1>5 DEF Next

(* The log keeps its invariant through any history of requests, errors,    *)
(* kills and restarts.                                                     *)
THEOREM InvHolds == Spec => []Inv
<1>1. Init => Inv
  BY InvInit
<1>2. Inv /\ [Next]_vars => Inv'
  BY InvNext
<1> QED BY <1>1, <1>2, PTL DEF Spec

(* The file stays a sequence of records and Torn chunks and the counter a  *)
(* positive number, which NextLsn has to be for every file it may find.    *)
THEOREM TypeCorrect == Spec => []TypeOK
<1>1. Inv => TypeOK
  BY DEF Inv
<1> QED BY <1>1, InvHolds, PTL

(* Recovered records come in strictly increasing LSN order, and a running  *)
(* process is ahead of every LSN it could read back.                       *)
THEOREM LsnOrder == Spec => []LsnIncreasing
<1>1. Inv => LsnIncreasing
  BY DEF Inv, LsnIncreasing, Ordered, Below
<1> QED BY <1>1, InvHolds, PTL

(* An acknowledged record can only be lost behind the remains of an        *)
(* unfinished append: the chunk that stops the reader is such a remain.    *)
THEOREM LossOnlyBehindTear == Spec => []LostOnlyBehindTear
<1>1. Inv => LostOnlyBehindTear
  <2> SUFFICES ASSUME Inv, NEW a \in acked
               PROVE  \E i \in 1 .. Len(wal_file) :
                        /\ wal_file[i] = a
                        /\ i > ReadableLen(wal_file) => \E j \in 1 .. i : wal_file[j] = Torn
    BY DEF LostOnlyBehindTear
  <2>1. PICK i \in 1 .. Len(wal_file) : wal_file[i] = a
    BY DEF Inv, AckedInFile
  <2>2. wal_file \in Seq(Chunk) /\ Len(wal_file) \in Nat
    BY LenProperties DEF Inv, TypeOK, WALTypeOK, Chunk
  <2>3. /\ ReadableLen(wal_file) \in 0 .. Len(wal_file)
        /\ ReadableLen(wal_file) < Len(wal_file) => wal_file[ReadableLen(wal_file) + 1] = Torn
    BY <2>2, ReadableLenSpec
  <2>4. i > ReadableLen(wal_file) =>
          /\ ReadableLen(wal_file) + 1 \in 1 .. i
          /\ wal_file[ReadableLen(wal_file) + 1] = Torn
    BY <2>2, <2>3
  <2> QED BY <2>1, <2>4
<1> QED BY <1>1, InvHolds, PTL

(* No step but a clear takes back or changes a record that can be read.    *)
THEOREM PrefixStability == Spec => PrefixStable
<1> DEFINE Stable == \/ wal_file' = <<>>
                     \/ /\ ReadableLen(wal_file) <= ReadableLen(wal_file')
                        /\ \A i \in 1 .. ReadableLen(wal_file) : wal_file'[i] = wal_file[i]
<1>1. Inv /\ [Next]_vars => [Stable]_vars
  <2> SUFFICES ASSUME Inv, Next PROVE Stable
    OBVIOUS
  <2>1. wal_file \in Seq(Chunk) /\ Len(wal_file) \in Nat
    BY LenProperties DEF Inv, TypeOK, WALTypeOK, Chunk
  <2>2. ReadableLen(wal_file) \in 0 .. Len(wal_file)
    BY <2>1, ReadableLenSpec
  <2>3. CASE wal_file' = wal_file
    BY <2>2, <2>3
  <2>4. CASE \E c \in Chunk : wal_file' = Append(wal_file, c)
    <3>1. PICK c \in Chunk : wal_file' = Append(wal_file, c)
      BY <2>4
    <3>2. /\ \A i \in 1 .. Len(wal_file) : wal_file'[i] = wal_file[i]
          /\ ReadableLen(wal_file') \in {ReadableLen(wal_file), Len(wal_file) + 1}
      BY <2>1, <3>1, ReadableLenAppend
    <3> QED BY <2>1, <2>2, <3>2
  <2>5. CASE Clear \/ ClearErr
    BY <2>3, <2>5 DEF Clear, ClearErr, clear, ClearFails
  <2>6. CASE Open \/ Exit
    BY <2>3, <2>6 DEF Open, WALNew, Exit, walVars
  <2>7. ASSUME NEW op \in Requests, AppendOk(op) \/ AppendErr(op) \/ Crash(op)
        PROVE  Stable
    <3> HIDE DEF Stable
    <3> QED BY <2>3, <2>4, <2>7, AppendStep DEF Inv
  <2> QED BY <2>5, <2>6, <2>7 DEF Next
<1>2. Spec => [][Stable]_vars
  <2> HIDE DEF Stable
  <2> QED BY <1>1, InvHolds, PTL DEF Spec
<1> QED BY <1>2 DEF PrefixStable
===========================================================================
