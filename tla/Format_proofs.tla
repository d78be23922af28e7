---------------------------- MODULE Format_proofs ----------------------------
(***************************************************************************)
(* What is read from a vpc.cache, for any table that was saved and any     *)
(* part of the file.  The proof first says where each field of each record *)
(* lies in the file (FileWritten), then what the reader makes of a field   *)
(* that is there and of one that is cut off (StringRead, FieldRead), and   *)
(* then follows the reader: after n records the table holds these and bare *)
(* names, and what it reads next is the field its position says (ToRead).  *)
(***************************************************************************)
EXTENDS CacheFormat, Iteration, SequenceTheorems, FiniteSetTheorems, TLAPS

-----------------------------------------------------------------------------
(***************************************************************************)
(* What SaveCache writes: where each field of each record lies.            *)
(***************************************************************************)
Short16 == {n \in Nat : n < 65536}

LEMMA Typed ==
  /\ IsFiniteSet(Names)
  /\ \A name \in Names : name \in Seq(Nat) /\ Len(name) \in Short16 /\ Len(name) \in Nat
                         /\ name # << >> /\ \A k \in 1..Len(name) : name[k] # 0
  /\ Sizes \subseteq Short16 /\ Times \subseteq Short16 /\ MaxDeps \in Short16
  /\ Short16 \subseteq Nat
<1>1. ASSUME NEW name \in Names
      PROVE  name \in Seq(Nat) /\ Len(name) \in Short16 /\ Len(name) \in Nat
             /\ name # << >> /\ \A k \in 1..Len(name) : name[k] # 0
  <2> DEFINE n == Len(name)
             B == 1..255
  <2>1. name \in Seq(B) \ {<< >>} /\ n < 65536 /\ n \in Nat
    BY SavedDataAssumption, LenProperties
  <2>2. B \subseteq Nat /\ 0 \notin B
    OBVIOUS
  <2> HIDE DEF B
  <2>3. \A k \in 1..n : name[k] \in B
    BY <2>1, ElementOfSeq
  <2>4. name \in Seq(Nat)
    <3>1. name = [k \in 1..n |-> name[k]] /\ n \in Nat
      BY <2>1, LenProperties
    <3>2. name \in [1..n -> Nat]
      <4> HIDE DEF n
      <4> QED
        BY <2>2, <2>3, <3>1
    <3> HIDE DEF n
    <3> QED
      BY <3>1, <3>2, SeqDef
  <2>5. name # << >>
    BY <2>1
  <2>6. \A k \in 1..n : name[k] # 0
    BY <2>2, <2>3
  <2>7. n \in Short16 /\ n \in Nat
    BY <2>1 DEF Short16
  <2> QED
    BY <2>4, <2>5, <2>6, <2>7
<1>2. Sizes \subseteq Short16 /\ Times \subseteq Short16 /\ MaxDeps \in Short16
  BY SavedDataAssumption DEF Short16
<1>3. IsFiniteSet(Names) /\ Short16 \subseteq Nat
  BY SavedDataAssumption DEF Short16
<1> QED
  BY <1>1, <1>2, <1>3

LEMMA RecordTyped ==
  ASSUME NEW r \in SavedRecord
  PROVE  /\ r.name \in Names /\ r.size \in Short16 /\ r.time \in Short16
         /\ r.deps \in Seq(Names) /\ Len(r.deps) \in Short16 /\ Len(r.deps) \in Nat
         /\ \A k \in 1..Len(r.deps) : r.deps[k] \in Names
<1>1. r.name \in Names /\ r.size \in Sizes /\ r.time \in Times /\ r.deps \in BoundedSeq(Names, MaxDeps)
  BY DEF SavedRecord
<1>2. PICK m \in 0..MaxDeps : r.deps \in [1..m -> Names]
  BY <1>1 DEF BoundedSeq, SeqOf
<1>3. m \in Short16 /\ m \in Nat
  <2>1. MaxDeps \in Short16
    BY Typed
  <2> QED
    BY <2>1 DEF Short16
<1>4. r.deps \in Seq(Names) /\ Len(r.deps) = m
  <2>1. r.deps \in Seq(Names)
    BY <1>2, <1>3, SeqDef
  <2> QED
    BY <1>2, <1>3, <2>1, LenProperties
<1> QED
  BY <1>1, <1>2, <1>3, <1>4, Typed

LEMMA BytesTyped ==
  ASSUME NEW n \in Short16, NEW width \in Nat
  PROVE  Bytes(n, width) \in Seq(Nat) /\ Len(Bytes(n, width)) = width
<1>1. n % 256 \in Nat /\ n \div 256 \in Nat
  BY DEF Short16
<1>2. Bytes(n, width) \in [1..width -> Nat]
  BY <1>1 DEF Bytes
<1>3. Bytes(n, width) \in Seq(Nat)
  BY <1>2, SeqDef
<1> QED
  BY <1>2, <1>3, LenProperties

LEMMA StringWritten ==
  ASSUME IntpWidth = 4, NEW name \in Names, NEW b \in Seq(Nat), NEW o \in Nat
  PROVE  /\ WriteString(name) \in Seq(Nat) /\ Len(WriteString(name)) = 4 + Len(name)
         /\ Lies(b, o, WriteString(name)) =>
              Lies(b, o, Bytes(Len(name), 4)) /\ Lies(b, o + 4, name)
<1> DEFINE x == Bytes(Len(name), 4)
<1>1. /\ x \in Seq(Nat) /\ Len(x) = 4 /\ name \in Seq(Nat)
      /\ WriteString(name) = x \o name
  BY Typed, BytesTyped DEF WriteString
<1> HIDE DEF x
<1>2. /\ x \o name \in Seq(Nat) /\ Len(x \o name) = Len(x) + Len(name)
      /\ Lies(b, o, x \o name) => Lies(b, o, x) /\ Lies(b, o + Len(x), name)
  BY <1>1, PartsLie
<1> QED
  BY <1>1, <1>2 DEF x

DepParts(r) == [i \in 1..Len(r.deps) |-> WriteString(r.deps[i])]

\* The bytes of a record before its size, its time, the number of its
\* dependencies and each of these.
SizeAt(r) == 5 + Len(r.name)
TimeAt(r) == 13 + Len(r.name)
CountAt(r) == 21 + Len(r.name)
DepAt(r, k) == 25 + Len(r.name) + Ends(DepParts(r))[k - 1]

LEMMA DepsWritten ==
  ASSUME IntpWidth = 4, NEW r \in SavedRecord
  PROVE  LET n == Len(r.deps)
         IN  /\ DepParts(r) \in Seq(Seq(Nat)) /\ Len(DepParts(r)) = n
             /\ \A k \in 1..n + 1 : DepAt(r, k) \in Nat
             /\ DepAt(r, 1) = 25 + Len(r.name)
             /\ \A k \in 1..n : DepAt(r, k + 1) = DepAt(r, k) + 4 + Len(r.deps[k])
<1> DEFINE n == Len(r.deps)
           d == DepParts(r)
           e == Ends(d)
<1>1. n \in Nat /\ \A k \in 1..n : r.deps[k] \in Names
  BY RecordTyped
<1>2. /\ Len(r.name) \in Nat
      /\ \A k \in 1..n : /\ WriteString(r.deps[k]) \in Seq(Nat) /\ Len(r.deps[k]) \in Nat
                         /\ Len(WriteString(r.deps[k])) = 4 + Len(r.deps[k])
  <2>1. << >> \in Seq(Nat) /\ 0 \in Nat
    BY EmptySeq
  <2>2. ASSUME NEW k \in 1..n
        PROVE  /\ WriteString(r.deps[k]) \in Seq(Nat) /\ Len(r.deps[k]) \in Nat
               /\ Len(WriteString(r.deps[k])) = 4 + Len(r.deps[k])
    BY <1>1, <2>1, StringWritten, Typed
  <2> QED
    BY <2>2, RecordTyped, Typed
<1>3. d \in Seq(Seq(Nat)) /\ Len(d) = n /\ \A k \in 1..n : d[k] = WriteString(r.deps[k])
  <2>1. d \in [1..n -> Seq(Nat)] /\ \A k \in 1..n : d[k] = WriteString(r.deps[k])
    BY <1>2 DEF DepParts
  <2> DEFINE Q == Seq(Nat)
  <2> HIDE DEF Q
  <2>2. d \in [1..n -> Q]
    BY <2>1 DEF Q
  <2> HIDE DEF d
  <2>3. d \in Seq(Q)
    BY <1>1, <2>2, SeqDef
  <2>4. Len(d) = n
    BY <1>1, <2>2, <2>3, LenProperties
  <2> QED
    BY <2>1, <2>3, <2>4 DEF Q
<1> HIDE DEF d
<1>4. /\ e[0] = 0 /\ \A k \in 1..n : e[k] = e[k - 1] + Len(d[k])
      /\ \A k \in 0..n : e[k] \in Nat
  BY <1>3, EndsExist
<1> HIDE DEF e
<1>5. \A k : DepAt(r, k) = 25 + Len(r.name) + e[k - 1]
  BY DEF DepAt, d, e
<1>6. ASSUME NEW k \in 1..n + 1 PROVE DepAt(r, k) \in Nat
  <2>1. k - 1 \in 0..n
    BY <1>1
  <2>2. e[k - 1] \in Nat
    BY <1>4, <2>1
  <2> QED
    BY <1>2, <1>5, <2>2
<1>7. DepAt(r, 1) = 25 + Len(r.name)
  <2>1. DepAt(r, 1) = 25 + Len(r.name) + e[1 - 1] /\ 1 - 1 = 0
    BY <1>5
  <2> QED
    BY <1>2, <1>4, <2>1
<1>8. ASSUME NEW k \in 1..n PROVE DepAt(r, k + 1) = DepAt(r, k) + 4 + Len(r.deps[k])
  <2>1. k - 1 \in 0..n /\ k + 1 - 1 = k /\ k \in 0..n
    BY <1>1
  <2>2. e[k] = e[k - 1] + Len(d[k]) /\ e[k - 1] \in Nat /\ e[k] \in Nat
    BY <1>4, <2>1, Zenon
  <2>3. DepAt(r, k + 1) = 25 + Len(r.name) + e[k] /\ DepAt(r, k) = 25 + Len(r.name) + e[k - 1]
    BY <1>5, <2>1
  <2> DEFINE l == Len(r.deps[k])
             m == Len(d[k])
  <2>4. m = 4 + l /\ l \in Nat
    BY <1>2, <1>3
  <2>5. e[k] = e[k - 1] + m
    BY <2>2
  <2> HIDE DEF l, m
  <2>6. e[k - 1] \in Nat /\ e[k] \in Nat /\ Len(r.name) \in Nat
    BY <1>2, <2>2
  <2>7. DepAt(r, k + 1) = DepAt(r, k) + 4 + l
    <3> DEFINE p == e[k - 1]
               q == e[k]
               L == Len(r.name)
               there == DepAt(r, k + 1)
               here == DepAt(r, k)
    <3>1. p \in Nat /\ q = p + m /\ L \in Nat /\ there = 25 + L + q /\ here = 25 + L + p
      BY <2>3, <2>5, <2>6, Zenon
    <3> HIDE DEF p, q, L, there, here
    <3>2. there = here + 4 + l
      BY <2>4, <3>1
    <3> QED
      BY <3>2 DEF there, here
  <2> QED
    BY <2>7 DEF l
<1> QED
  BY <1>3, <1>6, <1>7, <1>8 DEF d

\* Where the fields of a record lie.
RecordLies(b, o, r) ==
  /\ Lies(b, o, <<1>>)
  /\ Lies(b, o + 1, WriteString(r.name))
  /\ Lies(b, o + SizeAt(r), Bytes(r.size, 8))
  /\ Lies(b, o + TimeAt(r), Bytes(r.time, 8))
  /\ Lies(b, o + CountAt(r), Bytes(Len(r.deps), 4))
  /\ \A k \in 1..Len(r.deps) : Lies(b, o + DepAt(r, k), WriteString(r.deps[k]))

LEMMA RecordWritten ==
  ASSUME IntpWidth = 4, NEW r \in SavedRecord, NEW b \in Seq(Nat), NEW o \in Nat
  PROVE  /\ WriteRecord(r) \in Seq(Nat)
         /\ Len(WriteRecord(r)) = DepAt(r, Len(r.deps) + 1)
         /\ Lies(b, o, WriteRecord(r)) => RecordLies(b, o, r)
<1> DEFINE n == Len(r.deps)
           L == Len(r.name)
           d == DepParts(r)
           x1 == <<1>>
           x2 == WriteString(r.name)
           x3 == Bytes(r.size, 8)
           x4 == Bytes(r.time, 8)
           x5 == Bytes(n, 4)
           x6 == FlattenSeq(d)
           y == x3 \o x4
           z2 == x1 \o x2
           z3 == z2 \o y
           z5 == z3 \o x5
           z6 == z5 \o x6
<1>1. WriteRecord(r) = z6
  BY DEF WriteRecord, WriteFileInfo, DepParts, Int64Width, IntWidth
<1>2. /\ x1 \in Seq(Nat) /\ Len(x1) = 1
      /\ x2 \in Seq(Nat) /\ Len(x2) = 4 + L
      /\ x3 \in Seq(Nat) /\ Len(x3) = 8
      /\ x4 \in Seq(Nat) /\ Len(x4) = 8
      /\ x5 \in Seq(Nat) /\ Len(x5) = 4
      /\ L \in Nat /\ n \in Nat
  <2>1. r.name \in Names /\ r.size \in Short16 /\ r.time \in Short16 /\ n \in Short16 /\ n \in Nat
    BY RecordTyped
  <2>2. x2 \in Seq(Nat) /\ Len(x2) = 4 + L /\ L \in Nat
    BY <2>1, StringWritten, Typed
  <2>3. x3 \in Seq(Nat) /\ Len(x3) = 8 /\ x4 \in Seq(Nat) /\ Len(x4) = 8
    BY <2>1, BytesTyped
  <2>4. x5 \in Seq(Nat) /\ Len(x5) = 4
    BY <2>1, BytesTyped
  <2>5. x1 \in Seq(Nat) /\ Len(x1) = 1
    OBVIOUS
  <2> HIDE DEF x1, x2, x3, x4, x5
  <2> QED
    BY <2>1, <2>2, <2>3, <2>4, <2>5
<1>3. /\ x6 \in Seq(Nat) /\ Len(x6) = Ends(d)[n]
      /\ \A p \in Nat : Lies(b, p, x6) =>
           \A k \in 1..n : Lies(b, p + Ends(d)[k - 1], d[k])
  <2>1. d \in Seq(Seq(Nat)) /\ Len(d) = n
    BY DepsWritten
  <2> HIDE DEF d
  <2>2. ASSUME NEW p \in Nat
        PROVE  /\ x6 \in Seq(Nat) /\ Len(x6) = Ends(d)[Len(d)]
               /\ Lies(b, p, x6) =>
                    \A k \in 1..Len(d) : Lies(b, p + Ends(d)[k - 1], d[k])
    BY <2>1, Flattened
  <2> QED
    BY <2>1, <2>2
<1> HIDE DEF x1, x2, x3, x4, x5, x6, y, z2, z3, z5, z6
<1>4. /\ y \in Seq(Nat) /\ Len(y) = 16
      /\ \A p \in Nat : Lies(b, p, y) => Lies(b, p, x3) /\ Lies(b, p + 8, x4)
  <2>1. ASSUME NEW p \in Nat
        PROVE  /\ x3 \o x4 \in Seq(Nat) /\ Len(x3 \o x4) = Len(x3) + Len(x4)
               /\ Lies(b, p, x3 \o x4) => Lies(b, p, x3) /\ Lies(b, p + Len(x3), x4)
    BY <1>2, PartsLie
  <2>2. 0 \in Nat
    OBVIOUS
  <2> QED
    BY <1>2, <2>1, <2>2 DEF y
<1>5. /\ z2 \in Seq(Nat) /\ Len(z2) = SizeAt(r)
      /\ Lies(b, o, z2) => Lies(b, o, x1) /\ Lies(b, o + 1, x2)
  <2>1. /\ x1 \o x2 \in Seq(Nat) /\ Len(x1 \o x2) = Len(x1) + Len(x2)
        /\ Lies(b, o, x1 \o x2) => Lies(b, o, x1) /\ Lies(b, o + Len(x1), x2)
    BY <1>2, PartsLie
  <2>2. Len(x1) + Len(x2) = SizeAt(r)
    BY <1>2 DEF SizeAt
  <2> QED
    BY <1>2, <2>1, <2>2 DEF z2
<1>6. /\ z3 \in Seq(Nat) /\ Len(z3) = CountAt(r)
      /\ Lies(b, o, z3) => Lies(b, o, z2) /\ Lies(b, o + SizeAt(r), y)
  <2>1. /\ z3 \in Seq(Nat) /\ Len(z3) = Len(z2) + Len(y)
        /\ Lies(b, o, z3) => Lies(b, o, z2) /\ Lies(b, o + Len(z2), y)
    BY <1>4, <1>5, PartsLie DEF z3
  <2> QED
    BY <1>2, <1>4, <1>5, <2>1 DEF SizeAt, CountAt
<1>7. /\ z5 \in Seq(Nat) /\ Len(z5) = 25 + L
      /\ Lies(b, o, z5) => Lies(b, o, z3) /\ Lies(b, o + CountAt(r), x5)
  <2>1. /\ z5 \in Seq(Nat) /\ Len(z5) = Len(z3) + Len(x5)
        /\ Lies(b, o, z5) => Lies(b, o, z3) /\ Lies(b, o + Len(z3), x5)
    BY <1>2, <1>6, PartsLie DEF z5
  <2> QED
    BY <1>2, <1>6, <2>1 DEF CountAt
<1>8. /\ z6 \in Seq(Nat) /\ Len(z6) = 25 + L + Ends(d)[n]
      /\ Lies(b, o, z6) => Lies(b, o, z5) /\ Lies(b, o + (25 + L), x6)
  <2>1. /\ z6 \in Seq(Nat) /\ Len(z6) = Len(z5) + Len(x6)
        /\ Lies(b, o, z6) => Lies(b, o, z5) /\ Lies(b, o + Len(z5), x6)
    BY <1>3, <1>7, PartsLie DEF z6
  <2> QED
    BY <1>3, <1>7, <2>1
<1>9. Len(z6) = DepAt(r, n + 1)
  <2>1. n + 1 - 1 = n
    BY <1>2
  <2> QED
    BY <1>8, <2>1 DEF DepAt
<1>10. ASSUME Lies(b, o, z6) PROVE RecordLies(b, o, r)
  <2>1. /\ Lies(b, o, x1) /\ Lies(b, o + 1, x2) /\ Lies(b, o + SizeAt(r), y)
        /\ Lies(b, o + CountAt(r), x5) /\ Lies(b, o + (25 + L), x6)
    BY <1>5, <1>6, <1>7, <1>8, <1>10
  <2>2. Lies(b, o + SizeAt(r), x3) /\ Lies(b, o + TimeAt(r), x4)
    <3>1. o + SizeAt(r) \in Nat /\ o + SizeAt(r) + 8 = o + TimeAt(r)
      BY <1>2 DEF SizeAt, TimeAt
    <3> HIDE DEF L
    <3> QED
      BY <1>4, <2>1, <3>1
  <2>3. ASSUME NEW k \in 1..n PROVE Lies(b, o + DepAt(r, k), WriteString(r.deps[k]))
    <3>1. o + (25 + L) \in Nat
      BY <1>2
    <3>2. Lies(b, o + (25 + L) + Ends(d)[k - 1], d[k])
      BY <1>3, <2>1, <3>1
    <3>3. Ends(d)[k - 1] \in Nat
      <4>1. d \in Seq(Seq(Nat)) /\ Len(d) = n
        BY DepsWritten
      <4>2. k - 1 \in 0..n
        BY <1>2
      <4>3. \A j \in 0..Len(d) : Ends(d)[j] \in Nat
        BY <4>1, EndsExist
      <4> QED
        BY <4>1, <4>2, <4>3
    <3>4. o + (25 + L) + Ends(d)[k - 1] = o + DepAt(r, k)
      BY <1>2, <3>3 DEF DepAt
    <3>5. d[k] = WriteString(r.deps[k])
      BY DEF DepParts
    <3> QED
      BY <3>2, <3>4, <3>5
  <2> QED
    BY <2>1, <2>2, <2>3 DEF RecordLies, x1, x2, x3, x4, x5
<1> QED
  BY <1>1, <1>8, <1>9, <1>10

RecordParts(records) == [i \in 1..Len(records) |-> WriteRecord(records[i])]

\* The bytes before record i + 1.
Start(records, i) == 4 + Ends(RecordParts(records))[i]

LEMMA SaveableTyped ==
  ASSUME NEW records \in Saveable
  PROVE  /\ Len(records) \in Nat /\ records \in Seq(SavedRecord)
         /\ \A i \in 1..Len(records) : records[i] \in SavedRecord
         /\ \A i, j \in 1..Len(records) : records[i].name = records[j].name => i = j
<1>1. /\ records \in BoundedSeq(SavedRecord, Cardinality(Names))
      /\ \A i, j \in DOMAIN records : i # j => records[i].name # records[j].name
  BY DEF Saveable
<1>2. Cardinality(Names) \in Nat
  BY Typed, FS_CardinalityType
<1>3. PICK m \in 0..Cardinality(Names) : records \in [1..m -> SavedRecord]
  BY <1>1 DEF BoundedSeq, SeqOf
<1>4. m \in Nat
  BY <1>2
<1>5. records \in Seq(SavedRecord)
  BY <1>3, <1>4, SeqDef
<1>6. Len(records) = m /\ DOMAIN records = 1..m
  BY <1>3, <1>4, <1>5, LenProperties
<1> QED
  BY <1>1, <1>3, <1>4, <1>5, <1>6

LEMMA FileWritten ==
  ASSUME IntpWidth = 4, NEW records \in Saveable
  PROVE  LET n == Len(records)
             b == SaveCache(records)
         IN  /\ b \in Seq(Nat) /\ Len(b) = Start(records, n) + 1 /\ b[Len(b)] = 0
             /\ Start(records, 0) = 4 /\ \A i \in 0..n : Start(records, i) \in Nat
             /\ \A i \in 1..n : LET r == records[i]
                                IN  Start(records, i) = Start(records, i - 1) + DepAt(r, Len(r.deps) + 1)
             /\ Lies(b, 0, Bytes(Version, 4))
             /\ \A i \in 1..n : RecordLies(b, Start(records, i - 1), records[i])
<1> DEFINE n == Len(records)
           p == RecordParts(records)
           e == Ends(p)
           x1 == Bytes(Version, 4)
           x2 == FlattenSeq(p)
           x3 == <<0>>
           y == x1 \o x2
           b == y \o x3
<1>1. /\ n \in Nat
      /\ \A i \in 1..n : records[i] \in SavedRecord
  BY SaveableTyped
<1>2. SaveCache(records) = b
  BY DEF SaveCache, RecordParts, IntWidth
<1>3. \A i \in 1..n : /\ WriteRecord(records[i]) \in Seq(Nat)
                      /\ Len(WriteRecord(records[i])) = DepAt(records[i], Len(records[i].deps) + 1)
  <2>1. << >> \in Seq(Nat) /\ 0 \in Nat
    BY EmptySeq
  <2> QED
    BY <1>1, <2>1, RecordWritten
<1>4. p \in Seq(Seq(Nat)) /\ Len(p) = n /\ \A i \in 1..n : p[i] = WriteRecord(records[i])
  <2>1. p \in [1..n -> Seq(Nat)] /\ \A k \in 1..n : p[k] = WriteRecord(records[k])
    BY <1>3 DEF RecordParts
  <2> DEFINE Q == Seq(Nat)
  <2> HIDE DEF Q
  <2>2. p \in [1..n -> Q]
    BY <2>1 DEF Q
  <2> HIDE DEF p
  <2>3. p \in Seq(Q)
    BY <1>1, <2>2, SeqDef
  <2>4. Len(p) = n
    BY <1>1, <2>2, <2>3, LenProperties
  <2> QED
    BY <2>1, <2>3, <2>4 DEF Q
<1> HIDE DEF p
<1>5. /\ e[0] = 0 /\ \A k \in 1..n : e[k] = e[k - 1] + Len(p[k])
      /\ \A k \in 0..n : e[k] \in Nat
  BY <1>4, EndsExist
<1>6. /\ x1 \in Seq(Nat) /\ Len(x1) = 4
  <2>1. Version \in Short16
    BY DEF Version, Short16
  <2> QED
    BY <2>1, BytesTyped
<1>7. x3 \in Seq(Nat) /\ Len(x3) = 1 /\ x3[1] = 0
  OBVIOUS
<1>8. ASSUME NEW c \in Seq(Nat), NEW o \in Nat
      PROVE  /\ x2 \in Seq(Nat) /\ Len(x2) = e[n]
             /\ Lies(c, o, x2) => \A k \in 1..n : Lies(c, o + e[k - 1], p[k])
  BY <1>4, Flattened
<1>9. x2 \in Seq(Nat) /\ Len(x2) = e[n] /\ e[n] \in Nat
  <2>1. << >> \in Seq(Nat) /\ 0 \in Nat
    BY EmptySeq
  <2>2. x2 \in Seq(Nat) /\ Len(x2) = e[n]
    BY <1>8, <2>1
  <2>3. n \in 0..n
    BY <1>1
  <2>4. e[n] \in Nat
    BY <1>5, <2>3
  <2> QED
    BY <2>2, <2>4
<1>10. \A i : Start(records, i) = 4 + e[i]
  BY DEF Start, p
<1> HIDE DEF e, x1, x2, x3, y, b
<1>11. ASSUME NEW c \in Seq(Nat)
       PROVE  /\ y \in Seq(Nat) /\ Len(y) = 4 + e[n]
              /\ Lies(c, 0, y) => Lies(c, 0, x1) /\ Lies(c, 4, x2)
  <2>1. /\ x1 \o x2 \in Seq(Nat) /\ Len(x1 \o x2) = Len(x1) + Len(x2)
        /\ Lies(c, 0, x1 \o x2) => Lies(c, 0, x1) /\ Lies(c, 0 + Len(x1), x2)
    BY <1>6, <1>9, PartsLie
  <2> QED
    BY <1>6, <1>9, <2>1 DEF y
<1>12. y \in Seq(Nat) /\ Len(y) = 4 + e[n]
  BY <1>6, <1>11
<1>13. b \in Seq(Nat) /\ Len(b) = 4 + e[n] + 1
  <2>1. y \o x3 \in Seq(Nat) /\ Len(y \o x3) = Len(y) + Len(x3)
    BY <1>7, <1>12, ConcatProperties
  <2> QED
    BY <1>7, <1>9, <1>12, <2>1 DEF b
<1>14. Lies(b, 0, b)
  BY <1>9, <1>13 DEF Lies
<1>15. Lies(b, 0, y) /\ Lies(b, 4 + e[n], x3)
  <2>1. Lies(b, 0, y \o x3) => Lies(b, 0, y) /\ Lies(b, 0 + Len(y), x3)
    BY <1>7, <1>12, <1>13, PartsLie
  <2> QED
    BY <1>9, <1>12, <1>14, <2>1 DEF b
<1>16. b[Len(b)] = 0
  BY <1>7, <1>9, <1>13, <1>15 DEF Lies
<1>17. Lies(b, 0, x1) /\ \A k \in 1..n : Lies(b, 4 + e[k - 1], p[k])
  BY <1>8, <1>11, <1>13, <1>15
<1>18. ASSUME NEW i \in 1..n
       PROVE  RecordLies(b, Start(records, i - 1), records[i])
  <2>1. i - 1 \in 0..n
    BY <1>1
  <2>2. Start(records, i - 1) = 4 + e[i - 1] /\ Start(records, i - 1) \in Nat
    BY <1>5, <1>10, <2>1
  <2>3. Lies(b, Start(records, i - 1), WriteRecord(records[i]))
    BY <1>4, <1>17, <2>2
  <2> QED
    BY <1>1, <1>13, <2>2, <2>3, RecordWritten
<1>19. ASSUME NEW i \in 1..n
       PROVE  Start(records, i)
                = Start(records, i - 1) + DepAt(records[i], Len(records[i].deps) + 1)
  <2> DEFINE w == Len(p[i])
             before == e[i - 1]
  <2>1. w = DepAt(records[i], Len(records[i].deps) + 1) /\ e[i] = before + w
    BY <1>3, <1>4, <1>5
  <2>2. before \in Nat /\ e[i] \in Nat
    <3>1. i - 1 \in 0..n /\ i \in 0..n
      BY <1>1
    <3> QED
      BY <1>5, <3>1
  <2>3. w \in Nat
    BY <1>3, <1>4, LenProperties
  <2>4. Start(records, i) = 4 + e[i] /\ Start(records, i - 1) = 4 + before
    BY <1>10
  <2> HIDE DEF w, before
  <2> QED
    BY <2>1, <2>2, <2>3, <2>4
<1>20. /\ Start(records, 0) = 4 /\ Start(records, n) = 4 + e[n]
       /\ \A i \in 0..n : Start(records, i) \in Nat
  BY <1>5, <1>10
<1> QED
  BY <1>2, <1>9, <1>13, <1>16, <1>17, <1>18, <1>19, <1>20 DEF x1

-----------------------------------------------------------------------------
(***************************************************************************)
(* Reading: the file is what was written, or the beginning of it.          *)
(***************************************************************************)
IsPart(b) ==
  /\ file \in Seq(Nat) /\ Len(file) \in Nat /\ Len(file) <= Len(b)
  /\ \A k \in 1..Len(file) : file[k] = b[k]

LEMMA PartRead ==
  ASSUME NEW b \in Seq(Nat), IsPart(b), NEW o \in Nat, NEW s \in Seq(Nat),
         Lies(b, o, s), o + Len(s) <= Len(file)
  PROVE  SubSeq(file, o + 1, o + Len(s)) = s
<1> DEFINE l == Len(s)
           t == SubSeq(file, o + 1, o + l)
<1>1. l \in Nat /\ Len(file) \in Nat
  BY LenProperties DEF IsPart
<1>2. ASSUME NEW k \in 1..l
      PROVE  file[o + k] = s[k] /\ file[o + k] \in Nat
  <2>1. o + k \in 1..Len(file)
    BY <1>1
  <2> QED
    BY <1>1, <2>1, ElementOfSeq DEF IsPart, Lies
<1>3. \A i \in o + 1..o + l : file[i] \in Nat
  <2>1. \A i \in o + 1..o + l : i \in 1..Len(file)
    BY <1>1
  <2> QED
    BY <2>1, ElementOfSeq DEF IsPart
<1>4. /\ t \in Seq(Nat)
      /\ Len(t) = IF o + 1 <= o + l THEN o + l - (o + 1) + 1 ELSE 0
      /\ \A i \in 1..o + l - (o + 1) + 1 : t[i] = file[o + 1 + i - 1]
  BY <1>1, <1>3, SubSeqProperties
<1>5. Len(t) = l /\ \A i \in 1..l : t[i] = file[o + i]
  <2>1. o + l - (o + 1) + 1 = l /\ \A i \in 1..l : o + 1 + i - 1 = o + i
    BY <1>1
  <2> HIDE DEF t
  <2> QED
    BY <1>1, <1>4, <2>1
<1> HIDE DEF t
<1>6. t = s
  BY <1>2, <1>4, <1>5, SeqEqual
<1> QED
  BY <1>6 DEF t

\* A name is not cut at a zero byte, having none.
LEMMA NameIsCString ==
  ASSUME NEW s \in Seq(Nat), \A k \in 1..Len(s) : s[k] # 0
  PROVE  ToCString(s) = s
BY DEF ToCString, CString, SelectInSeq

\* A number of two bytes that was written with four is read again.
LEMMA IntRead ==
  ASSUME NEW b \in Seq(Nat), IsPart(b), NEW o \in Nat, NEW n \in Short16,
         Lies(b, o, Bytes(n, 4)), o + 4 <= Len(file), pos = o + 1
  PROVE  ReadInt = n
<1> DEFINE s == Bytes(n, 4)
<1>1. /\ s[1] = n % 256 /\ s[2] = n \div 256 /\ s[3] = 0 /\ s[4] = 0
  BY DEF Bytes
<1>2. Len(s) = 4
  BY BytesTyped
<1> HIDE DEF s
<1>3. /\ file[o + 1] = s[1] /\ file[o + 2] = s[2] /\ file[o + 3] = s[3] /\ file[o + 4] = s[4]
  <2>1. Len(file) \in Nat
    BY DEF IsPart
  <2>2. \A k \in 1..4 : o + k \in 1..Len(file) /\ b[o + k] = s[k]
    <3>1. \A k \in 1..Len(s) : b[o + k] = s[k]
      BY DEF Lies, s
    <3>2. \A k \in 1..4 : o + k \in 1..Len(file)
      BY <2>1
    <3> QED
      BY <1>2, <3>1, <3>2, Zenon
  <2>3. \A k \in 1..4 : file[o + k] = s[k]
    BY <2>2 DEF IsPart
  <2> QED
    BY <2>3
<1>4. pos = o + 1 /\ pos + 1 = o + 2 /\ pos + 2 = o + 3 /\ pos + 3 = o + 4
  OBVIOUS
<1>5. ReadInt = (n % 256) + 256 * (n \div 256)
  BY <1>1, <1>3, <1>4 DEF ReadInt
<1>6. n \in Nat
  BY DEF Short16
<1> QED
  BY <1>5, <1>6

\* A name is read as it was written, or it is cut off and the file ends.
LEMMA StringRead ==
  ASSUME IntpWidth = 4, NEW b \in Seq(Nat), IsPart(b), NEW o \in Nat, NEW name \in Names,
         Lies(b, o, WriteString(name)), pos = o + 1
  PROVE  /\ o + 4 + Len(name) <= Len(file) =>
              ReadString = [name |-> name, next |-> o + 4 + Len(name) + 1]
         /\ ~(o + 4 + Len(name) <= Len(file)) =>
              ReadString = [name |-> << >>, next |-> EndOfFile]
<1> DEFINE l == Len(name)
<1>1. /\ name \in Seq(Nat) /\ l \in Short16 /\ l \in Nat /\ \A k \in 1..l : name[k] # 0
      /\ Len(file) \in Nat
  BY Typed DEF IsPart
<1>2. Lies(b, o, Bytes(l, 4)) /\ Lies(b, o + 4, name)
  BY StringWritten
<1>3. Available(4) <=> o + 4 <= Len(file)
  BY <1>1 DEF Available
<1>4. o + 4 <= Len(file) => ReadInt = l
  BY <1>1, <1>2, IntRead
<1>5. ASSUME o + 4 + l <= Len(file)
      PROVE  ReadString = [name |-> name, next |-> o + 4 + l + 1]
  <2>1. o + 4 <= Len(file) /\ Available(4) /\ ReadInt = l
    BY <1>1, <1>3, <1>4, <1>5
  <2>2. Available(4 + l)
    BY <1>1, <1>5 DEF Available
  <2>3. SubSeq(file, o + 4 + 1, o + 4 + l) = name
    BY <1>1, <1>2, <1>5, PartRead
  <2>4. pos + 4 = o + 4 + 1 /\ o + 4 + 1 + l - 1 = o + 4 + l /\ o + 4 + 1 + l = o + 4 + l + 1
    BY <1>1
  <2>5. ToCString(name) = name
    BY <1>1, NameIsCString
  <2>6. ReadString = [name |-> ToCString(SubSeq(file, o + 4 + 1, o + 4 + 1 + l - 1)),
                      next |-> o + 4 + 1 + l]
    BY <2>1, <2>2, <2>4 DEF ReadString, IntWidth
  <2> QED
    BY <2>3, <2>4, <2>5, <2>6
<1>6. ASSUME ~(o + 4 + l <= Len(file))
      PROVE  ReadString = [name |-> << >>, next |-> EndOfFile]
  <2>1. CASE ~Available(4)
    BY <2>1 DEF ReadString, IntWidth
  <2>2. CASE Available(4)
    <3>1. ReadInt = l /\ ~Available(4 + l)
      BY <1>1, <1>3, <1>4, <1>6, <2>2 DEF Available
    <3> QED
      BY <2>2, <3>1 DEF ReadString, IntWidth
  <2> QED
    BY <2>1, <2>2
<1> QED
  BY <1>5, <1>6

\* Nothing is left to read.
LEMMA NothingRead ==
  ASSUME Len(file) \in Nat, pos = EndOfFile
  PROVE  /\ \A width \in Nat \ {0} : ~Available(width)
         /\ ReadString = [name |-> << >>, next |-> EndOfFile]
<1>1. \A width \in Nat \ {0} : ~Available(width)
  BY DEF Available, EndOfFile
<1> QED
  BY <1>1 DEF ReadString, IntWidth

-----------------------------------------------------------------------------
(***************************************************************************)
(* The table after the first n records, and while the one after them is    *)
(* read.                                                                   *)
(***************************************************************************)
LoadedIn(t, r) == r.name \in DOMAIN t /\ t[r.name] = EntryOf(r)

\* The first n records are there, with the names of their dependencies.
Base(t, n) ==
  /\ n \in 0..Len(saved)
  /\ \A i \in 1..n : /\ LoadedIn(t, saved[i])
                     /\ \A k \in 1..Len(saved[i].deps) : saved[i].deps[k] \in DOMAIN t

\* Whatever else is there is the bare name of a file.
Sound(t, n, but) ==
  \A name \in DOMAIN t \ but :
    \/ \E i \in 1..n : saved[i].name = name
    \/ t[name] = NewEntry /\ name \in NamesIn(saved)

\* u is t with the entry of c changed and an entry for child.
Grown(t, u, c, child) ==
  /\ DOMAIN u = DOMAIN t \cup {child}
  /\ \A name \in DOMAIN t : name # c => u[name] = t[name]
  /\ child \notin DOMAIN t /\ child # c => u[child] = NewEntry

\* No record of the first n has the name c.
NotYet(c, n) == \A i \in 1..n : saved[i].name # c

LEMMA NamesSaved ==
  ASSUME saved \in Saveable, NEW i \in 1..Len(saved)
  PROVE  /\ saved[i].name \in NamesIn(saved) /\ saved[i].name \in Names
         /\ \A k \in 1..Len(saved[i].deps) : /\ saved[i].deps[k] \in NamesIn(saved)
                                             /\ saved[i].deps[k] \in Names
<1>1. saved \in Seq(SavedRecord) /\ saved[i] \in SavedRecord
  BY SaveableTyped
<1>2. DOMAIN saved = 1..Len(saved)
  BY <1>1
<1>3. saved[i].name \in Names /\ saved[i].deps \in Seq(Names)
  BY <1>1, RecordTyped
<1>4. saved[i].name \in NamesIn(saved)
  BY <1>2 DEF NamesIn
<1>5. ASSUME NEW k \in 1..Len(saved[i].deps)
      PROVE  saved[i].deps[k] \in NamesIn(saved) /\ saved[i].deps[k] \in Names
  <2>1. saved[i].deps[k] \in Names /\ k \in DOMAIN saved[i].deps
    BY <1>3, ElementOfSeq
  <2>2. saved[i].deps[k] \in ToSet(saved[i].deps)
    BY <2>1 DEF ToSet
  <2> QED
    BY <1>2, <2>1, <2>2 DEF NamesIn
<1> QED
  BY <1>3, <1>4, <1>5

LEMMA NamesInNames ==
  ASSUME saved \in Saveable
  PROVE  /\ NamesIn(saved) \subseteq Names /\ << >> \notin Names
         /\ \A name \in NamesIn(saved) : \E i \in 1..Len(saved) :
              \/ name = saved[i].name
              \/ \E k \in 1..Len(saved[i].deps) : name = saved[i].deps[k]
<1>1. saved \in Seq(SavedRecord)
  BY SaveableTyped
<1>2. DOMAIN saved = 1..Len(saved)
  BY <1>1
<1>3. ASSUME NEW name \in NamesIn(saved)
      PROVE  \E i \in 1..Len(saved) :
               \/ name = saved[i].name
               \/ \E k \in 1..Len(saved[i].deps) : name = saved[i].deps[k]
  <2>1. CASE \E i \in 1..Len(saved) : name = saved[i].name
    BY <2>1
  <2>2. CASE \E i \in 1..Len(saved) : name \in ToSet(saved[i].deps)
    <3>1. PICK i \in 1..Len(saved) : name \in ToSet(saved[i].deps)
      BY <2>2
    <3>2. saved[i].deps \in Seq(Names)
      BY SaveableTyped, RecordTyped
    <3>3. DOMAIN saved[i].deps = 1..Len(saved[i].deps)
      BY <3>2
    <3> QED
      BY <3>1, <3>3 DEF ToSet
  <2> QED
    BY <1>2, <2>1, <2>2 DEF NamesIn
<1>4. NamesIn(saved) \subseteq Names
  BY <1>3, NamesSaved
<1> QED
  BY <1>3, <1>4, Typed

LEMMA TableGrown ==
  ASSUME saved \in Saveable, NEW t, NEW u, NEW n, NEW c, NEW child, NEW but,
         Base(t, n), Sound(t, n, but), NotYet(c, n), Grown(t, u, c, child),
         c \in but, child \in but \/ child \in NamesIn(saved)
  PROVE  Base(u, n) /\ Sound(u, n, but)
<1>1. \A i \in 1..n : saved[i].name \in DOMAIN t /\ saved[i].name # c
  BY DEF Base, LoadedIn, NotYet
<1>2. \A i \in 1..n : LoadedIn(u, saved[i])
  BY <1>1 DEF Base, LoadedIn, Grown
<1>3. Base(u, n)
  BY <1>2 DEF Base, Grown
<1>4. ASSUME NEW name \in DOMAIN u \ but
      PROVE  \/ \E i \in 1..n : saved[i].name = name
             \/ u[name] = NewEntry /\ name \in NamesIn(saved)
  <2>1. CASE name \in DOMAIN t
    <3>1. name # c
      BY <1>4
    <3>2. u[name] = t[name]
      BY <2>1, <3>1 DEF Grown
    <3> QED
      BY <1>4, <2>1, <3>2 DEF Sound
  <2>2. CASE name \notin DOMAIN t
    <3>1. name = child /\ name # c
      BY <1>4, <2>2 DEF Grown
    <3> QED
      BY <1>4, <2>2, <3>1 DEF Grown
  <2> QED
    BY <2>1, <2>2
<1> QED
  BY <1>3, <1>4 DEF Sound

\* The name of a record is no name of a record before it.
LEMMA NextIsNew ==
  ASSUME saved \in Saveable, NEW n \in 0..Len(saved), n < Len(saved)
  PROVE  /\ n + 1 \in 1..Len(saved) /\ NotYet(saved[n + 1].name, n) /\ NotYet(<< >>, n)
         /\ saved[n + 1] \in SavedRecord /\ saved[n + 1].name \in NamesIn(saved)
         /\ saved[n + 1].name # << >>
<1>1. Len(saved) \in Nat /\ n + 1 \in 1..Len(saved) /\ \A i \in 1..n : i \in 1..Len(saved) /\ i # n + 1
  BY SaveableTyped
<1>2. NotYet(saved[n + 1].name, n)
  BY <1>1, SaveableTyped DEF NotYet
<1>3. \A i \in 1..Len(saved) : saved[i].name \in Names /\ saved[i].name \in NamesIn(saved)
  BY NamesSaved
<1>4. NotYet(<< >>, n)
  BY <1>1, <1>3, NamesInNames DEF NotYet
<1>5. saved[n + 1] \in SavedRecord
  BY <1>1, SaveableTyped
<1> QED
  BY <1>1, <1>2, <1>3, <1>4, <1>5, NamesInNames

\* A record that is there completes the table.
LEMMA RecordComplete ==
  ASSUME saved \in Saveable, NEW t, NEW n \in 0..Len(saved), n < Len(saved), Base(t, n),
         Sound(t, n, {saved[n + 1].name}), LoadedIn(t, saved[n + 1]),
         \A k \in 1..Len(saved[n + 1].deps) : saved[n + 1].deps[k] \in DOMAIN t
  PROVE  Base(t, n + 1) /\ Sound(t, n + 1, {})
<1>1. /\ Len(saved) \in Nat /\ n \in Nat /\ n + 1 \in 1..n + 1 /\ n + 1 \in 0..Len(saved)
      /\ \A i \in 1..n + 1 : i = n + 1 \/ i \in 1..n
      /\ \A i \in 1..n : i \in 1..n + 1
  BY SaveableTyped
<1>2. Base(t, n + 1)
  BY <1>1 DEF Base
<1>3. Sound(t, n + 1, {})
  <2> SUFFICES ASSUME NEW name \in DOMAIN t
               PROVE  \/ \E i \in 1..n + 1 : saved[i].name = name
                      \/ t[name] = NewEntry /\ name \in NamesIn(saved)
    BY DEF Sound
  <2>1. CASE name = saved[n + 1].name
    BY <1>1, <2>1
  <2>2. CASE name # saved[n + 1].name
    <3>1. \/ \E i \in 1..n : saved[i].name = name
          \/ t[name] = NewEntry /\ name \in NamesIn(saved)
      BY <2>2 DEF Sound
    <3> QED
      BY <1>1, <3>1
  <2> QED
    BY <2>1, <2>2
<1> QED
  BY <1>2, <1>3

-----------------------------------------------------------------------------
(***************************************************************************)
(* The inductive invariant: n records are complete, and the field that is  *)
(* read next belongs to the one after them and lies where pos says, or the *)
(* file has ended in that record.                                          *)
(***************************************************************************)
CutOff == Len(file) < Len(SaveCache(saved))

Between(n, p, t) == Base(t, n) /\ Sound(t, n, {}) /\ p = Start(saved, n) + 1

\* The next byte is the one behind the first `at` bytes of the record.
Halfway(n, at, entry, p, t, c) ==
  /\ n < Len(saved) /\ Base(t, n) /\ Sound(t, n, {saved[n + 1].name})
  /\ c = saved[n + 1].name /\ c \in DOMAIN t /\ t[c] = entry
  /\ p = Start(saved, n) + at + 1

Torn(n, p, t) ==
  /\ n < Len(saved) /\ CutOff /\ p = EndOfFile
  /\ Base(t, n) /\ Sound(t, n, {saved[n + 1].name, << >>})

\* Only names of the record, in order, or none at all.
TornDone(n, p, t) ==
  LET r == saved[n + 1]
  IN  /\ Torn(n, p, t)
      /\ r.name \in DOMAIN t =>
           \A k \in DOMAIN t[r.name].deps : t[r.name].deps[k] \in {r.deps[k], << >>}

SizeRead(r) == [size |-> Bytes(r.size, 8), time |-> FromDisk, deps |-> << >>]
DepsRead(r, list) == [size |-> Bytes(r.size, 8), time |-> Bytes(r.time, 8), deps |-> list]

\* The name of the record is cut off.
TornAtName(n, p, t, c) ==
  /\ n < Len(saved) /\ CutOff /\ p = EndOfFile
  /\ Base(t, n) /\ Sound(t, n, {<< >>})
  /\ c = << >> /\ c \in DOMAIN t /\ t[c] = NewEntry

AtDependency(n, p, t, c, l) ==
  LET r == saved[n + 1]
  IN  \E list \in Seq(Names) :
        /\ l \in Nat /\ Len(list) + l = Len(r.deps)
        /\ \A k \in 1..Len(list) : list[k] = r.deps[k] /\ r.deps[k] \in DOMAIN t
        /\ Halfway(n, DepAt(r, Len(list) + 1), DepsRead(r, list), p, t, c)

TornAtDependency(n, p, t, c, l) ==
  LET r == saved[n + 1]
  IN  \E list \in Seq(Names \cup {<< >>}) :
        /\ l \in Nat /\ Len(list) + l = Len(r.deps)
        /\ \A k \in 1..Len(list) : list[k] \in {r.deps[k], << >>}
        /\ Torn(n, p, t)
        /\ c = r.name /\ c \in DOMAIN t /\ t[c] = DepsRead(r, list)

ToRead(n, f, p, t, c, l) ==
  LET r == saved[n + 1]
  IN  \/ f = "version" /\ n = 0 /\ p = 1 /\ Base(t, n) /\ Sound(t, n, {})
      \/ f = "more" /\ (Between(n, p, t) \/ TornDone(n, p, t))
      \/ f = "name" /\ n < Len(saved) /\ Base(t, n) /\ Sound(t, n, {}) /\ p = Start(saved, n) + 2
      \/ f = "size" /\ (Halfway(n, SizeAt(r), NewEntry, p, t, c) \/ TornAtName(n, p, t, c))
      \/ f = "time" /\ Halfway(n, TimeAt(r), SizeRead(r), p, t, c)
      \/ f = "count" /\ Halfway(n, CountAt(r), DepsRead(r, << >>), p, t, c)
      \/ f = "deps" /\ (AtDependency(n, p, t, c, l) \/ TornAtDependency(n, p, t, c, l))
      \/ f = "done" /\ (TornDone(n, p, t) \/ (n = Len(saved) /\ Base(t, n) /\ Sound(t, n, {})))
      \/ f = "failed" /\ CutOff

FormatInv ==
  /\ saved \in Saveable /\ IsPart(SaveCache(saved))
  /\ \E n \in 0..Len(saved) : ToRead(n, field, pos, table, current, left)

Reading == IntpWidth = 4 /\ saved \in Saveable /\ IsPart(SaveCache(saved))

\* Where the record after the first n lies.
LEMMA RecordPlaced ==
  ASSUME Reading, NEW n \in 0..Len(saved), n < Len(saved)
  PROVE  LET r == saved[n + 1]
             b == SaveCache(saved)
             o == Start(saved, n)
         IN  /\ r \in SavedRecord /\ b \in Seq(Nat) /\ Len(b) \in Nat /\ o \in Nat
             /\ Len(file) \in Nat /\ Len(r.name) \in Nat /\ n \in Nat /\ n + 1 \in 1..Len(saved)
             /\ RecordLies(b, o, r)
             /\ Start(saved, n + 1) = o + DepAt(r, Len(r.deps) + 1)
<1> DEFINE b == SaveCache(saved)
<1>1. IntpWidth = 4 /\ saved \in Saveable /\ Len(file) \in Nat
  BY DEF Reading, IsPart
<1>2. Len(saved) \in Nat /\ n \in Nat /\ n + 1 \in 1..Len(saved) /\ n + 1 - 1 = n
  BY <1>1, SaveableTyped
<1>3. saved[n + 1] \in SavedRecord
  BY <1>1, <1>2, SaveableTyped
<1>4. /\ b \in Seq(Nat) /\ \A i \in 0..Len(saved) : Start(saved, i) \in Nat
      /\ \A i \in 1..Len(saved) :
           Start(saved, i) = Start(saved, i - 1) + DepAt(saved[i], Len(saved[i].deps) + 1)
      /\ \A i \in 1..Len(saved) : RecordLies(b, Start(saved, i - 1), saved[i])
  BY <1>1, FileWritten
<1>5. /\ Start(saved, n + 1) = Start(saved, n) + DepAt(saved[n + 1], Len(saved[n + 1].deps) + 1)
      /\ RecordLies(b, Start(saved, n), saved[n + 1])
  <2> SUFFICES ASSUME NEW j \in 1..Len(saved), j = n + 1
               PROVE  /\ Start(saved, j) = Start(saved, n) + DepAt(saved[j], Len(saved[j].deps) + 1)
                      /\ RecordLies(b, Start(saved, n), saved[j])
    BY <1>2
  <2>1. j - 1 = n
    BY <1>2
  <2> QED
    BY <1>4, <2>1
<1>6. Len(b) \in Nat
  BY <1>4, LenProperties
<1>7. Len(saved[n + 1].name) \in Nat
  BY <1>3, RecordTyped, Typed
<1> QED
  BY <1>1, <1>2, <1>3, <1>4, <1>5, <1>6, <1>7

\* The version is read, or the file ends in it.
LEMMA VersionKept ==
  ASSUME Reading, NEW n \in 0..Len(saved),
         ToRead(n, field, pos, table, current, left), ReadVersion
  PROVE  ToRead(n, field', pos', table', current', left')
<1> DEFINE b == SaveCache(saved)
<1>1. IntpWidth = 4 /\ saved \in Saveable /\ IsPart(b) /\ Len(file) \in Nat
  BY DEF Reading, IsPart
<1>2. n = 0 /\ pos = 1 /\ Base(table, n) /\ Sound(table, n, {}) /\ table' = table
  BY DEF ToRead, ReadVersion
<1>3. Lies(b, 0, Bytes(Version, 4)) /\ Start(saved, 0) = 4 /\ b \in Seq(Nat)
  BY <1>1, FileWritten
<1>4. Version \in Short16 /\ 0 \in Nat /\ pos = 0 + 1
  BY <1>2 DEF Version, Short16
<1>5. Available(4) <=> 4 <= Len(file)
  BY <1>1, <1>2 DEF Available
<1>6. CASE 4 <= Len(file)
  <2>1. ReadInt = Version
    BY <1>1, <1>3, <1>4, <1>6, IntRead
  <2>2. field' = "more" /\ pos' = 5
    BY <1>2, <1>5, <1>6, <2>1 DEF ReadVersion, NextField, IntWidth
  <2> QED
    BY <1>2, <1>3, <2>2 DEF ToRead, Between
<1>7. CASE ~(4 <= Len(file))
  <2>1. field' = "failed"
    BY <1>5, <1>7 DEF ReadVersion, Stop, IntWidth
  <2>2. 4 <= Len(b)
    <3> DEFINE v == Bytes(Version, 4)
    <3>1. Len(v) = 4
      BY <1>4, BytesTyped
    <3>2. 0 + Len(v) <= Len(b)
      BY <1>3 DEF Lies
    <3> HIDE DEF v
    <3> QED
      BY <3>1, <3>2
  <2>3. CutOff
    <3>1. Len(b) \in Nat
      BY <1>3, LenProperties
    <3> QED
      BY <1>1, <1>7, <2>2, <3>1 DEF CutOff
  <2> QED
    BY <2>1, <2>3 DEF ToRead
<1> QED
  BY <1>6, <1>7

\* The mark of the next record is read, or that of the end, or the file ends.
LEMMA MoreKept ==
  ASSUME Reading, NEW n \in 0..Len(saved),
         ToRead(n, field, pos, table, current, left), ReadMore
  PROVE  ToRead(n, field', pos', table', current', left')
<1> DEFINE b == SaveCache(saved)
           o == Start(saved, n)
<1>1. /\ IntpWidth = 4 /\ saved \in Saveable /\ Len(file) \in Nat /\ Len(file) <= Len(b)
      /\ \A k \in 1..Len(file) : file[k] = b[k]
  BY DEF Reading, IsPart
<1>2. table' = table /\ (Between(n, pos, table) \/ TornDone(n, pos, table))
  BY DEF ToRead, ReadMore
<1>3. IF Available(1) /\ file[pos] # 0
      THEN field' = "name" /\ pos' = pos + 1
      ELSE field' = "done" /\ pos' = EndOfFile
  BY DEF ReadMore, NextField, Stop
<1>4. CASE TornDone(n, pos, table)
  <2>1. pos = EndOfFile
    BY <1>4 DEF TornDone, Torn
  <2>2. ~Available(1)
    BY <1>1, <2>1, NothingRead
  <2> QED
    BY <1>2, <1>3, <1>4, <2>1, <2>2 DEF ToRead
<1>5. CASE Between(n, pos, table)
  <2>1. Base(table, n) /\ Sound(table, n, {}) /\ pos = o + 1
    BY <1>5 DEF Between
  <2>2. CASE n = Len(saved)
    <3>1. b[Len(b)] = 0 /\ Len(b) = o + 1 /\ o \in Nat
      BY <1>1, <2>2, FileWritten
    <3>2. ~(Available(1) /\ file[pos] # 0)
      <4> SUFFICES ASSUME Available(1) PROVE file[pos] = 0
        OBVIOUS
      <4>1. pos <= Len(file) /\ pos = Len(b) /\ pos \in 1..Len(file)
        BY <1>1, <2>1, <3>1 DEF Available
      <4> QED
        BY <1>1, <3>1, <4>1
    <3> QED
      BY <1>2, <1>3, <2>1, <2>2, <3>2 DEF ToRead
  <2>3. CASE n # Len(saved)
    <3>1. Len(saved) \in Nat /\ n < Len(saved)
      BY <1>1, <2>3, SaveableTyped
    <3>2. RecordLies(b, o, saved[n + 1]) /\ o \in Nat /\ Len(b) \in Nat
      BY <3>1, RecordPlaced
    <3>3. o + 1 <= Len(b) /\ b[o + 1] = 1
      BY <3>2 DEF RecordLies, Lies
    <3>4. CASE Available(1)
      <4>1. pos \in 1..Len(file)
        BY <1>1, <2>1, <3>2, <3>4 DEF Available
      <4>2. file[pos] = 1
        BY <1>1, <2>1, <3>3, <4>1
      <4>3. field' = "name" /\ pos' = o + 2
        BY <1>3, <2>1, <3>2, <3>4, <4>2
      <4> QED
        BY <1>2, <2>1, <3>1, <4>3 DEF ToRead
    <3>5. CASE ~Available(1)
      <4>1. field' = "done" /\ pos' = EndOfFile
        BY <1>3, <3>5
      <4>2. CutOff
        BY <1>1, <2>1, <3>2, <3>3, <3>5 DEF Available, CutOff
      <4>3. Sound(table, n, {saved[n + 1].name, << >>})
        BY <2>1 DEF Sound
      <4>4. saved[n + 1].name \in DOMAIN table => table[saved[n + 1].name] = NewEntry
        BY <1>1, <2>1, <3>1, NextIsNew DEF Sound, NotYet
      <4>5. TornDone(n, pos', table')
        BY <1>2, <2>1, <3>1, <4>1, <4>2, <4>3, <4>4 DEF TornDone, Torn, NewEntry
      <4> QED
        BY <4>1, <4>5 DEF ToRead
    <3> QED
      BY <3>4, <3>5
  <2> QED
    BY <2>2, <2>3
<1> QED
  BY <1>2, <1>4, <1>5

\* The name is read, or cut off.
LEMMA NameKept ==
  ASSUME Reading, NEW n \in 0..Len(saved),
         ToRead(n, field, pos, table, current, left), ReadName
  PROVE  ToRead(n, field', pos', table', current', left')
<1> DEFINE b == SaveCache(saved)
           o == Start(saved, n)
           r == saved[n + 1]
<1>1. /\ IntpWidth = 4 /\ saved \in Saveable /\ Len(file) \in Nat /\ Len(file) <= Len(b)
      /\ IsPart(b)
  BY DEF Reading, IsPart
<1>2. n < Len(saved) /\ Base(table, n) /\ Sound(table, n, {}) /\ pos = o + 2
  BY DEF ToRead, ReadName
<1>3. /\ RecordLies(b, o, r) /\ o \in Nat /\ Len(b) \in Nat /\ b \in Seq(Nat)
      /\ Len(r.name) \in Nat
  BY <1>2, RecordPlaced
<1>4. Lies(b, o + 1, WriteString(r.name)) /\ r.name \in Names
  <2>1. r \in SavedRecord
    BY <1>2, RecordPlaced
  <2> QED
    BY <1>3, <2>1, RecordTyped DEF RecordLies
<1>5. /\ o + 1 \in Nat /\ pos = o + 1 + 1
  BY <1>2, <1>3
<1>6. /\ o + 1 + 4 + Len(r.name) <= Len(file) =>
           ReadString = [name |-> r.name, next |-> o + 1 + 4 + Len(r.name) + 1]
      /\ ~(o + 1 + 4 + Len(r.name) <= Len(file)) =>
           ReadString = [name |-> << >>, next |-> EndOfFile]
  BY <1>1, <1>3, <1>4, <1>5, StringRead
<1>7. NotYet(r.name, n) /\ NotYet(<< >>, n) /\ r.name \in NamesIn(saved) /\ r.name # << >>
  BY <1>1, <1>2, NextIsNew
<1>8. /\ r.name \in DOMAIN table => table[r.name] = NewEntry
      /\ << >> \notin DOMAIN table
  <2>1. << >> \notin NamesIn(saved)
    BY <1>1, NamesInNames
  <2> QED
    BY <1>2, <1>7, <2>1 DEF Sound, NotYet
<1>9. ASSUME NEW c, c = r.name \/ c = << >>
      PROVE  LET u == FindOrCreate(table, c)
             IN  /\ Grown(table, u, c, c) /\ c \in DOMAIN u /\ u[c] = NewEntry
                 /\ Base(u, n) /\ Sound(u, n, {c})
  <2> DEFINE u == FindOrCreate(table, c)
  <2>1. Grown(table, u, c, c) /\ c \in DOMAIN u /\ u[c] = NewEntry
    BY <1>8, <1>9 DEF FindOrCreate, Grown
  <2>2. Sound(table, n, {c}) /\ NotYet(c, n)
    BY <1>2, <1>7, <1>9 DEF Sound
  <2> HIDE DEF u
  <2>3. Base(u, n) /\ Sound(u, n, {c})
    BY <1>1, <1>2, <2>1, <2>2, TableGrown
  <2> QED
    BY <2>1, <2>3 DEF u
<1>10. /\ current' = ReadString.name /\ table' = FindOrCreate(table, ReadString.name)
       /\ pos' = ReadString.next
       /\ field' = IF table'[current'].deps # << >> THEN "error" ELSE "size"
  BY DEF ReadName
<1>11. CASE o + 1 + 4 + Len(r.name) <= Len(file)
  <2>1. current' = r.name /\ table' = FindOrCreate(table, r.name) /\ pos' = o + 1 + 4 + Len(r.name) + 1
    BY <1>6, <1>10, <1>11
  <2>2. table'[current'] = NewEntry /\ r.name \in DOMAIN table' /\ Base(table', n)
        /\ Sound(table', n, {r.name})
    BY <1>9, <2>1
  <2>3. field' = "size"
    BY <1>10, <2>2 DEF NewEntry
  <2>4. pos' = o + SizeAt(r) + 1
    <3> DEFINE l == Len(r.name)
    <3>1. SizeAt(r) = 5 + l /\ o \in Nat /\ l \in Nat /\ pos' = o + 1 + 4 + l + 1
      BY <1>3, <2>1 DEF SizeAt
    <3> HIDE DEF o, l
    <3>2. pos' = o + (5 + l) + 1
      BY <3>1
    <3> QED
      BY <3>1, <3>2, Zenon
  <2> QED
    BY <1>2, <2>1, <2>2, <2>3, <2>4 DEF ToRead, Halfway
<1>12. CASE ~(o + 1 + 4 + Len(r.name) <= Len(file))
  <2>1. current' = << >> /\ table' = FindOrCreate(table, << >>) /\ pos' = EndOfFile
    BY <1>6, <1>10, <1>12
  <2>2. table'[current'] = NewEntry /\ << >> \in DOMAIN table' /\ Base(table', n)
        /\ Sound(table', n, {<< >>})
    BY <1>9, <2>1
  <2>3. field' = "size"
    BY <1>10, <2>2 DEF NewEntry
  <2>4. CutOff
    <3>1. Len(WriteString(r.name)) = 4 + Len(r.name)
      BY <1>1, <1>3, <1>4, StringWritten
    <3>2. o + 1 + Len(WriteString(r.name)) <= Len(b)
      BY <1>4 DEF Lies
    <3> QED
      BY <1>1, <1>3, <1>12, <3>1, <3>2 DEF CutOff
  <2> QED
    BY <1>2, <2>1, <2>2, <2>3, <2>4 DEF ToRead, TornAtName
<1> QED
  BY <1>11, <1>12

\* A change of the entry that is read disturbs no other.
LEMMA EntryChanged ==
  ASSUME Reading, NEW n \in 0..Len(saved), n < Len(saved),
         NEW t, NEW u, NEW c, NEW but, Base(t, n), Sound(t, n, but), c \in but,
         c = saved[n + 1].name \/ c = << >>, c \in DOMAIN t,
         NEW e, u = [t EXCEPT ![c] = e]
  PROVE  Base(u, n) /\ Sound(u, n, but) /\ DOMAIN u = DOMAIN t /\ u[c] = e
         /\ \A name \in DOMAIN t : name # c => u[name] = t[name]
<1>1. saved \in Saveable /\ NotYet(c, n)
  BY NextIsNew DEF Reading
<1>2. DOMAIN u = DOMAIN t /\ u[c] = e /\ \A name \in DOMAIN t : name # c => u[name] = t[name]
  OBVIOUS
<1>3. Grown(t, u, c, c)
  BY <1>2 DEF Grown
<1> QED
  BY <1>1, <1>2, <1>3, TableGrown

\* A field of a record is read as it was written, or the file ends in it.
LEMMA FieldRead ==
  ASSUME Reading, NEW o \in Nat, NEW s \in Seq(Nat), Lies(SaveCache(saved), o, s),
         NEW w \in Nat, Len(s) = w, pos = o + 1
  PROVE  /\ Available(w) => Read(w) = s /\ pos + w = o + w + 1 /\ o + w <= Len(file)
         /\ ~Available(w) => CutOff
<1> DEFINE b == SaveCache(saved)
<1>1. IntpWidth = 4 /\ saved \in Saveable /\ IsPart(b) /\ Len(file) \in Nat
  BY DEF Reading, IsPart
<1>2. b \in Seq(Nat) /\ Len(b) \in Nat
  <2>1. b \in Seq(Nat)
    BY <1>1, FileWritten
  <2> QED
    BY <2>1, LenProperties
<1>3. Available(w) <=> o + w <= Len(file)
  BY <1>1 DEF Available
<1>4. o + w <= Len(file) => SubSeq(file, o + 1, o + w) = s
  BY <1>1, <1>2, PartRead
<1>5. Read(w) = SubSeq(file, o + 1, o + w)
  <2>1. pos + w - 1 = o + w
    OBVIOUS
  <2> QED
    BY <2>1 DEF Read
<1>6. o + w <= Len(b)
  BY DEF Lies
<1>7. ~Available(w) => CutOff
  BY <1>1, <1>2, <1>3, <1>6 DEF CutOff
<1> QED
  BY <1>3, <1>4, <1>5, <1>7

\* The record is torn once its name is read: what it has of names is in order.
LEMMA RecordTorn ==
  ASSUME Reading, NEW n \in 0..Len(saved), n < Len(saved), CutOff,
         NEW t, NEW c, Base(t, n), Sound(t, n, {c}), c \in DOMAIN t,
         c = saved[n + 1].name \/ c = << >>, t[c].deps = << >>
  PROVE  TornDone(n, EndOfFile, t)
<1> DEFINE r == saved[n + 1]
<1>1. saved \in Saveable /\ NotYet(r.name, n)
  BY NextIsNew DEF Reading
<1>2. Sound(t, n, {r.name, << >>})
  BY DEF Sound
<1>3. ASSUME r.name \in DOMAIN t PROVE t[r.name].deps = << >>
  <2>1. CASE c = r.name
    BY <2>1
  <2>2. CASE c # r.name
    <3>1. t[r.name] = NewEntry
      BY <1>1, <1>3, <2>2 DEF Sound, NotYet
    <3> QED
      BY <3>1 DEF NewEntry
  <2> QED
    BY <2>1, <2>2
<1> QED
  BY <1>2, <1>3 DEF TornDone, Torn

\* The size is read, or cut off.
LEMMA SizeKept ==
  ASSUME Reading, NEW n \in 0..Len(saved),
         ToRead(n, field, pos, table, current, left), ReadSize
  PROVE  ToRead(n, field', pos', table', current', left')
<1> DEFINE b == SaveCache(saved)
           o == Start(saved, n)
           r == saved[n + 1]
           was == table[current]
<1>1. /\ current' = current
      /\ \/ Halfway(n, SizeAt(r), NewEntry, pos, table, current)
         \/ TornAtName(n, pos, table, current)
  BY DEF ToRead, ReadSize
<1>2. /\ n < Len(saved) /\ Base(table, n) /\ Sound(table, n, {current})
      /\ current \in DOMAIN table /\ was = NewEntry
      /\ current = r.name \/ current = << >>
  BY <1>1 DEF Halfway, TornAtName
<1>3. Len(file) \in Nat
  BY DEF Reading, IsPart
<1>4. Halfway(n, SizeAt(r), NewEntry, pos, table, current) =>
        /\ Available(8) => Read(8) = Bytes(r.size, 8) /\ pos + 8 = o + TimeAt(r) + 1
        /\ ~Available(8) => CutOff
  <2> SUFFICES ASSUME Halfway(n, SizeAt(r), NewEntry, pos, table, current)
               PROVE  /\ Available(8) => Read(8) = Bytes(r.size, 8) /\ pos + 8 = o + TimeAt(r) + 1
                      /\ ~Available(8) => CutOff
    OBVIOUS
  <2> DEFINE s == Bytes(r.size, 8)
             l == Len(r.name)
  <2>1. /\ r \in SavedRecord /\ o \in Nat /\ l \in Nat
        /\ Lies(b, o + SizeAt(r), s)
    BY <1>2, RecordPlaced DEF RecordLies
  <2>2. s \in Seq(Nat) /\ Len(s) = 8
    BY <2>1, RecordTyped, BytesTyped
  <2>3. o + SizeAt(r) \in Nat /\ pos = o + SizeAt(r) + 1 /\ o + SizeAt(r) + 8 = o + TimeAt(r)
    <3>1. pos = o + SizeAt(r) + 1
      BY DEF Halfway
    <3> HIDE DEF o, l
    <3> QED
      BY <2>1, <3>1 DEF SizeAt, TimeAt, l
  <2> DEFINE q == o + SizeAt(r)
  <2>4. /\ q \in Nat /\ s \in Seq(Nat) /\ Lies(b, q, s) /\ 8 \in Nat /\ Len(s) = 8 /\ pos = q + 1
        /\ q + 8 = o + TimeAt(r)
    BY <2>1, <2>2, <2>3
  <2> HIDE DEF s, q
  <2>5. /\ Available(8) => Read(8) = s /\ pos + 8 = q + 8 + 1 /\ q + 8 <= Len(file)
        /\ ~Available(8) => CutOff
    BY <2>4, FieldRead, Zenon
  <2> QED
    BY <2>4, <2>5 DEF s
<1>5. CASE Available(8)
  <2>1. Halfway(n, SizeAt(r), NewEntry, pos, table, current)
    BY <1>1, <1>3, <1>5, NothingRead DEF TornAtName
  <2>2. /\ table' = [table EXCEPT ![current] = [was EXCEPT !.size = Read(8)]]
        /\ field' = "time" /\ pos' = pos + 8
    BY <1>5 DEF ReadSize, NextField, Int64Width
  <2>3. [was EXCEPT !.size = Read(8)] = SizeRead(r)
    BY <1>2, <1>4, <1>5, <2>1 DEF NewEntry, SizeRead
  <2>4. /\ Base(table', n) /\ Sound(table', n, {current}) /\ current \in DOMAIN table'
        /\ table'[current] = SizeRead(r)
    <3> DEFINE e == SizeRead(r)
    <3>1. table' = [table EXCEPT ![current] = e] /\ current \in {current}
      BY <2>2, <2>3
    <3> HIDE DEF e
    <3>2. Base(table', n) /\ Sound(table', n, {current}) /\ DOMAIN table' = DOMAIN table
          /\ table'[current] = e
      BY <1>2, <3>1, EntryChanged, Zenon
    <3> QED
      BY <1>2, <3>2 DEF e
  <2>5. pos' = o + TimeAt(r) + 1 /\ current = r.name
    BY <1>4, <1>5, <2>1, <2>2 DEF Halfway
  <2> QED
    BY <1>1, <1>2, <2>2, <2>4, <2>5 DEF ToRead, Halfway
<1>6. CASE ~Available(8)
  <2>1. CutOff
    BY <1>1, <1>4, <1>6 DEF TornAtName
  <2>2. /\ field' = "done" /\ pos' = EndOfFile
        /\ \E z : table' = [table EXCEPT ![current] = [was EXCEPT !.size = z]]
    BY <1>6 DEF ReadSize, Stop, Int64Width
  <2>3. PICK z : table' = [table EXCEPT ![current] = [was EXCEPT !.size = z]]
    BY <2>2
  <2>4. [was EXCEPT !.size = z].deps = << >>
    BY <1>2 DEF NewEntry
  <2> DEFINE e == [was EXCEPT !.size = z]
  <2> HIDE DEF e, was
  <2>5. /\ Base(table', n) /\ Sound(table', n, {current}) /\ current \in DOMAIN table'
        /\ table'[current] = e
    <3>1. table' = [table EXCEPT ![current] = e] /\ current \in {current}
      BY <2>3 DEF e
    <3>2. Base(table', n) /\ Sound(table', n, {current}) /\ DOMAIN table' = DOMAIN table
          /\ table'[current] = e
      BY <1>2, <3>1, EntryChanged, Zenon
    <3> QED
      BY <1>2, <3>2
  <2>6. TornDone(n, EndOfFile, table')
    BY <1>2, <2>1, <2>4, <2>5, RecordTorn DEF e
  <2> QED
    BY <2>2, <2>6 DEF ToRead
<1> QED
  BY <1>5, <1>6

\* The time is read, or cut off.
LEMMA TimeKept ==
  ASSUME Reading, NEW n \in 0..Len(saved),
         ToRead(n, field, pos, table, current, left), ReadTime
  PROVE  ToRead(n, field', pos', table', current', left')
<1> DEFINE b == SaveCache(saved)
           o == Start(saved, n)
           r == saved[n + 1]
           was == table[current]
           s == Bytes(r.time, 8)
           l == Len(r.name)
           q == o + TimeAt(r)
<1>1. /\ current' = current /\ current = r.name
      /\ Halfway(n, TimeAt(r), SizeRead(r), pos, table, current)
  BY DEF ToRead, ReadTime, Halfway
<1>2. /\ n < Len(saved) /\ Base(table, n) /\ Sound(table, n, {current})
      /\ current \in DOMAIN table /\ was = SizeRead(r)
      /\ current = r.name \/ current = << >>
      /\ pos = q + 1
  BY <1>1 DEF Halfway
<1>3. /\ r \in SavedRecord /\ o \in Nat /\ l \in Nat /\ Lies(b, q, s)
  BY <1>2, RecordPlaced DEF RecordLies
<1>4. s \in Seq(Nat) /\ Len(s) = 8
  BY <1>3, RecordTyped, BytesTyped
<1>5. q \in Nat /\ q + 8 = o + CountAt(r)
  <2> HIDE DEF o, l
  <2> QED
    BY <1>3 DEF TimeAt, CountAt, l
<1>6. /\ Available(8) => Read(8) = s /\ pos + 8 = q + 8 + 1 /\ q + 8 <= Len(file)
      /\ ~Available(8) => CutOff
  <2>1. 8 \in Nat
    OBVIOUS
  <2> HIDE DEF s, q
  <2> QED
    BY <1>2, <1>3, <1>4, <1>5, <2>1, FieldRead, Zenon
<1>7. CASE Available(8)
  <2>1. /\ table' = [table EXCEPT ![current] = [was EXCEPT !.time = Read(8)]]
        /\ field' = "count" /\ pos' = pos + 8
    BY <1>7 DEF ReadTime, NextField, Int64Width
  <2>2. [was EXCEPT !.time = Read(8)] = DepsRead(r, << >>)
    BY <1>2, <1>6, <1>7 DEF SizeRead, DepsRead
  <2>3. /\ Base(table', n) /\ Sound(table', n, {current}) /\ current \in DOMAIN table'
        /\ table'[current] = DepsRead(r, << >>)
    <3> DEFINE e == DepsRead(r, << >>)
    <3>1. table' = [table EXCEPT ![current] = e] /\ current \in {current}
      BY <2>1, <2>2
    <3> HIDE DEF e
    <3>2. Base(table', n) /\ Sound(table', n, {current}) /\ DOMAIN table' = DOMAIN table
          /\ table'[current] = e
      BY <1>2, <3>1, EntryChanged, Zenon
    <3> QED
      BY <1>2, <3>2 DEF e
  <2>4. pos' = o + CountAt(r) + 1
    BY <1>5, <1>6, <1>7, <2>1
  <2> QED
    BY <1>1, <1>2, <2>1, <2>3, <2>4 DEF ToRead, Halfway
<1>8. CASE ~Available(8)
  <2>1. CutOff
    BY <1>6, <1>8
  <2>2. /\ field' = "done" /\ pos' = EndOfFile
        /\ \E z : table' = [table EXCEPT ![current] = [was EXCEPT !.time = z]]
    BY <1>8 DEF ReadTime, Stop, Int64Width
  <2>3. PICK z : table' = [table EXCEPT ![current] = [was EXCEPT !.time = z]]
    BY <2>2
  <2>4. [was EXCEPT !.time = z].deps = << >>
    BY <1>2 DEF SizeRead
  <2> DEFINE e == [was EXCEPT !.time = z]
  <2> HIDE DEF e, was
  <2>5. /\ Base(table', n) /\ Sound(table', n, {current}) /\ current \in DOMAIN table'
        /\ table'[current] = e
    <3>1. table' = [table EXCEPT ![current] = e] /\ current \in {current}
      BY <2>3 DEF e
    <3>2. Base(table', n) /\ Sound(table', n, {current}) /\ DOMAIN table' = DOMAIN table
          /\ table'[current] = e
      BY <1>2, <3>1, EntryChanged, Zenon
    <3> QED
      BY <1>2, <3>2
  <2>6. TornDone(n, EndOfFile, table')
    BY <1>2, <2>1, <2>4, <2>5, RecordTorn DEF e
  <2> QED
    BY <2>2, <2>6 DEF ToRead
<1> QED
  BY <1>7, <1>8

\* The number of dependencies is read, or cut off.
LEMMA CountKept ==
  ASSUME Reading, NEW n \in 0..Len(saved),
         ToRead(n, field, pos, table, current, left), ReadCount
  PROVE  ToRead(n, field', pos', table', current', left')
<1> DEFINE b == SaveCache(saved)
           o == Start(saved, n)
           r == saved[n + 1]
           count == Len(r.deps)
           s == Bytes(count, 4)
           l == Len(r.name)
           q == o + CountAt(r)
<1>1. current' = current /\ table' = table
      /\ Halfway(n, CountAt(r), DepsRead(r, << >>), pos, table, current)
  BY DEF ToRead, ReadCount
<1>2. /\ n < Len(saved) /\ Base(table, n) /\ Sound(table, n, {current})
      /\ current \in DOMAIN table /\ table[current] = DepsRead(r, << >>) /\ current = r.name
      /\ pos = q + 1
  BY <1>1 DEF Halfway
<1>3. /\ r \in SavedRecord /\ o \in Nat /\ l \in Nat /\ Lies(b, q, s)
  BY <1>2, RecordPlaced DEF RecordLies
<1>4. s \in Seq(Nat) /\ Len(s) = 4 /\ count \in Short16 /\ count \in Nat /\ 4 \in Nat
      /\ DepAt(r, 1) = 25 + l
  <2>1. IntpWidth = 4
    BY DEF Reading
  <2> QED
    BY <1>3, <2>1, RecordTyped, BytesTyped, DepsWritten
<1>5. q \in Nat /\ q + 4 = o + DepAt(r, 1)
  <2>1. q = o + (21 + l) /\ DepAt(r, 1) = 25 + l
    BY <1>4 DEF CountAt
  <2> HIDE DEF o, l, q
  <2>2. q \in Nat /\ q + 4 = o + (25 + l)
    BY <1>3, <2>1
  <2> QED
    BY <2>1, <2>2
<1>6. /\ Available(4) => pos + 4 = q + 4 + 1 /\ q + 4 <= Len(file)
      /\ ~Available(4) => CutOff
  <2> HIDE DEF s, q
  <2> QED
    BY <1>2, <1>3, <1>4, <1>5, FieldRead, Zenon
<1>7. CASE Available(4)
  <2>1. ReadInt = count
    <3>1. IsPart(b) /\ b \in Seq(Nat) /\ q + 4 <= Len(file)
      BY <1>2, <1>6, <1>7, RecordPlaced DEF Reading
    <3> HIDE DEF q
    <3> QED
      BY <1>2, <1>3, <1>4, <1>5, <3>1, IntRead
  <2>2. count # TooLarge
    <3>1. \A z \in Short16 : z # TooLarge
      BY DEF Short16, TooLarge
    <3> QED
      BY <1>4, <3>1, Zenon
  <2>3. left' = count /\ field' = "deps" /\ pos' = pos + 4
    BY <1>7, <2>1, <2>2 DEF ReadCount, NextField, IntWidth
  <2>4. pos' = o + DepAt(r, 1) + 1
    BY <1>5, <1>6, <1>7, <2>3
  <2>5. /\ << >> \in Seq(Names) /\ Len(<< >>) + left' = count /\ left' \in Nat
        /\ 1..Len(<< >>) = {} /\ Len(<< >>) + 1 = 1
    BY <1>4, <2>3, EmptySeq
  <2>6. Halfway(n, DepAt(r, Len(<< >>) + 1), DepsRead(r, << >>), pos', table', current')
    BY <1>1, <1>2, <2>4, <2>5 DEF Halfway
  <2>7. AtDependency(n, pos', table', current', left')
    BY <2>5, <2>6 DEF AtDependency
  <2> QED
    BY <2>3, <2>7 DEF ToRead
<1>8. CASE ~Available(4)
  <2>1. CutOff /\ field' = "done" /\ pos' = EndOfFile
    BY <1>6, <1>8 DEF ReadCount, Stop, IntWidth
  <2>2. table[current].deps = << >>
    BY <1>2 DEF DepsRead
  <2>3. TornDone(n, EndOfFile, table)
    BY <1>2, <2>1, <2>2, RecordTorn
  <2> QED
    BY <1>1, <2>1, <2>3 DEF ToRead
<1> QED
  BY <1>7, <1>8

\* The entry gets another dependency, which gets an entry of its own.
Added(t, c, child) == [FindOrCreate(t, child) EXCEPT ![c].deps = Append(@, child)]

CanAdd(n, t, but, r, c, list, child) ==
  /\ n \in 0..Len(saved) /\ n < Len(saved) /\ Base(t, n) /\ Sound(t, n, but)
  /\ c \in but /\ c \in DOMAIN t /\ c = saved[n + 1].name
  /\ t[c] = DepsRead(r, list)
  /\ child \in but \/ child \in NamesIn(saved)

HasAdded(n, t, but, r, c, list, child, u) ==
  /\ Base(u, n) /\ Sound(u, n, but) /\ DOMAIN u = DOMAIN t \cup {child}
  /\ u[c] = DepsRead(r, Append(list, child))

LEMMA ChildAdded ==
  ASSUME Reading, NEW n, NEW t, NEW but, NEW r, NEW c, NEW list, NEW child,
         CanAdd(n, t, but, r, c, list, child), NEW u, u = Added(t, c, child)
  PROVE  HasAdded(n, t, but, r, c, list, child, u)
<1> DEFINE v == FindOrCreate(t, child)
           longer == Append(list, child)
<1> USE DEF CanAdd
<1>1. saved \in Saveable /\ NotYet(c, n)
  BY NextIsNew DEF Reading
<1>2. /\ DOMAIN v = DOMAIN t \cup {child} /\ \A name \in DOMAIN t : v[name] = t[name]
      /\ child \notin DOMAIN t => v[child] = NewEntry
  BY DEF FindOrCreate
<1>3. v[c] = DepsRead(r, list)
  BY <1>2
<1>4. u = [v EXCEPT ![c] = [v[c] EXCEPT !.deps = Append(v[c].deps, child)]]
  BY DEF Added
<1>5. [v[c] EXCEPT !.deps = Append(v[c].deps, child)] = DepsRead(r, longer)
  <2>1. v[c].deps = list
    BY <1>3 DEF DepsRead
  <2>2. [DepsRead(r, list) EXCEPT !.deps = longer] = DepsRead(r, longer)
    <3> HIDE DEF longer
    <3> QED
      BY DEF DepsRead
  <2> QED
    BY <1>3, <2>1, <2>2
<1> DEFINE e == DepsRead(r, longer)
<1>6. u = [v EXCEPT ![c] = e]
  BY <1>4, <1>5
<1> HIDE DEF v, e
<1>7. DOMAIN u = DOMAIN v /\ u[c] = e /\ \A name \in DOMAIN v : name # c => u[name] = v[name]
  BY <1>2, <1>6
<1>8. Grown(t, u, c, child)
  BY <1>2, <1>7 DEF Grown
<1>9. Base(u, n) /\ Sound(u, n, but)
  BY <1>1, <1>8, TableGrown
<1> QED
  BY <1>2, <1>7, <1>9 DEF e, HasAdded

\* One more name of the same kind.
LEMMA OneMore ==
  ASSUME NEW S, NEW list \in Seq(S), NEW child \in S
  PROVE  LET longer == Append(list, child)
         IN  /\ longer \in Seq(S) /\ Len(longer) = Len(list) + 1 /\ Len(list) \in Nat
             /\ \A k \in 1..Len(list) : longer[k] = list[k]
             /\ longer[Len(list) + 1] = child
             /\ \A k \in 1..Len(longer) : k \in 1..Len(list) \/ k = Len(list) + 1
<1> DEFINE longer == Append(list, child)
<1>1. /\ longer \in Seq(S) /\ Len(longer) = Len(list) + 1
      /\ \A k \in 1..Len(list) : longer[k] = list[k]
      /\ longer[Len(list) + 1] = child
  BY AppendProperties
<1>2. Len(list) \in Nat
  BY LenProperties
<1> HIDE DEF longer
<1>3. \A k \in 1..Len(longer) : k \in 1..Len(list) \/ k = Len(list) + 1
  BY <1>1, <1>2
<1> QED
  BY <1>1, <1>2, <1>3 DEF longer

\* The name of a dependency is read, or cut off.
LEMMA DependencyKept ==
  ASSUME Reading, NEW n \in 0..Len(saved),
         ToRead(n, field, pos, table, current, left), ReadDependency
  PROVE  ToRead(n, field', pos', table', current', left')
<1> DEFINE b == SaveCache(saved)
           o == Start(saved, n)
           r == saved[n + 1]
           D == Len(r.deps)
           child == ReadString.name
           N0 == Names \cup {<< >>}
<1>1. /\ field' = "deps" /\ current' = current /\ left > 0 /\ left' = left - 1
      /\ pos' = ReadString.next
      /\ table' = Added(table, current, child)
      /\ AtDependency(n, pos, table, current, left)
         \/ TornAtDependency(n, pos, table, current, left)
  BY DEF ToRead, ReadDependency, Added
<1>2. IntpWidth = 4 /\ saved \in Saveable /\ IsPart(b) /\ Len(file) \in Nat /\ Len(file) <= Len(b)
  BY DEF Reading, IsPart
<1>3. CASE AtDependency(n, pos, table, current, left)
  <2>1. PICK list \in Seq(Names) :
          /\ left \in Nat /\ Len(list) + left = D
          /\ \A k \in 1..Len(list) : list[k] = r.deps[k] /\ r.deps[k] \in DOMAIN table
          /\ Halfway(n, DepAt(r, Len(list) + 1), DepsRead(r, list), pos, table, current)
    BY <1>3 DEF AtDependency
  <2> DEFINE k == Len(list)
             d == r.deps[k + 1]
             l == Len(d)
             q == o + DepAt(r, k + 1)
  <2>2. /\ n < Len(saved) /\ Base(table, n) /\ Sound(table, n, {current})
        /\ current \in DOMAIN table /\ table[current] = DepsRead(r, list)
        /\ current = r.name /\ pos = q + 1
    BY <2>1 DEF Halfway
  <2>3. /\ r \in SavedRecord /\ o \in Nat /\ RecordLies(b, o, r) /\ b \in Seq(Nat) /\ Len(b) \in Nat
    BY <2>2, RecordPlaced
  <2>4. /\ k \in Nat /\ left \in Nat /\ D \in Nat /\ k + 1 \in 1..D /\ k + 1 + (left - 1) = D
        /\ left - 1 \in Nat
    <3>1. k \in Nat /\ D \in Nat
      BY <2>3, LenProperties, RecordTyped
    <3> HIDE DEF k, D
    <3> QED
      BY <1>1, <2>1, <3>1 DEF k
  <2>5. d \in Names /\ d \in NamesIn(saved) /\ l \in Nat /\ Lies(b, q, WriteString(d))
    <3>1. d \in Names /\ d \in NamesIn(saved)
      BY <1>2, <2>2, <2>4, RecordPlaced, NamesSaved
    <3>2. l \in Nat
      BY <3>1, Typed
    <3>3. Lies(b, q, WriteString(d))
      BY <2>3, <2>4 DEF RecordLies
    <3> QED
      BY <3>1, <3>2, <3>3
  <2>6. /\ DepAt(r, k + 1) \in Nat /\ q \in Nat
        /\ o + DepAt(r, k + 1 + 1) = q + 4 + l
    <3>1. /\ \A j \in 1..D + 1 : DepAt(r, j) \in Nat
          /\ \A j \in 1..D : DepAt(r, j + 1) = DepAt(r, j) + 4 + Len(r.deps[j])
      BY <1>2, <2>3, DepsWritten
    <3> DEFINE here == DepAt(r, k + 1)
               there == DepAt(r, k + 1 + 1)
    <3>2. k + 1 \in 1..D + 1
      BY <2>4
    <3>3. here \in Nat /\ there = here + 4 + l
      BY <2>4, <3>1, <3>2
    <3>4. q = o + here
      OBVIOUS
    <3> HIDE DEF here, there, o, l, q
    <3>5. q \in Nat /\ o + there = q + 4 + l
      BY <2>3, <2>5, <3>3, <3>4 DEF o
    <3> QED
      BY <3>3, <3>5 DEF here, there
  <2>7. /\ q + 4 + l <= Len(file) =>
             ReadString = [name |-> d, next |-> q + 4 + l + 1]
        /\ ~(q + 4 + l <= Len(file)) =>
             ReadString = [name |-> << >>, next |-> EndOfFile]
    <3> DEFINE x == d
    <3>1. x \in Names /\ Lies(b, q, WriteString(x)) /\ l = Len(x) /\ pos = q + 1
      BY <2>2, <2>5
    <3> HIDE DEF q, x, l
    <3>2. /\ q + 4 + Len(x) <= Len(file) =>
               ReadString = [name |-> x, next |-> q + 4 + Len(x) + 1]
          /\ ~(q + 4 + Len(x) <= Len(file)) =>
               ReadString = [name |-> << >>, next |-> EndOfFile]
      BY <1>2, <2>3, <2>6, <3>1, StringRead
    <3> QED
      BY <3>1, <3>2 DEF x
  <2>8. CASE q + 4 + l <= Len(file)
    <3>1. child = d /\ pos' = q + 4 + l + 1
      BY <1>1, <2>7, <2>8
    <3> DEFINE longer == Append(list, d)
    <3>2. /\ longer \in Seq(Names) /\ Len(longer) = k + 1
          /\ \A j \in 1..k : longer[j] = list[j]
          /\ longer[k + 1] = d
          /\ \A j \in 1..Len(longer) : j \in 1..k \/ j = k + 1
      BY <2>5, OneMore
    <3>3. /\ Base(table', n) /\ Sound(table', n, {current}) /\ DOMAIN table' = DOMAIN table \cup {d}
          /\ table'[current] = DepsRead(r, longer)
      <4> DEFINE e == d
      <4>1. table' = Added(table, current, e)
            /\ e \in NamesIn(saved)
        BY <1>1, <2>5, <3>1
      <4>2. CanAdd(n, table, {current}, r, current, list, e)
        BY <2>2, <4>1 DEF CanAdd
      <4> HIDE DEF e
      <4>3. HasAdded(n, table, {current}, r, current, list, e, table')
        BY <4>1, <4>2, ChildAdded, Zenon
      <4> QED
        BY <4>3 DEF HasAdded, e
    <3> HIDE DEF longer
    <3>4. \A j \in 1..Len(longer) : longer[j] = r.deps[j] /\ r.deps[j] \in DOMAIN table'
      BY <2>1, <3>2, <3>3
    <3>5. Len(longer) + left' = D /\ left' \in Nat
      BY <1>1, <2>4, <3>2
    <3>6. pos' = o + DepAt(r, Len(longer) + 1) + 1
      BY <2>6, <3>1, <3>2
    <3>7. Halfway(n, DepAt(r, Len(longer) + 1), DepsRead(r, longer), pos', table', current')
      BY <1>1, <2>2, <3>3, <3>6 DEF Halfway
    <3>8. AtDependency(n, pos', table', current', left')
      BY <3>2, <3>4, <3>5, <3>7 DEF AtDependency
    <3> QED
      BY <1>1, <3>8 DEF ToRead
  <2>9. CASE ~(q + 4 + l <= Len(file))
    <3>1. child = << >> /\ pos' = EndOfFile
      BY <1>1, <2>7, <2>9
    <3>2. CutOff
      <4> DEFINE w == WriteString(d)
      <4>1. Len(w) = 4 + l
        BY <1>2, <2>3, <2>5, <2>6, StringWritten
      <4>2. q + Len(w) <= Len(b)
        BY <2>5 DEF Lies
      <4> HIDE DEF w, q, l
      <4> QED
        BY <1>2, <2>3, <2>5, <2>6, <2>9, <4>1, <4>2 DEF CutOff
    <3>3. list \in Seq(N0) /\ << >> \in N0
      BY <2>1
    <3>4. /\ Base(table', n) /\ Sound(table', n, {current, << >>})
          /\ DOMAIN table' = DOMAIN table \cup {<< >>}
          /\ table'[current] = DepsRead(r, Append(list, << >>))
      <4>1. Sound(table, n, {current, << >>})
        BY <2>2 DEF Sound
      <4>2. table' = Added(table, current, << >>)
        BY <1>1, <3>1
      <4>3. CanAdd(n, table, {current, << >>}, r, current, list, << >>)
        BY <2>2, <4>1, <4>2 DEF CanAdd
      <4>4. HasAdded(n, table, {current, << >>}, r, current, list, << >>, table')
        BY <4>2, <4>3, ChildAdded, Zenon
      <4> QED
        BY <4>4 DEF HasAdded
    <3> DEFINE longer == Append(list, << >>)
    <3>5. /\ longer \in Seq(N0) /\ Len(longer) = k + 1
          /\ \A j \in 1..k : longer[j] = list[j]
          /\ longer[k + 1] = << >>
          /\ \A j \in 1..Len(longer) : j \in 1..k \/ j = k + 1
      BY <3>3, OneMore
    <3> HIDE DEF longer
    <3>6. \A j \in 1..Len(longer) : longer[j] \in {r.deps[j], << >>}
      BY <2>1, <3>5
    <3>7. Len(longer) + left' = D /\ left' \in Nat
      BY <1>1, <2>4, <3>5
    <3>8. Torn(n, pos', table') /\ current' = r.name /\ current' \in DOMAIN table'
          /\ table'[current'] = DepsRead(r, longer)
      BY <1>1, <2>2, <3>1, <3>2, <3>4 DEF Torn, longer
    <3>9. TornAtDependency(n, pos', table', current', left')
      BY <3>5, <3>6, <3>7, <3>8 DEF TornAtDependency
    <3> QED
      BY <1>1, <3>9 DEF ToRead
  <2> QED
    BY <2>8, <2>9
<1>4. CASE TornAtDependency(n, pos, table, current, left)
  <2>1. PICK list \in Seq(N0) :
          /\ left \in Nat /\ Len(list) + left = D
          /\ \A k \in 1..Len(list) : list[k] \in {r.deps[k], << >>}
          /\ Torn(n, pos, table)
          /\ current = r.name /\ current \in DOMAIN table /\ table[current] = DepsRead(r, list)
    BY <1>4 DEF TornAtDependency
  <2>2. /\ n < Len(saved) /\ CutOff /\ pos = EndOfFile /\ Base(table, n)
        /\ Sound(table, n, {current, << >>})
    BY <2>1 DEF Torn
  <2>3. child = << >> /\ pos' = EndOfFile
    BY <1>1, <1>2, <2>2, NothingRead
  <2>4. /\ Base(table', n) /\ Sound(table', n, {current, << >>})
        /\ DOMAIN table' = DOMAIN table \cup {<< >>}
        /\ table'[current] = DepsRead(r, Append(list, << >>))
    <3>1. table' = Added(table, current, << >>)
      BY <1>1, <2>3
    <3>2. CanAdd(n, table, {current, << >>}, r, current, list, << >>)
      BY <2>1, <2>2, <3>1 DEF CanAdd
    <3>3. HasAdded(n, table, {current, << >>}, r, current, list, << >>, table')
      BY <3>1, <3>2, ChildAdded, Zenon
    <3> QED
      BY <3>3 DEF HasAdded
  <2> DEFINE longer == Append(list, << >>)
             k == Len(list)
  <2>5. /\ longer \in Seq(N0) /\ Len(longer) = k + 1 /\ k \in Nat
        /\ \A j \in 1..k : longer[j] = list[j]
        /\ longer[k + 1] = << >>
        /\ \A j \in 1..Len(longer) : j \in 1..k \/ j = k + 1
    BY OneMore
  <2> HIDE DEF longer
  <2>6. \A j \in 1..Len(longer) : longer[j] \in {r.deps[j], << >>}
    BY <2>1, <2>5
  <2>7. Len(longer) + left' = D /\ left' \in Nat
    <3>1. left > 0 /\ left' = left - 1 /\ left \in Nat /\ k + left = D /\ k \in Nat
          /\ Len(longer) = k + 1
      BY <1>1, <2>1, <2>5
    <3> HIDE DEF k, D
    <3> QED
      BY <3>1
  <2>8. Torn(n, pos', table') /\ current' = r.name /\ current' \in DOMAIN table'
        /\ table'[current'] = DepsRead(r, longer)
    BY <1>1, <2>1, <2>2, <2>3, <2>4 DEF Torn, longer
  <2>9. TornAtDependency(n, pos', table', current', left')
    BY <2>5, <2>6, <2>7, <2>8 DEF TornAtDependency
  <2> QED
    BY <1>1, <2>9 DEF ToRead
<1> QED
  BY <1>1, <1>3, <1>4

\* All dependencies of a record are read.
LEMMA RecordKept ==
  ASSUME Reading, NEW n \in 0..Len(saved),
         ToRead(n, field, pos, table, current, left), RecordRead
  PROVE  \E m \in 0..Len(saved) : ToRead(m, field', pos', table', current', left')
<1> DEFINE o == Start(saved, n)
           r == saved[n + 1]
           D == Len(r.deps)
           N0 == Names \cup {<< >>}
<1>1. /\ field' = "more" /\ table' = table /\ pos' = pos /\ left = 0
      /\ AtDependency(n, pos, table, current, left)
         \/ TornAtDependency(n, pos, table, current, left)
  BY DEF ToRead, RecordRead
<1>2. IntpWidth = 4 /\ saved \in Saveable
  BY DEF Reading
<1>3. CASE AtDependency(n, pos, table, current, left)
  <2>1. PICK list \in Seq(Names) :
          /\ left \in Nat /\ Len(list) + left = D
          /\ \A k \in 1..Len(list) : list[k] = r.deps[k] /\ r.deps[k] \in DOMAIN table
          /\ Halfway(n, DepAt(r, Len(list) + 1), DepsRead(r, list), pos, table, current)
    BY <1>3 DEF AtDependency
  <2>2. /\ n < Len(saved) /\ Base(table, n) /\ Sound(table, n, {r.name})
        /\ r.name \in DOMAIN table /\ table[r.name] = DepsRead(r, list)
        /\ pos = o + DepAt(r, Len(list) + 1) + 1
    BY <2>1 DEF Halfway
  <2>3. r \in SavedRecord /\ n + 1 \in 0..Len(saved) /\ Len(saved) \in Nat
        /\ Start(saved, n + 1) = o + DepAt(r, D + 1)
    <3>1. r \in SavedRecord /\ n \in Nat /\ Start(saved, n + 1) = o + DepAt(r, D + 1)
      BY <2>2, RecordPlaced
    <3>2. Len(saved) \in Nat
      BY <1>2, SaveableTyped
    <3> QED
      BY <2>2, <3>1, <3>2
  <2>4. Len(list) = D
    <3>1. Len(list) \in Nat /\ D \in Nat
      BY <2>3, LenProperties, RecordTyped
    <3> QED
      BY <1>1, <2>1, <3>1
  <2>5. list = r.deps
    <3>1. r.deps \in Seq(Names) /\ \A k \in 1..Len(list) : list[k] = r.deps[k]
      BY <2>1, <2>3, RecordTyped
    <3> DEFINE deps == r.deps
    <3>2. deps \in Seq(Names) /\ Len(list) = Len(deps) /\ \A k \in 1..Len(list) : list[k] = deps[k]
      BY <2>4, <3>1
    <3> HIDE DEF deps
    <3>3. list = deps
      BY <3>2, SeqEqual
    <3> QED
      BY <3>3 DEF deps
  <2>6. LoadedIn(table, r)
    BY <2>2, <2>5 DEF LoadedIn, EntryOf, DepsRead, Int64Width
  <2>7. Base(table, n + 1) /\ Sound(table, n + 1, {})
    <3>1. \A k \in 1..Len(r.deps) : r.deps[k] \in DOMAIN table
      BY <2>1, <2>4
    <3> QED
      BY <1>2, <2>2, <2>6, <3>1, RecordComplete
  <2>8. pos' = Start(saved, n + 1) + 1
    BY <1>1, <2>2, <2>3, <2>4
  <2>9. ToRead(n + 1, field', pos', table', current', left')
    BY <1>1, <2>7, <2>8 DEF ToRead, Between
  <2> QED
    BY <2>3, <2>9
<1>4. CASE TornAtDependency(n, pos, table, current, left)
  <2>1. PICK list \in Seq(N0) :
          /\ left \in Nat /\ Len(list) + left = D
          /\ \A k \in 1..Len(list) : list[k] \in {r.deps[k], << >>}
          /\ Torn(n, pos, table)
          /\ current = r.name /\ current \in DOMAIN table /\ table[current] = DepsRead(r, list)
    BY <1>4 DEF TornAtDependency
  <2>2. table[r.name].deps = list /\ DOMAIN list = 1..Len(list)
    BY <2>1 DEF DepsRead
  <2>3. TornDone(n, pos, table)
    BY <2>1, <2>2 DEF TornDone
  <2> QED
    BY <1>1, <2>3 DEF ToRead
<1> QED
  BY <1>1, <1>3, <1>4

LEMMA FormatStarts ==
  ASSUME IntpWidth = 4
  PROVE  FormatInit => FormatInv
<1> SUFFICES ASSUME FormatInit
             PROVE  FormatInv
  OBVIOUS
<1> DEFINE b == SaveCache(saved)
<1>1. saved \in Saveable /\ pos = 1 /\ field = "version" /\ table = << >>
  BY DEF FormatInit
<1>2. b \in Seq(Nat) /\ Len(b) \in Nat /\ Len(saved) \in Nat
  <2>1. b \in Seq(Nat)
    BY <1>1, FileWritten
  <2> QED
    BY <1>1, <2>1, LenProperties, SaveableTyped
<1>3. PICK n \in 0..Len(b) : file = SubSeq(b, 1, n)
  BY DEF FormatInit
<1>4. IsPart(b)
  <2> HIDE DEF b
  <2>1. \A i \in 1..n : b[i] \in Nat
    <3>1. \A i \in 1..n : i \in 1..Len(b)
      BY <1>2
    <3> QED
      BY <1>2, <3>1, ElementOfSeq
  <2>2. /\ file \in Seq(Nat)
        /\ Len(file) = IF 1 <= n THEN n - 1 + 1 ELSE 0
        /\ \A i \in 1..n - 1 + 1 : file[i] = b[1 + i - 1]
    BY <1>2, <1>3, <2>1, SubSeqProperties
  <2>3. n \in Nat /\ n - 1 + 1 = n /\ \A i \in 1..n : 1 + i - 1 = i
    BY <1>2
  <2>4. Len(file) = n
    BY <2>2, <2>3
  <2> QED
    BY <1>2, <2>2, <2>3, <2>4 DEF IsPart
<1>5. 0 \in 0..Len(saved) /\ 1..0 = {} /\ DOMAIN table = {}
  BY <1>1, <1>2
<1>6. Base(table, 0) /\ Sound(table, 0, {})
  BY <1>5 DEF Base, Sound
<1>7. ToRead(0, field, pos, table, current, left)
  BY <1>1, <1>6 DEF ToRead
<1> QED
  BY <1>1, <1>4, <1>5, <1>7 DEF FormatInv

\* What was written and what there is of it stay as they are.
LEMMA FormatFrame ==
  ASSUME saved' = saved, file' = file, saved \in Saveable, IsPart(SaveCache(saved)),
         \E n \in 0..Len(saved) : ToRead(n, field', pos', table', current', left')
  PROVE  FormatInv'
<1>1. saved' \in Saveable /\ IsPart(SaveCache(saved))'
  BY DEF IsPart
<1>2. PICK n \in 0..Len(saved) : ToRead(n, field', pos', table', current', left')
  OBVIOUS
<1>3. n \in 0..Len(saved')
  OBVIOUS
<1>4. ToRead(n, field, pos, table, current, left)'
  <2>1. CutOff' = CutOff /\ EndOfFile' = EndOfFile
    BY DEF CutOff, EndOfFile
  <2>2. Base(table', n) => Base(table, n)'
    BY DEF Base
  <2>3. \A but : Sound(table', n, but) => Sound(table, n, but)'
    BY DEF Sound
  <2>4. \A at, e : Halfway(n, at, e, pos', table', current')
                     => Halfway(n, at, e, pos, table, current)'
    BY <2>2, <2>3 DEF Halfway
  <2>5. Torn(n, pos', table') => Torn(n, pos, table)'
    BY <2>1, <2>2, <2>3 DEF Torn
  <2>6. /\ TornDone(n, pos', table') => TornDone(n, pos, table)'
        /\ TornAtName(n, pos', table', current') => TornAtName(n, pos, table, current)'
        /\ Between(n, pos', table') => Between(n, pos, table)'
    BY <2>1, <2>2, <2>3, <2>5 DEF TornDone, TornAtName, Between
  <2>7. /\ AtDependency(n, pos', table', current', left')
             => AtDependency(n, pos, table, current, left)'
        /\ TornAtDependency(n, pos', table', current', left')
             => TornAtDependency(n, pos, table, current, left)'
    BY <2>4, <2>5 DEF AtDependency, TornAtDependency
  <2> QED
    BY <1>2, <2>1, <2>2, <2>3, <2>4, <2>6, <2>7 DEF ToRead
<1> QED
  BY <1>1, <1>3, <1>4 DEF FormatInv

LEMMA FormatKept ==
  ASSUME IntpWidth = 4
  PROVE  FormatInv /\ [FormatNext]_formatVars => FormatInv'
<1> SUFFICES ASSUME FormatInv, [FormatNext]_formatVars
             PROVE  FormatInv'
  OBVIOUS
<1>1. Reading /\ saved \in Saveable /\ IsPart(SaveCache(saved))
  BY DEF FormatInv, Reading
<1>2. PICK n \in 0..Len(saved) : ToRead(n, field, pos, table, current, left)
  BY DEF FormatInv
<1>3. saved' = saved /\ file' = file
  BY DEF FormatNext, ReadVersion, ReadMore, ReadName, ReadSize, ReadTime, ReadCount,
         ReadDependency, RecordRead, FormatDone, formatVars
<1>4. \E m \in 0..Len(saved) : ToRead(m, field', pos', table', current', left')
  <2>1. CASE ReadVersion
    BY <1>1, <1>2, <2>1, VersionKept
  <2>2. CASE ReadMore
    BY <1>1, <1>2, <2>2, MoreKept
  <2>3. CASE ReadName
    BY <1>1, <1>2, <2>3, NameKept
  <2>4. CASE ReadSize
    BY <1>1, <1>2, <2>4, SizeKept
  <2>5. CASE ReadTime
    BY <1>1, <1>2, <2>5, TimeKept
  <2>6. CASE ReadCount
    BY <1>1, <1>2, <2>6, CountKept
  <2>7. CASE ReadDependency
    BY <1>1, <1>2, <2>7, DependencyKept
  <2>8. CASE RecordRead
    BY <1>1, <1>2, <2>8, RecordKept
  <2>9. CASE UNCHANGED formatVars
    BY <1>2, <2>9 DEF formatVars
  <2> QED
    BY <2>1, <2>2, <2>3, <2>4, <2>5, <2>6, <2>7, <2>8, <2>9 DEF FormatNext, FormatDone
<1> QED
  BY <1>1, <1>3, <1>4, FormatFrame

LEMMA FormatHolds ==
  ASSUME IntpWidth = 4
  PROVE  FormatInv => ReadAsWritten
<1> SUFFICES ASSUME FormatInv
             PROVE  ReadAsWritten
  OBVIOUS
<1>1. saved \in Saveable
  BY DEF FormatInv
<1>2. PICK n \in 0..Len(saved) : ToRead(n, field, pos, table, current, left)
  BY DEF FormatInv
<1>3. Len(saved) \in Nat /\ n \in Nat /\ DOMAIN saved = 1..Len(saved)
      /\ \A i \in 1..n : i \in 1..Len(saved)
  BY <1>1, SaveableTyped
<1>4. \A i \in 1..Len(saved) : Loaded(saved[i]) <=> LoadedIn(table, saved[i])
  BY DEF Loaded, LoadedIn
<1>5. RoundTrip
  <2> SUFFICES ASSUME file = SaveCache(saved), field \in {"done", "failed", "error"}
               PROVE  /\ field = "done" /\ DOMAIN table = NamesIn(saved)
                      /\ \A i \in DOMAIN saved : Loaded(saved[i])
    BY DEF RoundTrip
  <2>1. ~CutOff
    <3>1. Len(file) \in Nat
      BY DEF FormatInv, IsPart
    <3> QED
      BY <3>1 DEF CutOff
  <2>2. field = "done" /\ n = Len(saved) /\ Base(table, n) /\ Sound(table, n, {})
    BY <1>2, <2>1 DEF ToRead, TornDone, Torn
  <2>3. \A i \in 1..Len(saved) : LoadedIn(table, saved[i])
    BY <2>2 DEF Base
  <2>4. DOMAIN table \subseteq NamesIn(saved)
    BY <1>1, <2>2, NamesSaved DEF Sound
  <2>5. NamesIn(saved) \subseteq DOMAIN table
    BY <1>1, <2>2, NamesInNames DEF Base, LoadedIn
  <2> QED
    BY <1>3, <1>4, <2>2, <2>3, <2>4, <2>5
<1>6. TornInOneRecord
  <2> SUFFICES ASSUME field = "done"
               PROVE  /\ \A i \in 1..n : Loaded(saved[i])
                      /\ \A name \in DOMAIN table :
                           \/ \E i \in 1..n : saved[i].name = name
                           \/ table[name] = NewEntry /\ name \in NamesIn(saved)
                           \/ /\ n < Len(saved)
                              /\ name = saved[n + 1].name
                              /\ \A k \in DOMAIN table[name].deps :
                                   table[name].deps[k] \in {saved[n + 1].deps[k], << >>}
                           \/ name = << >>
    BY DEF TornInOneRecord
  <2>1. TornDone(n, pos, table) \/ (Base(table, n) /\ Sound(table, n, {}))
    BY <1>2 DEF ToRead
  <2>2. Base(table, n)
    BY <2>1 DEF TornDone, Torn
  <2>3. \A i \in 1..n : Loaded(saved[i])
    BY <1>3, <1>4, <2>2 DEF Base
  <2>4. CASE TornDone(n, pos, table)
    BY <2>3, <2>4 DEF TornDone, Torn, Sound
  <2>5. CASE Sound(table, n, {})
    BY <2>3, <2>5 DEF Sound
  <2> QED
    BY <2>1, <2>4, <2>5
<1> QED
  BY <1>5, <1>6 DEF ReadAsWritten

(***************************************************************************)
(* What LoadCache makes of a vpc.cache is what SaveCache wrote: all of it  *)
(* when the file is complete, and otherwise all but the record in which    *)
(* the file ends, whatever the table and wherever the writer stopped.      *)
(* The theorem is about a program whose intp has the four bytes LoadCache  *)
(* reads; the one with eight is the finding of MCFormat64.                 *)
(***************************************************************************)
THEOREM CacheReadAsWritten ==
  ASSUME IntpWidth = 4
  PROVE  FormatSpec => []ReadAsWritten
<1>1. FormatInit => FormatInv
  BY FormatStarts
<1>2. FormatInv /\ [FormatNext]_formatVars => FormatInv'
  BY FormatKept
<1>3. FormatInv => ReadAsWritten
  BY FormatHolds
<1> QED
  BY <1>1, <1>2, <1>3, PTL DEF FormatSpec
====
