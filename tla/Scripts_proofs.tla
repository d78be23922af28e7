---------------------------- MODULE Scripts_proofs ----------------------------
(***************************************************************************)
(* What a script leaves, for any script: the files it names (ProjectFiles),*)
(* the tables it shares with the other scripts of the run (ProjectMacros)  *)
(* and the macros in its conditions (MacroResolution).                     *)
(***************************************************************************)
EXTENDS ProjectFiles, ProjectMacros, MacroResolution, Iteration, SequenceTheorems,
        FiniteSetTheorems, TLAPS

-----------------------------------------------------------------------------
(***************************************************************************)
(* Putting an element into a list and taking it out again: longer is list  *)
(* with e at k.                                                            *)
(***************************************************************************)
IsPutIn(longer, list, k, e) ==
  /\ k \in 1..Len(list) + 1
  /\ Len(longer) = Len(list) + 1
  /\ \A i \in 1..Len(longer) :
       longer[i] = IF i < k THEN list[i] ELSE IF i = k THEN e ELSE list[i - 1]

LEMMA Appended ==
  ASSUME NEW S, NEW list \in Seq(S), NEW e \in S
  PROVE  /\ Append(list, e) \in Seq(S)
         /\ IsPutIn(Append(list, e), list, Len(list) + 1, e)
<1>1. /\ Append(list, e) \in Seq(S) /\ Len(list) \in Nat
      /\ Len(Append(list, e)) = Len(list) + 1
      /\ \A i \in 1..Len(list) : Append(list, e)[i] = list[i]
      /\ Append(list, e)[Len(list) + 1] = e
  BY AppendProperties
<1> QED
  BY <1>1 DEF IsPutIn

\* Parts of a list.
LEMMA Part ==
  ASSUME NEW S, NEW list \in Seq(S), NEW m \in Nat, NEW n \in Nat,
         1 <= m, n <= Len(list), m <= n + 1
  PROVE  /\ SubSeq(list, m, n) \in Seq(S) /\ Len(SubSeq(list, m, n)) = n + 1 - m
         /\ \A i \in 1..(n + 1 - m) : SubSeq(list, m, n)[i] = list[m + i - 1]
<1>1. Len(list) \in Nat
  OBVIOUS
<1>2. \A i \in m..n : list[i] \in S
  BY <1>1
<1>3. /\ SubSeq(list, m, n) \in Seq(S)
      /\ Len(SubSeq(list, m, n)) = IF m <= n THEN n - m + 1 ELSE 0
      /\ \A i \in 1..n - m + 1 : SubSeq(list, m, n)[i] = list[m + i - 1]
  BY <1>2, SubSeqProperties
<1> HIDE <1>2
<1>4. n - m + 1 = n + 1 - m /\ (~(m <= n) => n + 1 - m = 0)
  OBVIOUS
<1> QED
  BY <1>3, <1>4

LEMMA Inserted ==
  ASSUME NEW S, NEW list \in Seq(S), NEW e \in S, NEW k \in 1..Len(list)
  PROVE  /\ InsertAt(list, k, e) \in Seq(S)
         /\ IsPutIn(InsertAt(list, k, e), list, k, e)
<1> DEFINE n == Len(list)
           before == SubSeq(list, 1, k - 1)
           after == SubSeq(list, k, n)
           one == <<e>>
<1>1. n \in Nat /\ k \in Nat /\ k - 1 \in Nat
  OBVIOUS
<1>2. /\ before \in Seq(S) /\ Len(before) = k - 1
      /\ \A i \in 1..(k - 1) : before[i] = list[i]
  <2>1. /\ before \in Seq(S) /\ Len(before) = k - 1 + 1 - 1
        /\ \A i \in 1..(k - 1 + 1 - 1) : before[i] = list[1 + i - 1]
    BY <1>1, Part
  <2> HIDE DEF before
  <2> QED
    BY <1>1, <2>1
<1>3. /\ after \in Seq(S) /\ Len(after) = n + 1 - k
      /\ \A i \in 1..(n + 1 - k) : after[i] = list[k + i - 1]
  BY <1>1, Part
<1>4. one \in Seq(S) /\ Len(one) = 1 /\ one[1] = e
  OBVIOUS
<1> DEFINE head == before \o one
<1>5. InsertAt(list, k, e) = head \o after
  BY DEF InsertAt
<1> HIDE DEF before, after, one
<1>6. /\ head \in Seq(S) /\ Len(head) = k
      /\ \A i \in 1..k : head[i] = IF i < k THEN list[i] ELSE e
  <2>1. /\ head \in Seq(S) /\ Len(head) = Len(before) + Len(one)
        /\ \A i \in 1..Len(before) + Len(one) :
             head[i] = IF i <= Len(before) THEN before[i] ELSE one[i - Len(before)]
    BY <1>2, <1>4, ConcatProperties
  <2> HIDE DEF head
  <2> QED
    BY <1>1, <1>2, <1>4, <2>1
<1> HIDE DEF head
<1> DEFINE both == head \o after
<1>7. /\ both \in Seq(S) /\ Len(both) = Len(head) + Len(after)
      /\ \A i \in 1..Len(head) + Len(after) :
           both[i] = IF i <= Len(head) THEN head[i] ELSE after[i - Len(head)]
  BY <1>3, <1>6, ConcatProperties
<1> HIDE DEF both
<1>8. Len(both) = n + 1 /\ k \in 1..n + 1
  BY <1>1, <1>3, <1>6, <1>7
<1>9. ASSUME NEW i \in 1..(n + 1)
      PROVE  both[i] = IF i < k THEN list[i] ELSE IF i = k THEN e ELSE list[i - 1]
  <2>1. CASE i <= k
    BY <1>1, <1>3, <1>6, <1>7, <2>1
  <2>2. CASE ~(i <= k)
    <3>1. i - k \in 1..(n + 1 - k) /\ k + (i - k) - 1 = i - 1
      BY <1>1, <2>2
    <3>2. after[i - k] = list[k + (i - k) - 1]
      BY <1>3, <3>1
    <3> QED
      BY <1>1, <1>3, <1>6, <1>7, <2>2, <3>1, <3>2
  <2> QED
    BY <2>1, <2>2
<1> QED
  BY <1>5, <1>7, <1>8, <1>9 DEF IsPutIn, both

LEMMA Removed ==
  ASSUME NEW S, NEW list \in Seq(S), NEW k \in 1..Len(list)
  PROVE  /\ RemoveAt(list, k) \in Seq(S)
         /\ IsPutIn(list, RemoveAt(list, k), k, list[k])
<1> DEFINE n == Len(list)
           before == SubSeq(list, 1, k - 1)
           after == SubSeq(list, k + 1, n)
<1>1. n \in Nat /\ k \in Nat /\ k - 1 \in Nat /\ k + 1 \in Nat
  OBVIOUS
<1>2. /\ before \in Seq(S) /\ Len(before) = k - 1
      /\ \A i \in 1..(k - 1) : before[i] = list[i]
  <2>1. /\ before \in Seq(S) /\ Len(before) = k - 1 + 1 - 1
        /\ \A i \in 1..(k - 1 + 1 - 1) : before[i] = list[1 + i - 1]
    BY <1>1, Part
  <2> HIDE DEF before
  <2> QED
    BY <1>1, <2>1
<1>3. /\ after \in Seq(S) /\ Len(after) = n - k
      /\ \A i \in 1..(n - k) : after[i] = list[k + i]
  <2>1. /\ after \in Seq(S) /\ Len(after) = n + 1 - (k + 1)
        /\ \A i \in 1..(n + 1 - (k + 1)) : after[i] = list[k + 1 + i - 1]
    BY <1>1, Part
  <2> HIDE DEF after
  <2>2. n + 1 - (k + 1) = n - k /\ \A i \in 1..(n - k) : k + 1 + i - 1 = k + i
    BY <1>1
  <2> QED
    BY <2>1, <2>2
<1> DEFINE rest == before \o after
<1>4. RemoveAt(list, k) = rest
  BY DEF RemoveAt
<1> HIDE DEF before, after
<1>5. /\ rest \in Seq(S) /\ Len(rest) = Len(before) + Len(after)
      /\ \A i \in 1..Len(before) + Len(after) :
           rest[i] = IF i <= Len(before) THEN before[i] ELSE after[i - Len(before)]
  BY <1>2, <1>3, ConcatProperties
<1> HIDE DEF rest
<1>6. Len(rest) = n - 1 /\ k \in 1..Len(rest) + 1 /\ n = Len(rest) + 1
  BY <1>1, <1>2, <1>3, <1>5
<1>7. ASSUME NEW i \in 1..n
      PROVE  list[i] = IF i < k THEN rest[i] ELSE IF i = k THEN list[k] ELSE rest[i - 1]
  <2>1. CASE i < k
    BY <1>1, <1>2, <1>3, <1>5, <2>1
  <2>2. CASE k < i
    <3>1. i - 1 - (k - 1) = i - k /\ i - k \in 1..(n - k) /\ k + (i - k) = i
          /\ i - 1 \in 1..(n - 1) /\ ~(i - 1 <= k - 1)
      BY <1>1, <2>2
    <3>2. rest[i - 1] = after[i - k]
      BY <1>2, <1>3, <1>5, <1>6, <3>1
    <3> QED
      BY <1>1, <1>3, <2>2, <3>1, <3>2
  <2> QED
    BY <1>1, <2>1, <2>2
<1> QED
  BY <1>4, <1>5, <1>6, <1>7 DEF IsPutIn

\* What is in the longer list, and how often.
LEMMA PutIn ==
  ASSUME NEW S, NEW longer \in Seq(S), NEW list \in Seq(S), NEW k, NEW e,
         IsPutIn(longer, list, k, e)
  PROVE  /\ ToSet(longer) = ToSet(list) \cup {e}
         /\ (\A i, j \in 1..Len(longer) : longer[i] = longer[j] => i = j)
            <=> (\A i, j \in 1..Len(list) : list[i] = list[j] => i = j) /\ e \notin ToSet(list)
<1> DEFINE n == Len(list)
<1>1. /\ n \in Nat /\ k \in 1..n + 1 /\ Len(longer) = n + 1
      /\ DOMAIN list = 1..n /\ DOMAIN longer = 1..n + 1
  BY LenProperties DEF IsPutIn
<1>2. \A i \in 1..n + 1 : longer[i] = IF i < k THEN list[i] ELSE IF i = k THEN e ELSE list[i - 1]
  BY <1>1 DEF IsPutIn
<1> DEFINE Place(i) == IF i < k THEN i ELSE i + 1
<1>3. \A i \in 1..n : Place(i) \in 1..n + 1 /\ Place(i) # k /\ longer[Place(i)] = list[i]
  BY <1>1, <1>2
<1>4. \A i \in 1..n + 1 : i = k \/ \E j \in 1..n : i = Place(j)
  <2> SUFFICES ASSUME NEW i \in 1..n + 1, i # k
               PROVE  \E j \in 1..n : i = Place(j)
    OBVIOUS
  <2>1. CASE i < k
    BY <1>1, <2>1
  <2>2. CASE k < i
    <3>1. i - 1 \in 1..n /\ i = Place(i - 1)
      BY <1>1, <2>2
    <3> QED
      BY <3>1
  <2> QED
    BY <1>1, <2>1, <2>2
<1>5. \A i, j \in 1..n : Place(i) = Place(j) => i = j
  BY <1>1
<1>6. longer[k] = e /\ k \in 1..n + 1
  BY <1>1, <1>2
<1> HIDE DEF Place, n
<1>7. ToSet(longer) = ToSet(list) \cup {e}
  <2>1. ToSet(longer) = {longer[i] : i \in 1..n + 1} /\ ToSet(list) = {list[i] : i \in 1..n}
    BY <1>1, Zenon DEF ToSet
  <2>2. ASSUME NEW i \in 1..n + 1 PROVE longer[i] \in {list[j] : j \in 1..n} \cup {e}
    BY <1>3, <1>4, <1>6
  <2>3. ASSUME NEW i \in 1..n PROVE list[i] \in {longer[j] : j \in 1..n + 1}
    BY <1>3
  <2> QED
    BY <1>6, <2>1, <2>2, <2>3
<1>8. ASSUME \A i, j \in 1..n + 1 : longer[i] = longer[j] => i = j
      PROVE  (\A i, j \in 1..n : list[i] = list[j] => i = j) /\ e \notin ToSet(list)
  <2>1. \A i, j \in 1..n : list[i] = list[j] => i = j
    BY <1>3, <1>5, <1>8
  <2>2. \A i \in 1..n : list[i] # e
    BY <1>3, <1>6, <1>8
  <2> QED
    BY <1>1, <2>1, <2>2 DEF ToSet
<1>9. ASSUME \A i, j \in 1..n : list[i] = list[j] => i = j, e \notin ToSet(list)
      PROVE  \A i, j \in 1..n + 1 : longer[i] = longer[j] => i = j
  <2>1. \A i \in 1..n : list[i] # e
    BY <1>1, <1>9 DEF ToSet
  <2> QED
    BY <1>3, <1>4, <1>6, <1>9, <2>1
<1> QED
  BY <1>1, <1>7, <1>8, <1>9 DEF n

-----------------------------------------------------------------------------
(***************************************************************************)
(* What AddFile and RemoveFile do to the files of a folder.                *)
(***************************************************************************)
InOrder(files) ==
  \A i, j \in DOMAIN files :
    i < j => BaseName[files[i].name] <= BaseName[files[j].name]

LEMMA FileTyped ==
  ASSUME NEW files \in Seq(ProjectFile)
  PROVE  /\ Len(files) \in Nat /\ DOMAIN files = 1..Len(files)
         /\ \A i \in 1..Len(files) :
              files[i].name \in FileName /\ BaseName[files[i].name] \in Nat
<1>1. Len(files) \in Nat /\ DOMAIN files = 1..Len(files)
  BY LenProperties
<1>2. \A i \in 1..Len(files) : files[i] \in ProjectFile
  BY ElementOfSeq
<1> QED
  BY <1>1, <1>2, ProjectFilesAssumption DEF ProjectFile

\* A file put behind those before it and before those behind it.
LEMMA PutInOrder ==
  ASSUME NEW longer \in Seq(ProjectFile), NEW list \in Seq(ProjectFile), NEW k,
         NEW file \in ProjectFile, IsPutIn(longer, list, k, file), InOrder(list),
         \A i \in 1..Len(list) : i < k => BaseName[list[i].name] <= BaseName[file.name],
         \A i \in 1..Len(list) : k <= i => BaseName[file.name] <= BaseName[list[i].name]
  PROVE  InOrder(longer)
<1> DEFINE n == Len(list)
           base(f) == BaseName[f.name]
<1>1. n \in Nat /\ k \in 1..n + 1 /\ DOMAIN list = 1..n /\ DOMAIN longer = 1..n + 1
  BY FileTyped DEF IsPutIn
<1>2. \A i \in 1..n + 1 : longer[i] = IF i < k THEN list[i] ELSE IF i = k THEN file ELSE list[i - 1]
  BY <1>1 DEF IsPutIn
<1>3. base(file) \in Nat /\ \A i \in 1..n : base(list[i]) \in Nat
  BY FileTyped, ProjectFilesAssumption DEF ProjectFile
<1>4. \A i, j \in 1..n : i < j => base(list[i]) <= base(list[j])
  BY <1>1 DEF InOrder
<1>5. /\ \A i \in 1..n : i < k => base(list[i]) <= base(file)
      /\ \A i \in 1..n : k <= i => base(file) <= base(list[i])
  OBVIOUS
<1> SUFFICES ASSUME NEW i \in 1..n + 1, NEW j \in 1..n + 1, i < j
             PROVE  base(longer[i]) <= base(longer[j])
  BY <1>1 DEF InOrder
<1> HIDE DEF base, n
<1>6. CASE j < k
  BY <1>1, <1>2, <1>4, <1>6
<1>7. CASE j = k
  BY <1>1, <1>2, <1>5, <1>7
<1>8. CASE i < k /\ k < j
  BY <1>1, <1>2, <1>3, <1>5, <1>8
<1>9. CASE i = k /\ k < j
  BY <1>1, <1>2, <1>5, <1>9
<1>10. CASE k < i
  BY <1>1, <1>2, <1>4, <1>10
<1> QED
  BY <1>1, <1>6, <1>7, <1>8, <1>9, <1>10

\* The files that are left keep their order.
LEMMA LeftInOrder ==
  ASSUME NEW longer \in Seq(ProjectFile), NEW list \in Seq(ProjectFile), NEW k,
         NEW file, IsPutIn(longer, list, k, file), InOrder(longer)
  PROVE  InOrder(list)
<1> DEFINE n == Len(list)
           Place(i) == IF i < k THEN i ELSE i + 1
<1>1. n \in Nat /\ k \in 1..n + 1 /\ DOMAIN list = 1..n /\ DOMAIN longer = 1..n + 1
  BY FileTyped DEF IsPutIn
<1>2. \A i \in 1..n : Place(i) \in 1..n + 1 /\ longer[Place(i)] = list[i]
  BY <1>1 DEF IsPutIn
<1>3. \A i, j \in 1..n : i < j => Place(i) < Place(j)
  BY <1>1
<1> HIDE DEF Place, n
<1> QED
  BY <1>1, <1>2, <1>3 DEF InOrder

LEMMA FilePutIn ==
  ASSUME NEW files \in Seq(ProjectFile), NEW file \in ProjectFile
  PROVE  LET longer == InsertFile(files, file)
         IN  /\ longer \in Seq(ProjectFile)
             /\ \E k : IsPutIn(longer, files, k, file)
             /\ ~legacy /\ InOrder(files) => InOrder(longer)
<1> DEFINE n == Len(files)
           after == {i \in DOMAIN files : BaseName[file.name] < BaseName[files[i].name]}
           longer == InsertFile(files, file)
<1>1. /\ n \in Nat /\ DOMAIN files = 1..n /\ BaseName[file.name] \in Nat
      /\ \A i \in 1..n : BaseName[files[i].name] \in Nat
  BY FileTyped, ProjectFilesAssumption DEF ProjectFile
<1>2. CASE legacy \/ after = {}
  <2>1. longer = Append(files, file)
    BY <1>2 DEF InsertFile
  <2>2. longer \in Seq(ProjectFile) /\ IsPutIn(longer, files, n + 1, file)
    BY <2>1, Appended
  <2>3. ASSUME ~legacy, InOrder(files) PROVE InOrder(longer)
    <3>1. \A i \in 1..n : BaseName[files[i].name] <= BaseName[file.name]
      BY <1>1, <1>2, <2>3
    <3>2. \A i \in 1..n : ~(n + 1 <= i)
      BY <1>1
    <3> HIDE DEF longer
    <3> QED
      BY <2>2, <2>3, <3>1, <3>2, PutInOrder
  <2> QED
    BY <2>2, <2>3
<1>3. CASE ~legacy /\ after # {}
  <2> DEFINE k == CHOOSE i \in after : \A j \in after : i <= j
  <2>1. longer = InsertAt(files, k, file)
    BY <1>3 DEF InsertFile
  <2>2. after \in SUBSET Nat
    BY <1>1
  <2>3. \E i \in after : \A j \in after : i <= j
    BY <1>3, <2>2, LeastNumber
  <2>4. k \in after /\ \A j \in after : k <= j
    BY <2>3
  <2> HIDE DEF k
  <2>5. k \in 1..n /\ BaseName[file.name] < BaseName[files[k].name]
    BY <1>1, <2>4
  <2>6. longer \in Seq(ProjectFile) /\ IsPutIn(longer, files, k, file)
    BY <2>1, <2>5, Inserted
  <2>7. ASSUME InOrder(files) PROVE InOrder(longer)
    <3>1. \A i \in 1..n : i < k => BaseName[files[i].name] <= BaseName[file.name]
      BY <1>1, <2>4, <2>5
    <3>2. \A i \in 1..n : k <= i => BaseName[file.name] <= BaseName[files[i].name]
      <4> SUFFICES ASSUME NEW i \in 1..n, k <= i
                   PROVE  BaseName[files[k].name] <= BaseName[files[i].name]
        BY <1>1, <2>5
      <4>1. CASE k = i
        BY <1>1, <4>1
      <4>2. CASE k < i
        BY <1>1, <2>5, <2>7, <4>2 DEF InOrder
      <4> QED
        BY <2>5, <4>1, <4>2
    <3> HIDE DEF longer
    <3> QED
      BY <2>6, <2>7, <3>1, <3>2, PutInOrder
  <2> QED
    BY <2>6, <2>7
<1> QED
  BY <1>2, <1>3

LEMMA FileTaken ==
  ASSUME NEW files \in Seq(ProjectFile), NEW name
  PROVE  LET rest == Without(files, name)
         IN  \/ rest = files /\ \A file \in ToSet(files) : file.name # name
             \/ /\ rest \in Seq(ProjectFile)
                /\ \E k : \E file \in ToSet(files) :
                     file.name = name /\ IsPutIn(files, rest, k, file)
<1> DEFINE named == {i \in 1..Len(files) : files[i].name = name}
           found == SelectInSeq(files, LAMBDA file : file.name = name)
<1>1. found = IF named # {} THEN Min(named) ELSE 0
  BY DEF SelectInSeq
<1>2. Len(files) \in Nat /\ DOMAIN files = 1..Len(files)
  BY FileTyped
<1>3. CASE named = {}
  BY <1>1, <1>2, <1>3 DEF Without, ToSet
<1>4. CASE named # {}
  <2>1. named \in SUBSET Nat
    BY <1>2
  <2>2. \E i \in named : \A j \in named : i <= j
    BY <1>4, <2>1, LeastNumber
  <2>3. found \in named
    BY <1>1, <1>4, <2>2 DEF Min
  <2> HIDE DEF found
  <2>4. found \in 1..Len(files) /\ files[found].name = name /\ found # 0
    BY <1>2, <2>3
  <2>5. Without(files, name) = RemoveAt(files, found)
    BY <2>4 DEF Without, found
  <2>6. files[found] \in ToSet(files)
    BY <1>2, <2>4 DEF ToSet
  <2> QED
    BY <2>4, <2>5, <2>6, Removed
<1> QED
  BY <1>3, <1>4

-----------------------------------------------------------------------------
(***************************************************************************)
(* The inductive invariant: no object is in two places, what was not       *)
(* removed from within another folder is in the dictionary, and the names  *)
(* of the dictionary are there once.                                       *)
(***************************************************************************)
NoneTwice(files) == \A i, j \in 1..Len(files) : files[i] = files[j] => i = j

FilesTypeInv ==
  /\ FilesTypeOK
  /\ \A file \in Saved \cup dictionary : file.id <= objects

PlacesInv ==
  /\ \A p \in FolderPath : NoneTwice(inFolder[p])
  /\ \A p, q \in FolderPath : p # q => ToSet(inFolder[p]) \cap ToSet(inFolder[q]) = {}

NamesInv ==
  /\ \A file, other \in dictionary : file.name = other.name => file = other
  /\ \A file \in Saved : file.name \in strayed \/ file \in dictionary
  /\ \A file \in dictionary : file.name \in strayed \/ collected[file.name] > 0

FilesInv ==
  /\ FilesTypeInv
  /\ PlacesInv
  /\ NamesInv
  /\ NoDeletedEntry
  /\ FilesSorted

LEMMA FolderPaths ==
  /\ << >> \in FolderPath
  /\ \A p : p \in FolderPath <=> p \in Seq(FolderName) /\ Len(p) <= MaxDepth
<1>1. ASSUME NEW p \in FolderPath
      PROVE  p \in Seq(FolderName) /\ Len(p) <= MaxDepth
  <2>1. PICK n \in 0..MaxDepth : p \in [1..n -> FolderName]
    BY DEF FolderPath
  <2>2. n \in Nat /\ n <= MaxDepth
    BY ProjectFilesAssumption
  <2>3. p \in Seq(FolderName)
    BY <2>1, <2>2, SeqDef
  <2>4. Len(p) = n
    BY <2>1, <2>2, <2>3, LenProperties
  <2> QED
    BY <2>2, <2>3, <2>4
<1>2. ASSUME NEW p \in Seq(FolderName), Len(p) <= MaxDepth
      PROVE  p \in FolderPath
  <2>1. p \in [1..Len(p) -> FolderName] /\ Len(p) \in 0..MaxDepth
    BY <1>2, LenProperties, ProjectFilesAssumption
  <2> QED
    BY <2>1 DEF FolderPath
<1>3. << >> \in Seq(FolderName) /\ Len(<< >>) <= MaxDepth
  BY EmptySeq, ProjectFilesAssumption
<1> QED
  BY <1>1, <1>2, <1>3

LEMMA FilesInitInv == FilesInit => FilesInv
<1> SUFFICES ASSUME FilesInit PROVE FilesInv
  OBVIOUS
<1>1. \A p \in FolderPath : inFolder[p] = << >>
  BY DEF FilesInit
<1>2. << >> \in Seq(ProjectFile) /\ Len(<< >>) = 0 /\ ToSet(<< >>) = {}
  BY EmptySeq DEF ToSet
<1>3. Saved = {}
  BY <1>1, <1>2, Zenon DEF Saved
<1>4. FilesTypeOK
  BY <1>2, FolderPaths, ProjectFilesAssumption DEF FilesInit, FilesTypeOK
<1>5. FilesTypeInv /\ NamesInv /\ NoDeletedEntry
  BY <1>3, <1>4 DEF FilesInit, FilesTypeInv, NamesInv, NoDeletedEntry
<1>6. PlacesInv /\ FilesSorted
  BY <1>1, <1>2 DEF PlacesInv, NoneTwice, FilesSorted
<1> QED
  BY <1>5, <1>6 DEF FilesInv

\* The folders stay, whichever of them is open.
LEMMA FoldersStay ==
  ASSUME FilesInv, openFolder' \in FolderPath,
         UNCHANGED <<legacy, inFolder, dictionary, collected, objects, strayed>>
  PROVE  FilesInv'
<1>1. Saved' = Saved
  BY DEF Saved
<1> QED
  BY <1>1 DEF FilesInv, FilesTypeInv, FilesTypeOK, PlacesInv, NamesInv,
              NoDeletedEntry, FilesSorted

\* What is in the folders once the open one has changed.
LEMMA OneFolder ==
  ASSUME FilesTypeOK, NEW files, inFolder' = [inFolder EXCEPT ![openFolder] = files]
  PROVE  /\ openFolder \in FolderPath
         /\ inFolder[openFolder] \in Seq(ProjectFile)
         /\ \A p \in FolderPath :
              inFolder'[p] = IF p = openFolder THEN files ELSE inFolder[p]
         /\ files \in Seq(ProjectFile) => inFolder' \in [FolderPath -> Seq(ProjectFile)]
         /\ \A file : file \in Saved' <=>
              \/ file \in ToSet(files)
              \/ \E p \in FolderPath \ {openFolder} : file \in ToSet(inFolder[p])
<1>1. /\ openFolder \in FolderPath
      /\ inFolder \in [FolderPath -> Seq(ProjectFile)]
  BY DEF FilesTypeOK
<1>2. \A p \in FolderPath : inFolder'[p] = IF p = openFolder THEN files ELSE inFolder[p]
  BY <1>1
<1>3. \A file : file \in Saved' <=> \E p \in FolderPath : file \in ToSet(inFolder'[p])
  BY DEF Saved, ToSet
<1> QED
  BY <1>1, <1>2, <1>3

\* The order of the folders once the open one has changed.
LEMMA OrderStays ==
  ASSUME FilesTypeOK, FilesSorted, NEW files \in Seq(ProjectFile),
         inFolder' = [inFolder EXCEPT ![openFolder] = files], legacy' = legacy,
         ~legacy /\ InOrder(inFolder[openFolder]) => InOrder(files)
  PROVE  FilesSorted'
<1>1. FilesSorted <=> (~legacy => \A p \in FolderPath : InOrder(inFolder[p]))
  BY Zenon DEF FilesSorted, InOrder
<1>2. FilesSorted' <=> (~legacy' => \A p \in FolderPath : InOrder(inFolder'[p]))
  BY Zenon DEF FilesSorted, InOrder
<1> QED
  BY <1>1, <1>2, OneFolder

LEMMA FileAdded ==
  ASSUME FilesInv, AddFileHere
  PROVE  FilesInv'
<1> USE DEF FilesInv, FilesTypeInv
<1>1. PICK name \in FileName : StartFile(name)
  BY DEF AddFileHere
<1> DEFINE file == [name |-> name, id |-> objects + 1]
           F == inFolder[openFolder]
           longer == InsertFile(F, file)
<1>2. /\ collected' = Collected(name)
      /\ UNCHANGED <<legacy, openFolder, strayed>>
      /\ objects \in 0..MaxObjects /\ objects < MaxObjects /\ MaxObjects \in Nat
      /\ F \in Seq(ProjectFile)
  BY <1>1, ProjectFilesAssumption DEF StartFile, AddFileHere, FilesTypeOK
<1>3. /\ collected' \in [FileName -> Nat] /\ collected'[name] > 0
      /\ \A other \in FileName : other # name => collected'[other] = collected[other]
  BY <1>2 DEF Collected, FilesTypeOK
<1>4. CASE InDictionary(name)
  <2>1. UNCHANGED <<inFolder, dictionary, objects>>
    BY <1>1, <1>4 DEF StartFile
  <2>2. Saved' = Saved
    BY <2>1 DEF Saved
  <2>3. \A f \in dictionary : f.name \in FileName
    BY DEF FilesTypeOK, ProjectFile
  <2>4. NamesInv'
    BY <1>2, <1>3, <2>1, <2>2, <2>3 DEF NamesInv
  <2> QED
    BY <1>2, <1>3, <2>1, <2>2, <2>4 DEF FilesTypeOK, PlacesInv, NoDeletedEntry, FilesSorted
<1>5. CASE ~InDictionary(name)
  <2>1. /\ inFolder' = [inFolder EXCEPT ![openFolder] = longer]
        /\ dictionary' = dictionary \cup {file}
        /\ objects' = objects + 1
    BY <1>1, <1>5 DEF StartFile
  <2>2. file \in ProjectFile /\ file.name = name /\ file.id = objects + 1
    BY <1>2 DEF ProjectFile
  <2> HIDE DEF file
  <2>3. /\ longer \in Seq(ProjectFile)
        /\ \E k : IsPutIn(longer, F, k, file)
        /\ ~legacy /\ InOrder(F) => InOrder(longer)
    BY <1>2, <2>2, FilePutIn
  <2> HIDE DEF longer
  <2>4. /\ ToSet(longer) = ToSet(F) \cup {file}
        /\ NoneTwice(longer) <=> NoneTwice(F) /\ file \notin ToSet(F)
    BY <1>2, <2>3, PutIn DEF NoneTwice
  <2>5. /\ openFolder \in FolderPath
        /\ \A p \in FolderPath : inFolder'[p] = IF p = openFolder THEN longer ELSE inFolder[p]
        /\ inFolder' \in [FolderPath -> Seq(ProjectFile)]
        /\ \A f : f \in Saved' <=>
             f \in ToSet(longer) \/ \E p \in FolderPath \ {openFolder} : f \in ToSet(inFolder[p])
    BY <2>1, <2>3, OneFolder
  <2>6. \A f : f \in Saved <=> \E p \in FolderPath : f \in ToSet(inFolder[p])
    BY DEF Saved
  <2>7. Saved' = Saved \cup {file}
    BY <2>4, <2>5, <2>6
  <2>8. file \notin Saved /\ file \notin dictionary
    <3>1. \A f \in Saved \cup dictionary : f.id <= objects
      OBVIOUS
    <3> QED
      BY <1>2, <2>2, <3>1
  <2>9. FilesTypeOK'
    BY <1>2, <1>3, <2>1, <2>2, <2>5 DEF FilesTypeOK
  <2>10. ASSUME NEW f \in Saved' \cup dictionary'
         PROVE  f.id <= objects'
    <3>1. f \in Saved \cup dictionary \/ f = file
      BY <2>1, <2>7
    <3>2. \A g \in Saved \cup dictionary : g.id <= objects /\ g.id \in Nat
      <4>1. dictionary \subseteq ProjectFile /\ Saved \subseteq ProjectFile
        BY DEF FilesTypeOK, Saved, ToSet
      <4> QED
        BY <4>1, ProjectFilesAssumption DEF ProjectFile
    <3> QED
      BY <1>2, <2>1, <2>2, <3>1, <3>2
  <2>11. PlacesInv'
    <3>1. \A p \in FolderPath : NoneTwice(inFolder'[p])
      BY <2>4, <2>5, <2>6, <2>8 DEF PlacesInv
    <3>2. ASSUME NEW p \in FolderPath, NEW q \in FolderPath, p # q
          PROVE  ToSet(inFolder'[p]) \cap ToSet(inFolder'[q]) = {}
      <4>1. ToSet(inFolder[p]) \cap ToSet(inFolder[q]) = {}
        BY <3>2 DEF PlacesInv
      <4>2. file \notin ToSet(inFolder[p]) /\ file \notin ToSet(inFolder[q])
        BY <2>6, <2>8
      <4>3. CASE p = openFolder
        BY <2>4, <2>5, <3>2, <4>1, <4>2, <4>3
      <4>4. CASE q = openFolder
        BY <2>4, <2>5, <3>2, <4>1, <4>2, <4>4
      <4>5. CASE p # openFolder /\ q # openFolder
        BY <2>5, <4>1, <4>5
      <4> QED
        BY <4>3, <4>4, <4>5
    <3> QED
      BY <3>1, <3>2 DEF PlacesInv, NoneTwice
  <2>12. NamesInv'
    <3>1. \A f \in dictionary : f.name # name /\ f.name \in FileName
      BY <1>5 DEF InDictionary, FilesTypeOK, ProjectFile
    <3> QED
      BY <1>2, <1>3, <2>1, <2>2, <2>7, <3>1 DEF NamesInv
  <2>13. NoDeletedEntry'
    BY <2>1, <2>7 DEF NoDeletedEntry
  <2>14. FilesSorted'
    BY <1>2, <2>1, <2>3, OrderStays
  <2> QED
    BY <2>9, <2>10, <2>11, <2>12, <2>13, <2>14
<1> QED
  BY <1>4, <1>5

LEMMA FileRemoved ==
  ASSUME FilesInv, RemoveFileHere
  PROVE  FilesInv'
<1> USE DEF FilesInv, FilesTypeInv
<1>1. PICK name \in FileName : RemoveFile(name)
  BY DEF RemoveFileHere
<1> DEFINE F == inFolder[openFolder]
           rest == Without(F, name)
<1>2. /\ collected' = Forgotten(name)
      /\ dictionary' = {f \in dictionary : f.name # name}
      /\ strayed' = strayed \cup {f.name : f \in {g \in dictionary : g.name = name
                                                    /\ g \notin ToSet(F)}}
      /\ UNCHANGED <<legacy, openFolder, objects>>
      /\ F \in Seq(ProjectFile)
  BY <1>1 DEF RemoveFile, FilesTypeOK
<1>3. /\ collected' \in [FileName -> Nat]
      /\ \A other \in FileName : other # name => collected'[other] = collected[other]
  BY <1>2 DEF Forgotten, FilesTypeOK
<1>4. \A f \in dictionary : f.name \in FileName
  BY DEF FilesTypeOK, ProjectFile
<1>5. /\ strayed \subseteq strayed' /\ strayed' \subseteq strayed \cup {name}
      /\ \A f \in dictionary : f.name = name /\ f \notin ToSet(F) => name \in strayed'
  BY <1>2
<1>6. CASE ~InDictionary(name)
  <2>1. UNCHANGED <<inFolder, dictionary>>
    BY <1>1, <1>2, <1>6 DEF RemoveFile, InDictionary
  <2>2. Saved' = Saved
    BY <2>1 DEF Saved
  <2>3. \A f \in dictionary : f.name # name
    BY <1>6 DEF InDictionary
  <2>4. NamesInv'
    BY <1>2, <1>3, <1>4, <1>5, <2>1, <2>2, <2>3 DEF NamesInv
  <2>5. strayed' \subseteq FileName
    BY <1>5 DEF FilesTypeOK
  <2> QED
    BY <1>2, <1>3, <2>1, <2>2, <2>4, <2>5 DEF FilesTypeOK, PlacesInv, NoDeletedEntry, FilesSorted
<1>7. CASE InDictionary(name)
  <2>1. inFolder' = [inFolder EXCEPT ![openFolder] = rest]
    BY <1>1, <1>7 DEF RemoveFile
  <2>2. \/ rest = F /\ \A file \in ToSet(F) : file.name # name
        \/ /\ rest \in Seq(ProjectFile)
           /\ \E k : \E file \in ToSet(F) : file.name = name /\ IsPutIn(F, rest, k, file)
    BY <1>2, FileTaken
  <2>3. rest \in Seq(ProjectFile) /\ (InOrder(F) => InOrder(rest))
    <3> HIDE DEF rest
    <3> QED
      BY <1>2, <2>2, LeftInOrder
  <2> HIDE DEF rest
  <2>4. /\ openFolder \in FolderPath
        /\ \A p \in FolderPath : inFolder'[p] = IF p = openFolder THEN rest ELSE inFolder[p]
        /\ inFolder' \in [FolderPath -> Seq(ProjectFile)]
        /\ \A f : f \in Saved' <=>
             f \in ToSet(rest) \/ \E p \in FolderPath \ {openFolder} : f \in ToSet(inFolder[p])
    BY <2>1, <2>3, OneFolder
  <2>5. \A f : f \in Saved <=> \E p \in FolderPath : f \in ToSet(inFolder[p])
    BY DEF Saved
  \* One file of the name goes, or none is there.
  <2>6. \/ rest = F /\ \A file \in ToSet(F) : file.name # name
        \/ \E file : /\ file.name = name /\ ToSet(F) = ToSet(rest) \cup {file}
                     /\ NoneTwice(F) => NoneTwice(rest) /\ file \notin ToSet(rest)
    BY <1>2, <2>2, <2>3, PutIn DEF NoneTwice
  <2>7. /\ ToSet(rest) \subseteq ToSet(F)
        /\ \A f \in ToSet(F) : f.name # name => f \in ToSet(rest)
        /\ NoneTwice(F) => NoneTwice(rest)
    BY <2>6
  <2>8. /\ Saved' \subseteq Saved
        /\ \A f \in Saved : f.name # name => f \in Saved'
    BY <2>4, <2>5, <2>7
  <2>9. FilesTypeOK'
    <3>1. strayed' \subseteq FileName
      BY <1>5 DEF FilesTypeOK
    <3> QED
      BY <1>2, <1>3, <2>4, <3>1 DEF FilesTypeOK
  <2>10. \A f \in Saved' \cup dictionary' : f.id <= objects'
    BY <1>2, <2>8
  <2>11. PlacesInv'
    <3>1. \A p \in FolderPath : NoneTwice(inFolder'[p])
      BY <2>4, <2>7 DEF PlacesInv
    <3>2. \A p \in FolderPath : ToSet(inFolder'[p]) \subseteq ToSet(inFolder[p])
      BY <2>4, <2>7
    <3>3. \A p, q \in FolderPath : p # q => ToSet(inFolder'[p]) \cap ToSet(inFolder'[q]) = {}
      BY <3>2 DEF PlacesInv
    <3> QED
      BY <3>1, <3>3 DEF PlacesInv, NoneTwice
  \* The entry of the dictionary is the file that goes.
  <2>12. ASSUME name \notin strayed'
         PROVE  \A f \in Saved' : f.name # name
    <3>1. PICK entry \in dictionary : entry.name = name
      BY <1>7 DEF InDictionary
    <3>2. entry \in ToSet(F)
      BY <1>5, <2>12, <3>1
    <3>3. \A f \in Saved : f.name = name => f = entry
      BY <1>5, <2>12, <3>1 DEF NamesInv
    <3>4. entry \notin ToSet(rest)
      <4>1. NoneTwice(F) /\ \A f \in ToSet(F) : f \in Saved
        BY <2>4, <2>5 DEF PlacesInv
      <4> QED
        BY <2>6, <3>1, <3>2, <3>3, <4>1
    <3>5. \A p \in FolderPath \ {openFolder} : entry \notin ToSet(inFolder[p])
      BY <2>4, <3>2 DEF PlacesInv
    <3> QED
      BY <2>4, <2>8, <3>3, <3>4, <3>5
  <2>13. NamesInv'
    <3>1. \A f \in dictionary' : f \in dictionary /\ f.name # name
      BY <1>2
    <3>2. \A f \in Saved' : f.name \in strayed' \/ f \in dictionary'
      <4> SUFFICES ASSUME NEW f \in Saved', f.name \notin strayed'
                   PROVE  f \in dictionary'
        OBVIOUS
      <4>1. f.name # name
        BY <2>12
      <4>2. f \in dictionary
        BY <1>5, <2>8 DEF NamesInv
      <4> QED
        BY <1>2, <4>1, <4>2
    <3>3. \A f \in dictionary' : f.name \in strayed' \/ collected'[f.name] > 0
      BY <1>3, <1>4, <1>5, <3>1 DEF NamesInv
    <3> QED
      BY <3>1, <3>2, <3>3 DEF NamesInv
  <2>14. NoDeletedEntry'
    BY <1>2, <2>8 DEF NoDeletedEntry
  <2>15. FilesSorted'
    BY <1>2, <2>1, <2>3, OrderStays
  <2> QED
    BY <2>9, <2>10, <2>11, <2>13, <2>14, <2>15
<1> QED
  BY <1>6, <1>7

LEMMA FilesStep == FilesInv /\ [FilesNext]_filesVars => FilesInv'
<1> SUFFICES ASSUME FilesInv, [FilesNext]_filesVars
             PROVE  FilesInv'
  OBVIOUS
<1>1. openFolder \in Seq(FolderName) /\ Len(openFolder) <= MaxDepth /\ Len(openFolder) \in Nat
  BY FolderPaths DEF FilesInv, FilesTypeInv, FilesTypeOK
<1>2. CASE StartFolder
  <2>1. PICK f \in FolderName : openFolder' = Append(openFolder, f)
    BY <1>2 DEF StartFolder
  <2>2. openFolder' \in Seq(FolderName) /\ Len(openFolder') <= MaxDepth
    BY <1>1, <1>2, <2>1, AppendProperties, ProjectFilesAssumption DEF StartFolder
  <2> QED
    BY <1>2, <2>2, FolderPaths, FoldersStay DEF StartFolder
<1>3. CASE EndFolder
  <2> DEFINE n == Len(openFolder) - 1
  <2>1. openFolder' = SubSeq(openFolder, 1, n) /\ openFolder # << >>
    BY <1>3 DEF EndFolder, Front
  <2>2. n \in Nat /\ n <= Len(openFolder) /\ n <= MaxDepth /\ 1 <= n + 1
    <3>1. Len(openFolder) \in Nat \ {0}
      BY <1>1, <2>1, EmptySeq
    <3> QED
      BY <1>1, <3>1, ProjectFilesAssumption
  <2> HIDE DEF n
  <2>3. /\ SubSeq(openFolder, 1, n) \in Seq(FolderName)
        /\ Len(SubSeq(openFolder, 1, n)) = n + 1 - 1
    BY <1>1, <2>2, Part
  <2>4. openFolder' \in Seq(FolderName) /\ Len(openFolder') <= MaxDepth
    <3>1. n + 1 - 1 = n
      BY <2>2
    <3> QED
      BY <2>1, <2>2, <2>3, <3>1
  <2> QED
    BY <1>3, <2>4, FolderPaths, FoldersStay DEF EndFolder
<1>4. CASE AddFileHere
  BY <1>4, FileAdded
<1>5. CASE RemoveFileHere
  BY <1>5, FileRemoved
<1>6. CASE UNCHANGED filesVars
  BY <1>6, FoldersStay, FolderPaths, <1>1 DEF filesVars
<1> QED
  BY <1>2, <1>3, <1>4, <1>5, <1>6 DEF FilesNext

(***************************************************************************)
(* The folders, the dictionary and the counts of the collector keep their  *)
(* types, whatever is added and removed.                                  *)
(***************************************************************************)
THEOREM FilesTyped == FilesSpec => []FilesTypeOK
<1>1. FilesInv => FilesTypeOK
  BY DEF FilesInv, FilesTypeInv
<1> QED
  BY FilesInitInv, FilesStep, <1>1, PTL DEF FilesSpec

(***************************************************************************)
(* The dictionary, the folders and the collector always tell the same      *)
(* story of the files that were not removed from within another folder     *)
(* than their own, and a folder is in order: StartFile and RemoveFile of   *)
(* the generator, the collector and the folders, any number of them.       *)
(***************************************************************************)
THEOREM FilesStayAccounted == FilesSpec => []FilesAccounted
<1>1. FilesInit => FilesInv
  BY FilesInitInv
<1>2. FilesInv /\ [FilesNext]_filesVars => FilesInv'
  BY FilesStep
<1>3. FilesInv => FilesAccounted
  <2> SUFFICES ASSUME FilesInv PROVE ListedOnce
    BY DEF FilesInv, FilesAccounted
  <2> SUFFICES ASSUME NEW name \in FileName \ strayed
               PROVE  /\ Cardinality({file \in Saved : file.name = name}) <= 1
                      /\ {file \in Saved : file.name = name} \subseteq dictionary
                      /\ InDictionary(name) => collected[name] > 0
    BY DEF ListedOnce
  <2> DEFINE files == {file \in Saved : file.name = name}
  <2>1. files \subseteq dictionary /\ \A f, g \in files : f = g
    BY DEF FilesInv, NamesInv
  <2>2. Cardinality(files) <= 1
    <3>1. files = {} \/ \E f : files = {f}
      BY <2>1
    <3> HIDE DEF files
    <3>2. Cardinality({}) = 0 /\ \A f : Cardinality({f}) = 1
      BY FS_EmptySet, FS_Singleton, Zenon
    <3>3. Cardinality(files) = 0 \/ Cardinality(files) = 1
      BY <3>1, <3>2, Zenon
    <3> QED
      BY <3>3
  <2>3. InDictionary(name) => collected[name] > 0
    BY DEF FilesInv, NamesInv, InDictionary
  <2> QED
    BY <2>1, <2>2, <2>3
<1> QED
  BY <1>1, <1>2, <1>3, PTL DEF FilesSpec

-----------------------------------------------------------------------------
(***************************************************************************)
(* What a script can read of a table, as a set of names with their texts,  *)
(* and which names VPC itself made: all that the operations look at.       *)
(***************************************************************************)
TextsIn(macros) == {<<macros[k].name, macros[k].value[1]>> : k \in 1..Len(macros)}
FlagsIn(macros) == {<<macros[k].name, macros[k].internal>> : k \in 1..Len(macros)}
\* A name with another text, or one that was not there.
Put(pairs, name, x) == {p \in pairs : p[1] # name} \cup {<<name, x>>}

Created(flags, name) ==
  IF \E p \in flags : p[1] = name THEN flags ELSE flags \cup {<<name, FALSE>>}

NamesOnce(macros) == \A j, k \in 1..Len(macros) : macros[j].name = macros[k].name => j = k

IsTable(macros) == macros \in Seq(MacroEntry) /\ NamesOnce(macros)

LEMMA EntryTyped ==
  ASSUME NEW macros \in Seq(MacroEntry), NEW k \in 1..Len(macros)
  PROVE  /\ macros[k] \in MacroEntry /\ macros[k].name \in MacroName
         /\ macros[k].value \in Value /\ macros[k].internal \in BOOLEAN
         /\ macros[k].value[1] \in Text \cup {Empty}
<1>1. macros[k] \in MacroEntry
  BY ElementOfSeq
<1> QED
  BY <1>1 DEF MacroEntry, Value

\* Entries that are changed in place.
LEMMA Changed ==
  ASSUME NEW macros, IsTable(macros), NEW other,
         other \in [1..Len(macros) -> MacroEntry],
         \A k \in 1..Len(macros) : other[k].name = macros[k].name
  PROVE  IsTable(other) /\ Len(other) = Len(macros)
<1>1. Len(macros) \in Nat
  BY LenProperties DEF IsTable
<1>2. other \in Seq(MacroEntry)
  BY <1>1, SeqDef
<1>3. Len(other) = Len(macros)
  BY <1>1, <1>2, LenProperties
<1> QED
  BY <1>2, <1>3 DEF IsTable, NamesOnce

\* FindOrCreateMacro: the name has the text afterwards, the others keep theirs.
LEMMA FoundOrCreated ==
  ASSUME NEW macros, IsTable(macros), NEW name \in MacroName, NEW v \in Value
  PROVE  LET found == FindOrCreateMacro(macros, name, v)
         IN  /\ IsTable(found)
             /\ TextsIn(found) = Put(TextsIn(macros), name, v[1])
             /\ FlagsIn(found) = Created(FlagsIn(macros), name)
             /\ \E k \in 1..Len(found) : found[k].name = name
<1> DEFINE n == Len(macros)
           found == FindOrCreateMacro(macros, name, v)
<1>1. /\ macros \in Seq(MacroEntry) /\ n \in Nat
      /\ \A k \in 1..n : /\ macros[k] \in MacroEntry /\ macros[k].name \in MacroName
                         /\ macros[k].value \in Value /\ macros[k].internal \in BOOLEAN
  BY LenProperties, EntryTyped DEF IsTable
<1>2. CASE \E k \in 1..n : macros[k].name = name
  <2> DEFINE new(k) == IF macros[k].name = name /\ macros[k].value[1] # v[1]
                       THEN [macros[k] EXCEPT !.value = v] ELSE macros[k]
  <2>1. found = [k \in 1..n |-> new(k)]
    BY <1>2 DEF FindOrCreateMacro
  <2>2. ASSUME NEW k \in 1..n
        PROVE  /\ new(k) \in MacroEntry /\ new(k).name = macros[k].name
               /\ new(k).internal = macros[k].internal
               /\ new(k).value[1] = IF macros[k].name = name THEN v[1] ELSE macros[k].value[1]
    BY <1>1 DEF MacroEntry
  <2> HIDE DEF new
  <2>3. found \in [1..n -> MacroEntry] /\ \A k \in 1..n : found[k] = new(k)
    BY <2>1, <2>2
  <2> HIDE DEF found
  <2>4. IsTable(found) /\ Len(found) = n
    BY <2>2, <2>3, Changed
  <2>5. /\ TextsIn(found) = {<<new(k).name, new(k).value[1]>> : k \in 1..n}
        /\ FlagsIn(found) = {<<new(k).name, new(k).internal>> : k \in 1..n}
    BY <2>3, <2>4 DEF TextsIn, FlagsIn
  <2>6. FlagsIn(found) = FlagsIn(macros)
    BY <2>2, <2>5 DEF FlagsIn
  <2>7. TextsIn(found) = {p \in TextsIn(macros) : p[1] # name} \cup {<<name, v[1]>>}
    <3>1. ASSUME NEW p \in TextsIn(found)
          PROVE  p \in {q \in TextsIn(macros) : q[1] # name} \cup {<<name, v[1]>>}
      <4>1. PICK k \in 1..n : p = <<new(k).name, new(k).value[1]>>
        BY <2>5
      <4>2. CASE macros[k].name = name
        BY <2>2, <4>1, <4>2
      <4>3. CASE macros[k].name # name
        <5>1. p = <<macros[k].name, macros[k].value[1]>>
          BY <2>2, <4>1, <4>3
        <5>2. p \in TextsIn(macros)
          BY <5>1 DEF TextsIn
        <5> QED
          BY <4>3, <5>1, <5>2
      <4> QED
        BY <4>2, <4>3
    <3>2. ASSUME NEW p \in {q \in TextsIn(macros) : q[1] # name} \cup {<<name, v[1]>>}
          PROVE  p \in TextsIn(found)
      <4>1. CASE p = <<name, v[1]>>
        BY <1>2, <2>2, <2>5, <4>1
      <4>2. CASE p \in TextsIn(macros) /\ p[1] # name
        BY <2>2, <2>5, <4>2 DEF TextsIn
      <4> QED
        BY <4>1, <4>2
    <3> QED
      BY <3>1, <3>2
  <2>8. \E p \in FlagsIn(macros) : p[1] = name
    <3>1. PICK k \in 1..n : macros[k].name = name
      BY <1>2
    <3>2. <<macros[k].name, macros[k].internal>> \in FlagsIn(macros)
      BY DEF FlagsIn
    <3> QED
      BY <3>1, <3>2
  <2>9. \E k \in 1..Len(found) : found[k].name = name
    BY <1>2, <2>2, <2>3, <2>4
  <2> QED
    BY <2>4, <2>6, <2>7, <2>8, <2>9 DEF found, Put, Created
<1>3. CASE ~\E k \in 1..n : macros[k].name = name
  <2> DEFINE entry == [name |-> name, value |-> v, internal |-> FALSE]
  <2>1. found = Append(macros, entry)
    BY <1>3 DEF FindOrCreateMacro
  <2>2. entry \in MacroEntry /\ entry.name = name /\ entry.value = v /\ entry.internal = FALSE
    BY DEF MacroEntry
  <2> HIDE DEF entry
  <2>3. /\ found \in Seq(MacroEntry) /\ Len(found) = n + 1
        /\ \A k \in 1..n : found[k] = macros[k]
        /\ found[n + 1] = entry
    BY <1>1, <2>1, <2>2, AppendProperties
  <2> HIDE DEF found
  <2>4. \A k \in 1..n + 1 : k \in 1..n \/ k = n + 1
    BY <1>1
  <2>5. NamesOnce(found)
    BY <1>1, <1>3, <2>2, <2>3, <2>4 DEF IsTable, NamesOnce
  <2>6. /\ TextsIn(found) = TextsIn(macros) \cup {<<name, v[1]>>}
        /\ FlagsIn(found) = FlagsIn(macros) \cup {<<name, FALSE>>}
    <3>1. 1..n + 1 = 1..n \cup {n + 1}
      BY <1>1
    <3>2. /\ TextsIn(found) = {<<found[k].name, found[k].value[1]>> : k \in 1..n \cup {n + 1}}
          /\ FlagsIn(found) = {<<found[k].name, found[k].internal>> : k \in 1..n \cup {n + 1}}
      BY <2>3, <3>1, Zenon DEF TextsIn, FlagsIn
    <3>3. /\ TextsIn(found) = {<<found[k].name, found[k].value[1]>> : k \in 1..n}
                               \cup {<<found[n + 1].name, found[n + 1].value[1]>>}
          /\ FlagsIn(found) = {<<found[k].name, found[k].internal>> : k \in 1..n}
                               \cup {<<found[n + 1].name, found[n + 1].internal>>}
      BY <3>2
    <3>4. {<<found[k].name, found[k].value[1]>> : k \in 1..n} = TextsIn(macros)
      BY <2>3 DEF TextsIn
    <3>5. {<<found[k].name, found[k].internal>> : k \in 1..n} = FlagsIn(macros)
      BY <2>3 DEF FlagsIn
    <3> QED
      BY <2>2, <2>3, <3>3, <3>4, <3>5, Zenon
  <2>7. /\ \A p \in TextsIn(macros) : p[1] # name
        /\ \A p \in FlagsIn(macros) : p[1] # name
    BY <1>3 DEF TextsIn, FlagsIn
  <2>8. n + 1 \in 1..Len(found) /\ found[n + 1].name = name
    BY <1>1, <2>2, <2>3
  <2> QED
    BY <2>3, <2>5, <2>6, <2>7, <2>8 DEF IsTable, found, Put, Created
<1> QED
  BY <1>2, <1>3

\* SetMacro: as FindOrCreateMacro, and the name is VPC's own.
LEMMA MacroSet ==
  ASSUME NEW macros, IsTable(macros), NEW name \in MacroName, NEW v \in Value
  PROVE  LET made == SetMacro(macros, name, v)
         IN  /\ IsTable(made)
             /\ TextsIn(made) = Put(TextsIn(macros), name, v[1])
             /\ FlagsIn(made) = Put(FlagsIn(macros), name, TRUE)
<1> DEFINE found == FindOrCreateMacro(macros, name, v)
           n == Len(found)
           new(k) == IF found[k].name = name THEN [found[k] EXCEPT !.internal = TRUE] ELSE found[k]
           made == SetMacro(macros, name, v)
<1>1. /\ IsTable(found)
      /\ TextsIn(found) = Put(TextsIn(macros), name, v[1])
      /\ FlagsIn(found) = Created(FlagsIn(macros), name)
      /\ \E k \in 1..n : found[k].name = name
  <2> HIDE DEF found
  <2> QED
    BY FoundOrCreated DEF found
<1>2. made = [k \in 1..n |-> new(k)]
  BY DEF SetMacro
<1> HIDE DEF found, made
<1>3. /\ found \in Seq(MacroEntry) /\ n \in Nat
      /\ \A k \in 1..n : /\ found[k] \in MacroEntry /\ found[k].name \in MacroName
                         /\ found[k].value \in Value /\ found[k].internal \in BOOLEAN
  BY <1>1, LenProperties, EntryTyped DEF IsTable
<1>4. ASSUME NEW k \in 1..n
      PROVE  /\ new(k) \in MacroEntry /\ new(k).name = found[k].name
             /\ new(k).value = found[k].value
             /\ new(k).internal = IF found[k].name = name THEN TRUE ELSE found[k].internal
  BY <1>3 DEF MacroEntry
<1> HIDE DEF new
<1>5. made \in [1..n -> MacroEntry] /\ \A k \in 1..n : made[k] = new(k)
  BY <1>2, <1>4
<1>6. IsTable(made) /\ Len(made) = n
  BY <1>1, <1>4, <1>5, Changed
<1>7. TextsIn(made) = TextsIn(found)
  BY <1>4, <1>5, <1>6 DEF TextsIn
<1>8. FlagsIn(made) = {<<new(k).name, new(k).internal>> : k \in 1..n}
  BY <1>5, <1>6 DEF FlagsIn
<1>9. FlagsIn(made) = {p \in FlagsIn(macros) : p[1] # name} \cup {<<name, TRUE>>}
  <2>1. ASSUME NEW p \in FlagsIn(made)
        PROVE  p \in {q \in FlagsIn(macros) : q[1] # name} \cup {<<name, TRUE>>}
    <3>1. PICK k \in 1..n : p = <<new(k).name, new(k).internal>>
      BY <1>8
    <3>2. CASE found[k].name = name
      BY <1>4, <3>1, <3>2
    <3>3. CASE found[k].name # name
      <4>1. p = <<found[k].name, found[k].internal>>
        BY <1>4, <3>1, <3>3
      <4>2. p \in FlagsIn(found)
        BY <4>1 DEF FlagsIn
      <4>3. p \in FlagsIn(macros)
        <5>1. p # <<name, FALSE>>
          BY <3>3, <4>1
        <5>2. p \in Created(FlagsIn(macros), name)
          BY <1>1, <4>2, Zenon
        <5> QED
          BY <5>1, <5>2 DEF Created
      <4> QED
        BY <3>3, <4>1, <4>3
    <3> QED
      BY <3>2, <3>3
  <2>2. ASSUME NEW p \in {q \in FlagsIn(macros) : q[1] # name} \cup {<<name, TRUE>>}
        PROVE  p \in FlagsIn(made)
    <3>1. CASE p = <<name, TRUE>>
      <4>1. PICK k \in 1..n : found[k].name = name
        BY <1>1
      <4>2. p = <<new(k).name, new(k).internal>>
        BY <1>4, <3>1, <4>1
      <4> QED
        BY <1>8, <4>2
    <3>2. CASE p \in FlagsIn(macros) /\ p[1] # name
      <4>1. PICK k \in 1..n : p = <<found[k].name, found[k].internal>>
        BY <1>1, <3>2 DEF FlagsIn, Created
      <4>2. found[k].name # name
        BY <3>2, <4>1
      <4>3. p = <<new(k).name, new(k).internal>>
        BY <1>4, <4>1, <4>2
      <4> QED
        BY <1>8, <4>3
    <3> QED
      BY <3>1, <3>2
  <2> QED
    BY <2>1, <2>2
<1> QED
  BY <1>1, <1>6, <1>7, <1>9 DEF made, Put

\* RemoveScriptCreatedMacros: what VPC made is left, and nothing else.
LEMMA OnlyInternalLeft ==
  ASSUME NEW macros, IsTable(macros)
  PROVE  LET left == RemoveScriptCreatedMacros(macros)
         IN  /\ IsTable(left)
             /\ \A p : p \in TextsIn(left) <=>
                  \E k \in 1..Len(macros) :
                    macros[k].internal /\ p = <<macros[k].name, macros[k].value[1]>>
             /\ \A p : p \in FlagsIn(left) <=> p \in FlagsIn(macros) /\ p[2] = TRUE
<1> DEFINE n == Len(macros)
           S == Seq(MacroEntry)
           G == [p \in (1..n) \X S |->
                   IF macros[p[1]].internal THEN Append(p[2], macros[p[1]]) ELSE p[2]]
           Def(f) == f = [k \in 0..n |->
                            IF k = 0 THEN << >>
                            ELSE IF macros[k].internal THEN Append(f[k - 1], macros[k]) ELSE f[k - 1]]
           kept == CHOOSE f : Def(f)
<1>1. /\ macros \in S /\ n \in Nat
      /\ \A k \in 1..n : macros[k] \in MacroEntry /\ macros[k].internal \in BOOLEAN
  BY LenProperties, EntryTyped DEF IsTable
<1>2. RemoveScriptCreatedMacros(macros) = kept[n]
  BY Zenon DEF RemoveScriptCreatedMacros
<1>3. G \in [(1..n) \X S -> S]
  <2>1. ASSUME NEW p \in (1..n) \X S PROVE G[p] \in S
    BY <1>1, AppendProperties
  <2> QED
    BY <2>1
<1>4. << >> \in S
  BY EmptySeq
<1>5. \E f \in [0..n -> S] : IsSteps(G, << >>, n, f)
  <2> HIDE DEF G, S
  <2> QED
    BY <1>1, <1>3, <1>4, StepsExist, Zenon
<1>6. \E f \in [0..n -> S] : Def(f)
  <2>1. PICK f \in [0..n -> S] : IsSteps(G, << >>, n, f)
    BY <1>5
  <2>2. ASSUME NEW k \in 1..n
        PROVE  G[<<k, f[k - 1]>>]
                 = IF macros[k].internal THEN Append(f[k - 1], macros[k]) ELSE f[k - 1]
    <3>1. f[k - 1] \in S
      OBVIOUS
    <3> QED
      BY <3>1
  <2>3. \A k \in 0..n : f[k] =
          IF k = 0 THEN << >>
          ELSE IF macros[k].internal THEN Append(f[k - 1], macros[k]) ELSE f[k - 1]
    <3> HIDE DEF G
    <3>1. \A k \in 0..n : f[k] = IF k = 0 THEN << >> ELSE G[<<k, f[k - 1]>>]
      BY <2>1, Zenon DEF IsSteps
    <3>2. \A k \in 0..n : k # 0 => k \in 1..n
      BY <1>1
    <3> QED
      BY <2>2, <3>1, <3>2, Zenon
  <2>4. Def(f)
    BY <2>3
  <2> QED
    BY <2>4
<1>7. Def(kept)
  BY <1>6, Zenon
<1>8. /\ kept[0] = << >>
      /\ \A k \in 1..n : kept[k] =
           IF macros[k].internal THEN Append(kept[k - 1], macros[k]) ELSE kept[k - 1]
  <2> HIDE DEF kept
  <2>1. \A k \in 0..n : kept[k] =
          IF k = 0 THEN << >>
          ELSE IF macros[k].internal THEN Append(kept[k - 1], macros[k]) ELSE kept[k - 1]
    BY <1>7, Zenon
  <2>2. \A k \in 1..n : k \in 0..n /\ k # 0
    BY <1>1
  <2> QED
    BY <1>1, <2>1, <2>2
<1> HIDE DEF kept
\* What is kept of the first entries.
<1> DEFINE Internal(k) == {j \in 1..k : macros[j].internal}
           Kept(k) == /\ kept[k] \in S
                      /\ \A i \in 1..Len(kept[k]) : \E j \in Internal(k) : kept[k][i] = macros[j]
                      /\ \A j \in Internal(k) : \E i \in 1..Len(kept[k]) : kept[k][i] = macros[j]
                      /\ NamesOnce(kept[k])
           T == {k \in Nat : k <= n => Kept(k)}
<1>9. 0 \in T
  <2>1. Internal(0) = {} /\ kept[0] \in S /\ Len(kept[0]) = 0
    BY <1>4, <1>8, EmptySeq
  <2>2. NamesOnce(kept[0])
    BY <2>1 DEF NamesOnce
  <2> HIDE DEF Internal
  <2> QED
    BY <2>1, <2>2
<1>10. ASSUME NEW k \in Nat, k \in T
       PROVE  k + 1 \in T
  <2> SUFFICES ASSUME k + 1 <= n
               PROVE  Kept(k + 1)
    OBVIOUS
  <2> DEFINE before == kept[k]
  <2>1. Kept(k)
    BY <1>1, <1>10
  <2>2. k + 1 \in 1..n /\ k + 1 - 1 = k /\ 1..k + 1 = 1..k \cup {k + 1} /\ k + 1 \notin 1..k
    BY <1>1
  <2>3. kept[k + 1] = IF macros[k + 1].internal THEN Append(before, macros[k + 1]) ELSE before
    BY <1>8, <2>2
  <2>4. CASE ~macros[k + 1].internal
    <3>1. Internal(k + 1) = Internal(k)
      BY <2>2, <2>4
    <3> QED
      BY <2>1, <2>3, <2>4, <3>1
  <2>5. CASE macros[k + 1].internal
    <3> DEFINE new == kept[k + 1]
    <3>1. Internal(k + 1) = Internal(k) \cup {k + 1}
      BY <2>2, <2>5
    <3>2. new = Append(before, macros[k + 1])
      BY <2>3, <2>5
    <3>3. before \in S /\ Len(before) \in Nat
      BY <2>1, LenProperties
    <3> HIDE DEF new, before
    <3>4. /\ new \in S /\ Len(new) = Len(before) + 1
          /\ \A i \in 1..Len(before) : new[i] = before[i]
          /\ new[Len(before) + 1] = macros[k + 1]
      BY <1>1, <2>2, <3>2, <3>3, AppendProperties
    <3>5. 1..Len(new) = 1..Len(before) \cup {Len(before) + 1} /\ Len(before) + 1 \notin 1..Len(before)
      BY <3>3, <3>4
    <3>6. /\ \A i \in 1..Len(before) : \E j \in Internal(k) : before[i] = macros[j]
          /\ \A j \in Internal(k) : \E i \in 1..Len(before) : before[i] = macros[j]
          /\ NamesOnce(before)
      BY <2>1 DEF before
    <3> HIDE DEF Internal
    <3>7. \A i \in 1..Len(new) : \E j \in Internal(k + 1) : new[i] = macros[j]
      BY <3>1, <3>4, <3>5, <3>6
    <3>8. ASSUME NEW j \in Internal(k + 1)
          PROVE  \E i \in 1..Len(new) : new[i] = macros[j]
      <4>1. CASE j = k + 1
        BY <3>4, <3>5, <4>1
      <4>2. CASE j \in Internal(k)
        <5>1. PICK i \in 1..Len(before) : before[i] = macros[j]
          BY <3>6, <4>2
        <5> QED
          BY <3>4, <3>5, <5>1
      <4> QED
        BY <3>1, <4>1, <4>2
    <3>9. \A i \in 1..Len(before) : before[i].name # macros[k + 1].name
      <4>1. \A j \in Internal(k) : j \in 1..n /\ j # k + 1
        BY <1>1, <2>2 DEF Internal
      <4>2. \A j \in Internal(k) : macros[j].name # macros[k + 1].name
        BY <2>2, <4>1 DEF IsTable, NamesOnce
      <4> QED
        BY <3>6, <4>2
    <3>10. NamesOnce(new)
      BY <3>4, <3>5, <3>6, <3>9 DEF NamesOnce
    <3> QED
      BY <3>4, <3>7, <3>8, <3>10 DEF new
  <2> QED
    BY <2>4, <2>5
<1>11. Kept(n)
  <2> HIDE DEF Kept
  <2>1. Nat \subseteq T
    <3> HIDE DEF T
    <3> QED BY <1>9, <1>10, NumbersInduction
  <2> QED
    BY <1>1, <2>1
<1> DEFINE left == kept[n]
<1>12. left = RemoveScriptCreatedMacros(macros)
  BY <1>2
<1>13. /\ left \in S /\ NamesOnce(left)
       /\ \A i \in 1..Len(left) : \E j \in 1..n : macros[j].internal /\ left[i] = macros[j]
       /\ \A j \in 1..n : macros[j].internal => \E i \in 1..Len(left) : left[i] = macros[j]
  BY <1>11
<1> HIDE DEF left
<1>14. ASSUME NEW p
       PROVE  p \in TextsIn(left) <=>
                \E k \in 1..n : macros[k].internal /\ p = <<macros[k].name, macros[k].value[1]>>
  <2>1. ASSUME p \in TextsIn(left)
        PROVE  \E k \in 1..n : macros[k].internal /\ p = <<macros[k].name, macros[k].value[1]>>
    <3>1. PICK i \in 1..Len(left) : p = <<left[i].name, left[i].value[1]>>
      BY <2>1 DEF TextsIn
    <3>2. PICK j \in 1..n : macros[j].internal /\ left[i] = macros[j]
      BY <1>13
    <3> QED
      BY <3>1, <3>2
  <2>2. ASSUME NEW k \in 1..n, macros[k].internal, p = <<macros[k].name, macros[k].value[1]>>
        PROVE  p \in TextsIn(left)
    <3>1. PICK i \in 1..Len(left) : left[i] = macros[k]
      BY <1>13, <2>2
    <3> QED
      BY <2>2, <3>1 DEF TextsIn
  <2> QED
    BY <2>1, <2>2
<1>15. ASSUME NEW p
       PROVE  p \in FlagsIn(left) <=> p \in FlagsIn(macros) /\ p[2] = TRUE
  <2>1. p \in FlagsIn(left) <=>
          \E k \in 1..n : macros[k].internal /\ p = <<macros[k].name, macros[k].internal>>
    <3>1. ASSUME p \in FlagsIn(left)
          PROVE  \E k \in 1..n : macros[k].internal /\ p = <<macros[k].name, macros[k].internal>>
      <4>1. PICK i \in 1..Len(left) : p = <<left[i].name, left[i].internal>>
        BY <3>1 DEF FlagsIn
      <4>2. PICK j \in 1..n : macros[j].internal /\ left[i] = macros[j]
        BY <1>13
      <4> QED
        BY <4>1, <4>2
    <3>2. ASSUME NEW k \in 1..n, macros[k].internal, p = <<macros[k].name, macros[k].internal>>
          PROVE  p \in FlagsIn(left)
      <4>1. PICK i \in 1..Len(left) : left[i] = macros[k]
        BY <1>13, <3>2
      <4> QED
        BY <3>2, <4>1 DEF FlagsIn
    <3> QED
      BY <3>1, <3>2
  <2>2. p \in FlagsIn(macros) <=> \E k \in 1..n : p = <<macros[k].name, macros[k].internal>>
    BY DEF FlagsIn
  <2>3. \A k \in 1..n : macros[k].internal <=> <<macros[k].name, macros[k].internal>>[2] = TRUE
    BY <1>1
  <2> QED
    BY <2>1, <2>2, <2>3, Zenon
<1> QED
  BY <1>12, <1>13, <1>14, <1>15 DEF IsTable

-----------------------------------------------------------------------------
(***************************************************************************)
(* The tables at the start, when a project begins and after a statement.   *)
(***************************************************************************)
Own == Builtin \cup {"PROJECTDIR"}

\* VPC made the macros that are its own, and these are there.
Owned(flags, names) ==
  /\ \A p \in flags : p[2] = TRUE <=> p[1] \in Own
  /\ \A b \in names : <<b, TRUE>> \in flags

Tables == [macros : Seq(MacroEntry), conditions : [Custom -> BOOLEAN],
           alias : Value, failed : BOOLEAN]

IsTables(t, names) ==
  t \in Tables /\ NamesOnce(t.macros) /\ Owned(FlagsIn(t.macros), names)

SeenAlike(t, other) ==
  /\ TextsIn(t.macros) = TextsIn(other.macros) /\ t.conditions = other.conditions
  /\ t.alias[1] = other.alias[1] /\ t.failed = other.failed

LEMMA SeenIsVisible ==
  ASSUME NEW t, NEW other
  PROVE  SeenAlike(t, other) <=> Visible(t) = Visible(other)
BY DEF SeenAlike, Visible, TextsIn

StartTexts == {<<b, Empty>> : b \in Builtin}

LEMMA AtStartup ==
  /\ IsTables(Startup, Builtin)
  /\ TextsIn(Startup.macros) = StartTexts
  /\ Startup.conditions = [c \in Custom |-> FALSE]
  /\ Startup.failed = FALSE
<1> DEFINE c == CHOOSE c \in Letters : TRUE
           empty == <<Empty, c>>
           entry(b) == [name |-> b, value |-> empty, internal |-> TRUE]
           S == {entry(b) : b \in Builtin}
           n == Cardinality(S)
           s == SetToSeq(S)
<1>1. empty \in Value /\ empty[1] = Empty
  BY MacrosAssumption DEF Value
<1> HIDE DEF empty
<1>2. \A b \in Builtin : entry(b) \in MacroEntry
  BY <1>1 DEF MacroEntry, MacroName
<1>3. IsFiniteSet(S)
  <2> DEFINE f == [b \in Builtin |-> entry(b)]
  <2>1. f \in Bijection(Builtin, S)
    <3>1. f \in [Builtin -> S] /\ \A q \in S : \E b \in Builtin : f[b] = q
      OBVIOUS
    <3>2. \A b, d \in Builtin : f[b] = f[d] => b = d
      <4>1. \A b, d \in Builtin : entry(b) = entry(d) => b = d
        OBVIOUS
      <4> QED
        BY <4>1
    <3> QED
      BY <3>1, <3>2 DEF Bijection, Injection, Surjection, IsInjective
  <2> QED
    BY <2>1, MacrosAssumption, FS_Bijection DEF ExistsBijection
<1> HIDE DEF S
<1>4. s \in Injection(1..n, S) /\ s \in Surjection(1..n, S) /\ n \in Nat
  <2>1. n \in Nat /\ IsFiniteSet(1..n) /\ Cardinality(1..n) = n
    BY <1>3, FS_CardinalityType, FS_Interval
  <2>2. \E f : f \in [1..n -> S] /\ IsInjective(f)
    BY <1>3, FS_CardinalityType DEF ExistsBijection, Bijection, Injection
  <2>3. s \in [1..n -> S] /\ IsInjective(s)
    BY <2>2, Zenon DEF SetToSeq
  <2> HIDE DEF s, n
  <2>4. s \in Injection(1..n, S)
    BY <2>3 DEF Injection
  <2> QED
    BY <1>3, <2>1, <2>4, FS_Injection DEF n
<1>5. /\ s \in [1..n -> S] /\ \A q \in S : \E k \in 1..n : s[k] = q
      /\ \A j, k \in 1..n : s[j] = s[k] => j = k
  BY <1>4 DEF Injection, Surjection, IsInjective
<1> HIDE DEF s, n
<1>6. S \subseteq MacroEntry
  BY <1>2 DEF S
<1>7. s \in Seq(MacroEntry) /\ Len(s) = n
  <2>1. s \in [1..n -> MacroEntry]
    BY <1>5, <1>6
  <2>2. s \in Seq(MacroEntry)
    BY <1>4, <2>1, SeqDef
  <2> QED
    BY <1>4, <2>1, <2>2, LenProperties
<1>8. \A k \in 1..n : \E b \in Builtin : s[k] = entry(b)
  BY <1>5 DEF S
<1>9. \A b \in Builtin : \E k \in 1..n : s[k] = entry(b)
  BY <1>5 DEF S
<1>10. NamesOnce(s)
  <2> SUFFICES ASSUME NEW j \in 1..n, NEW k \in 1..n, s[j].name = s[k].name
               PROVE  j = k
    BY <1>7 DEF NamesOnce
  <2>1. PICK b \in Builtin : s[j] = entry(b)
    BY <1>8
  <2>2. PICK d \in Builtin : s[k] = entry(d)
    BY <1>8
  <2>3. b = d
    BY <2>1, <2>2
  <2> QED
    BY <1>5, <2>1, <2>2, <2>3
<1>11. TextsIn(s) = StartTexts
  <2>1. ASSUME NEW k \in 1..n PROVE <<s[k].name, s[k].value[1]>> \in StartTexts
    <3>1. PICK b \in Builtin : s[k] = entry(b)
      BY <1>8
    <3>2. <<b, Empty>> = <<s[k].name, s[k].value[1]>>
      BY <1>1, <3>1
    <3> QED
      BY <3>2 DEF StartTexts
  <2>2. ASSUME NEW b \in Builtin PROVE <<b, Empty>> \in TextsIn(s)
    <3>1. PICK k \in 1..n : s[k] = entry(b)
      BY <1>9
    <3>2. <<b, Empty>> = <<s[k].name, s[k].value[1]>>
      BY <1>1, <3>1
    <3> QED
      BY <1>7, <3>2 DEF TextsIn
  <2> QED
    BY <1>7, <2>1, <2>2 DEF TextsIn, StartTexts
<1>12. Owned(FlagsIn(s), Builtin)
  <2>1. ASSUME NEW p \in FlagsIn(s) PROVE p[2] = TRUE <=> p[1] \in Own
    <3>1. PICK k \in 1..n : p = <<s[k].name, s[k].internal>>
      BY <1>7 DEF FlagsIn
    <3>2. PICK b \in Builtin : s[k] = entry(b)
      BY <1>8
    <3> QED
      BY <3>1, <3>2 DEF Own
  <2>2. ASSUME NEW b \in Builtin PROVE <<b, TRUE>> \in FlagsIn(s)
    <3>1. PICK k \in 1..n : s[k] = entry(b)
      BY <1>9
    <3>2. <<b, TRUE>> = <<s[k].name, s[k].internal>>
      BY <3>1
    <3> QED
      BY <1>7, <3>2 DEF FlagsIn
  <2> QED
    BY <2>1, <2>2 DEF Owned
<1>13. Startup = [macros |-> s, conditions |-> [d \in Custom |-> FALSE],
                  alias |-> empty, failed |-> FALSE]
  BY Zenon DEF Startup, s, S, empty
<1> QED
  BY <1>1, <1>7, <1>10, <1>11, <1>12, <1>13 DEF IsTables, Tables

\* A name that VPC does not own, or that is there, changes nothing about it.
LEMMA CreatedOwned ==
  ASSUME NEW flags, NEW names, Owned(flags, names), NEW name,
         name \in names \/ name \notin Own
  PROVE  Owned(Created(flags, name), names)
<1>1. CASE \E p \in flags : p[1] = name
  BY <1>1 DEF Created
<1>2. CASE ~\E p \in flags : p[1] = name
  <2>1. name \notin names
    BY <1>2 DEF Owned
  <2>2. \A p \in Created(flags, name) : p \in flags \/ p = <<name, FALSE>>
    BY <1>2 DEF Created
  <2>3. flags \subseteq Created(flags, name)
    BY DEF Created
  <2>4. ASSUME NEW p \in Created(flags, name) PROVE p[2] = TRUE <=> p[1] \in Own
    <3>1. CASE p \in flags
      BY <3>1 DEF Owned
    <3>2. CASE p = <<name, FALSE>>
      BY <2>1, <3>2
    <3> QED
      BY <2>2, <3>1, <3>2
  <2>5. \A b \in names : <<b, TRUE>> \in Created(flags, name)
    BY <2>3 DEF Owned
  <2> QED
    BY <2>4, <2>5 DEF Owned
<1> QED
  BY <1>1, <1>2

\* What BuildTargetProject and ParseProjectScript set.
BegunTexts(texts, project) ==
  Put(Put(Put(texts, "PROJECTNAME", project.name[1]), "LOADADDRESSNAME", project.name[1]),
      "PROJECTDIR", project.dir[1])

LEMMA Begun ==
  ASSUME NEW t, IsTables(t, Builtin), NEW project \in Build
  PROVE  /\ IsTables(Begin(t, project), Own)
         /\ TextsIn(Begin(t, project).macros) = BegunTexts(TextsIn(t.macros), project)
         /\ Begin(t, project).conditions = t.conditions
         /\ Begin(t, project).alias = project.name
         /\ Begin(t, project).failed = t.failed
<1> DEFINE first == FindOrCreateMacro(t.macros, "PROJECTNAME", project.name)
           second == FindOrCreateMacro(first, "LOADADDRESSNAME", project.name)
           third == SetMacro(second, "PROJECTDIR", project.dir)
<1>1. /\ project.name \in Value /\ project.dir \in Value
      /\ "PROJECTNAME" \in MacroName /\ "LOADADDRESSNAME" \in MacroName
      /\ "PROJECTDIR" \in MacroName
      /\ "PROJECTNAME" \notin Own /\ "LOADADDRESSNAME" \notin Own
  BY MacrosAssumption DEF Build, MacroName, Reserved, Own
<1>2. IsTable(t.macros) /\ Owned(FlagsIn(t.macros), Builtin)
  BY DEF IsTable, IsTables, Tables
<1>3. /\ IsTable(first)
      /\ TextsIn(first) = Put(TextsIn(t.macros), "PROJECTNAME", project.name[1])
      /\ Owned(FlagsIn(first), Builtin)
  <2>1. /\ IsTable(first)
        /\ TextsIn(first) = Put(TextsIn(t.macros), "PROJECTNAME", project.name[1])
        /\ FlagsIn(first) = Created(FlagsIn(t.macros), "PROJECTNAME")
    <3> DEFINE m == t.macros
               name == "PROJECTNAME"
               v == project.name
    <3>1. IsTable(m) /\ name \in MacroName /\ v \in Value
      BY <1>1, <1>2
    <3> HIDE DEF m, name, v
    <3>2. LET found == FindOrCreateMacro(m, name, v)
          IN  /\ IsTable(found)
              /\ TextsIn(found) = Put(TextsIn(m), name, v[1])
              /\ FlagsIn(found) = Created(FlagsIn(m), name)
      BY <3>1, FoundOrCreated
    <3> QED
      BY <3>2, Zenon DEF m, name, v
  <2> HIDE DEF first
  <2>2. Owned(Created(FlagsIn(t.macros), "PROJECTNAME"), Builtin)
    BY <1>1, <1>2, CreatedOwned
  <2> QED
    BY <2>1, <2>2
<1> HIDE DEF first
<1>4. /\ IsTable(second)
      /\ TextsIn(second) = Put(TextsIn(first), "LOADADDRESSNAME", project.name[1])
      /\ Owned(FlagsIn(second), Builtin)
  <2>1. /\ IsTable(second)
        /\ TextsIn(second) = Put(TextsIn(first), "LOADADDRESSNAME", project.name[1])
        /\ FlagsIn(second) = Created(FlagsIn(first), "LOADADDRESSNAME")
    <3> DEFINE m == first
               name == "LOADADDRESSNAME"
               v == project.name
    <3>1. IsTable(m) /\ name \in MacroName /\ v \in Value
      BY <1>1, <1>3
    <3> HIDE DEF m, name, v
    <3>2. LET found == FindOrCreateMacro(m, name, v)
          IN  /\ IsTable(found)
              /\ TextsIn(found) = Put(TextsIn(m), name, v[1])
              /\ FlagsIn(found) = Created(FlagsIn(m), name)
      BY <3>1, FoundOrCreated
    <3> QED
      BY <3>2, Zenon DEF m, name, v
  <2> HIDE DEF second
  <2>2. Owned(Created(FlagsIn(first), "LOADADDRESSNAME"), Builtin)
    BY <1>1, <1>3, CreatedOwned
  <2> QED
    BY <2>1, <2>2
<1> HIDE DEF second
<1>5. /\ IsTable(third)
      /\ TextsIn(third) = Put(TextsIn(second), "PROJECTDIR", project.dir[1])
      /\ FlagsIn(third) = Put(FlagsIn(second), "PROJECTDIR", TRUE)
  BY <1>1, <1>4, MacroSet
<1> HIDE DEF third
<1>6. Owned(FlagsIn(third), Own)
  <2>1. ASSUME NEW p \in FlagsIn(third) PROVE p[2] = TRUE <=> p[1] \in Own
    <3>1. p = <<"PROJECTDIR", TRUE>> \/ p \in FlagsIn(second)
      BY <1>5 DEF Put
    <3>2. CASE p = <<"PROJECTDIR", TRUE>>
      BY <3>2 DEF Own
    <3>3. CASE p \in FlagsIn(second)
      BY <1>4, <3>3 DEF Owned
    <3> QED
      BY <3>1, <3>2, <3>3
  <2>2. ASSUME NEW b \in Own PROVE <<b, TRUE>> \in FlagsIn(third)
    <3>1. CASE b = "PROJECTDIR"
      BY <1>5, <3>1 DEF Put
    <3>2. CASE b \in Builtin /\ b # "PROJECTDIR"
      BY <1>4, <1>5, <3>2 DEF Put, Owned
    <3> QED
      BY <3>1, <3>2 DEF Own
  <2> QED
    BY <2>1, <2>2 DEF Owned
<1>7. Begin(t, project) = [t EXCEPT !.alias = project.name, !.macros = third]
  BY DEF Begin, first, second, third
<1>8. /\ Begin(t, project) \in Tables
      /\ Begin(t, project).macros = third
      /\ Begin(t, project).conditions = t.conditions
      /\ Begin(t, project).alias = project.name
      /\ Begin(t, project).failed = t.failed
  BY <1>1, <1>5, <1>7 DEF IsTables, IsTable, Tables
<1> QED
  BY <1>3, <1>4, <1>5, <1>6, <1>8 DEF IsTables, IsTable, BegunTexts

\* What a statement does, by what it says and what it sees.
Effect(t, s) ==
  IF s.when # NoCondition /\ ~t.conditions[s.when] THEN "none"
  ELSE IF s.op = "macro" THEN "set"
  ELSE IF s.op \in {"required", "allowEmpty"}
       THEN IF ~Lacks(t.macros, s) THEN "none"
            ELSE IF s.op = "required" /\ s.value[1] = Empty THEN "fail" ELSE "set"
  ELSE s.op

LEMMA StatementTyped ==
  ASSUME NEW s \in Statement
  PROVE  /\ s.op \in {"macro", "required", "allowEmpty", "conditional", "alias"}
         /\ s.op \in {"macro", "required", "allowEmpty"} => s.name \in MacroName /\ s.value \in Value
         /\ s.op = "conditional" => s.name \in Custom /\ s.set \in BOOLEAN
         /\ s.op = "alias" => s.value \in Value
         /\ s.when \in Custom \cup {NoCondition}
BY DEF Statement

LEMMA Executed ==
  ASSUME NEW t, NEW s \in Statement
  PROVE  /\ Effect(t, s) \in {"none", "set", "fail", "conditional", "alias"}
         /\ Effect(t, s) = "none" => Execute(t, s) = t
         /\ Effect(t, s) = "set" =>
              /\ Execute(t, s) = [t EXCEPT !.macros = FindOrCreateMacro(@, s.name, s.value)]
              /\ s.op \in {"macro", "required", "allowEmpty"}
         /\ Effect(t, s) = "fail" => Execute(t, s) = [t EXCEPT !.failed = TRUE]
         /\ Effect(t, s) = "conditional" =>
              /\ Execute(t, s) = [t EXCEPT !.conditions = SetConditional(@, s.name, s.set)]
              /\ s.op = "conditional"
         /\ Effect(t, s) = "alias" =>
              /\ Execute(t, s) = [t EXCEPT !.alias = s.value,
                                           !.macros = FindOrCreateMacro(@, "LOADADDRESSNAME", s.value)]
              /\ s.op = "alias"
<1>1. s.op \in {"macro", "required", "allowEmpty", "conditional", "alias"}
  BY StatementTyped
<1>2. CASE s.when # NoCondition /\ ~t.conditions[s.when]
  BY <1>2 DEF Effect, Execute
<1>3. CASE ~(s.when # NoCondition /\ ~t.conditions[s.when])
  <2>1. CASE s.op = "macro"
    BY <1>3, <2>1 DEF Effect, Execute
  <2>2. CASE s.op \in {"required", "allowEmpty"}
    BY <1>3, <2>2 DEF Effect, Execute
  <2>3. CASE s.op = "conditional"
    BY <1>3, <2>3 DEF Effect, Execute
  <2>4. CASE s.op = "alias"
    BY <1>3, <2>4 DEF Effect, Execute
  <2> QED
    BY <1>1, <2>1, <2>2, <2>3, <2>4
<1> QED
  BY <1>2, <1>3

\* A macro of a statement is set in a table in which VPC's own are.
LEMMA MacroStated ==
  ASSUME NEW macros, IsTable(macros), Owned(FlagsIn(macros), Own),
         NEW name \in MacroName, NEW v \in Value
  PROVE  LET found == FindOrCreateMacro(macros, name, v)
         IN  /\ found \in Seq(MacroEntry) /\ NamesOnce(found)
             /\ Owned(FlagsIn(found), Own)
             /\ TextsIn(found) = Put(TextsIn(macros), name, v[1])
<1> DEFINE found == FindOrCreateMacro(macros, name, v)
<1>1. /\ IsTable(found)
      /\ TextsIn(found) = Put(TextsIn(macros), name, v[1])
      /\ FlagsIn(found) = Created(FlagsIn(macros), name)
  <2> HIDE DEF found
  <2> QED
    BY FoundOrCreated DEF found
<1> HIDE DEF found
<1>2. Owned(Created(FlagsIn(macros), name), Own)
  BY CreatedOwned
<1> QED
  BY <1>1, <1>2 DEF IsTable, found

\* After a statement.
LEMMA ExecutedTables ==
  ASSUME NEW t, IsTables(t, Own), NEW s \in Statement
  PROVE  /\ IsTables(Execute(t, s), Own)
         /\ Effect(t, s) = "none" => Execute(t, s) = t
         /\ Effect(t, s) = "set" =>
              /\ TextsIn(Execute(t, s).macros) = Put(TextsIn(t.macros), s.name, s.value[1])
              /\ Execute(t, s).conditions = t.conditions /\ Execute(t, s).alias = t.alias
              /\ Execute(t, s).failed = t.failed
         /\ Effect(t, s) = "fail" =>
              /\ Execute(t, s).macros = t.macros /\ Execute(t, s).conditions = t.conditions
              /\ Execute(t, s).alias = t.alias /\ Execute(t, s).failed = TRUE
         /\ Effect(t, s) = "conditional" =>
              /\ Execute(t, s).macros = t.macros
              /\ Execute(t, s).conditions = SetConditional(t.conditions, s.name, s.set)
              /\ Execute(t, s).alias = t.alias /\ Execute(t, s).failed = t.failed
         /\ Effect(t, s) = "alias" =>
              /\ TextsIn(Execute(t, s).macros) = Put(TextsIn(t.macros), "LOADADDRESSNAME", s.value[1])
              /\ Execute(t, s).conditions = t.conditions /\ Execute(t, s).alias = s.value
              /\ Execute(t, s).failed = t.failed
<1> DEFINE e == Execute(t, s)
<1>1. /\ t \in Tables /\ IsTable(t.macros) /\ Owned(FlagsIn(t.macros), Own)
      /\ t.macros \in Seq(MacroEntry)
  BY DEF IsTables, IsTable, Tables
<1>2. Effect(t, s) \in {"none", "set", "fail", "conditional", "alias"}
  BY Executed
<1>3. CASE Effect(t, s) = "none"
  BY <1>3, Executed
<1>4. CASE Effect(t, s) = "set"
  <2>1. s.name \in MacroName /\ s.value \in Value
    BY <1>4, Executed, StatementTyped
  <2> DEFINE found == FindOrCreateMacro(t.macros, s.name, s.value)
  <2>2. e = [t EXCEPT !.macros = found]
    BY <1>4, Executed
  <2>3. /\ found \in Seq(MacroEntry) /\ NamesOnce(found)
        /\ Owned(FlagsIn(found), Own)
        /\ TextsIn(found) = Put(TextsIn(t.macros), s.name, s.value[1])
    BY <1>1, <2>1, MacroStated
  <2> HIDE DEF found, e
  <2>4. /\ e \in Tables /\ e.macros = found /\ e.conditions = t.conditions
        /\ e.alias = t.alias /\ e.failed = t.failed
    BY <1>1, <2>2, <2>3 DEF Tables
  <2>5. IsTables(e, Own)
    BY <2>3, <2>4 DEF IsTables
  <2> QED
    BY <1>4, <2>3, <2>4, <2>5 DEF e
<1>5. CASE Effect(t, s) = "fail"
  <2>1. e = [t EXCEPT !.failed = TRUE]
    BY <1>5, Executed
  <2> HIDE DEF e
  <2>2. /\ e \in Tables /\ e.macros = t.macros /\ e.conditions = t.conditions
        /\ e.alias = t.alias /\ e.failed = TRUE
    BY <1>1, <2>1 DEF Tables
  <2>3. IsTables(e, Own)
    BY <2>2 DEF IsTables
  <2> QED
    BY <1>5, <2>2, <2>3 DEF e
<1>6. CASE Effect(t, s) = "conditional"
  <2>1. s.name \in Custom /\ s.set \in BOOLEAN
    BY <1>6, Executed, StatementTyped
  <2> DEFINE conditions == SetConditional(t.conditions, s.name, s.set)
  <2>2. e = [t EXCEPT !.conditions = conditions]
    BY <1>6, Executed
  <2>3. conditions \in [Custom -> BOOLEAN]
    BY <1>1, <2>1 DEF SetConditional, Tables
  <2> HIDE DEF e, conditions
  <2>4. /\ e \in Tables /\ e.macros = t.macros /\ e.conditions = conditions
        /\ e.alias = t.alias /\ e.failed = t.failed
    BY <1>1, <2>2, <2>3 DEF Tables
  <2>5. IsTables(e, Own)
    BY <2>4 DEF IsTables
  <2> QED
    BY <1>6, <2>4, <2>5 DEF e, conditions
<1>7. CASE Effect(t, s) = "alias"
  <2> DEFINE name == "LOADADDRESSNAME"
             found == FindOrCreateMacro(t.macros, name, s.value)
  <2>1. s.value \in Value /\ name \in MacroName
    BY <1>7, Executed, StatementTyped DEF MacroName, Reserved
  <2>2. e = [t EXCEPT !.alias = s.value, !.macros = found]
    BY <1>7, Executed
  <2> HIDE DEF name
  <2>3. /\ found \in Seq(MacroEntry) /\ NamesOnce(found)
        /\ Owned(FlagsIn(found), Own)
        /\ TextsIn(found) = Put(TextsIn(t.macros), name, s.value[1])
    BY <1>1, <2>1, MacroStated
  <2> HIDE DEF found, e
  <2>4. /\ e \in Tables /\ e.macros = found /\ e.conditions = t.conditions
        /\ e.alias = s.value /\ e.failed = t.failed
    BY <1>1, <2>1, <2>2, <2>3 DEF Tables
  <2>5. IsTables(e, Own)
    BY <2>3, <2>4 DEF IsTables
  <2> QED
    BY <1>7, <2>3, <2>4, <2>5 DEF e, name
<1> QED
  BY <1>2, <1>3, <1>4, <1>5, <1>6, <1>7

LEMMA SeenText ==
  ASSUME NEW macros, NEW name
  PROVE  TextOf(macros, name) = {p[2] : p \in {q \in TextsIn(macros) : q[1] = name}}
<1>1. ASSUME NEW x \in TextOf(macros, name)
      PROVE  x \in {p[2] : p \in {q \in TextsIn(macros) : q[1] = name}}
  <2>1. PICK k \in 1..Len(macros) : macros[k].name = name /\ x = macros[k].value[1]
    BY DEF TextOf
  <2> DEFINE p == <<macros[k].name, macros[k].value[1]>>
  <2>2. p \in TextsIn(macros) /\ p[1] = name /\ p[2] = x
    BY <2>1 DEF TextsIn
  <2> QED
    BY <2>2
<1>2. ASSUME NEW p \in TextsIn(macros), p[1] = name
      PROVE  p[2] \in TextOf(macros, name)
  <2>1. PICK k \in 1..Len(macros) : p = <<macros[k].name, macros[k].value[1]>>
    BY DEF TextsIn
  <2> QED
    BY <1>2, <2>1 DEF TextOf
<1> QED
  BY <1>1, <1>2

\* Two scripts that see the same go on seeing the same.
LEMMA ExecutedAlike ==
  ASSUME NEW t, IsTables(t, Own), NEW other, IsTables(other, Own), NEW s \in Statement,
         SeenAlike(t, other)
  PROVE  SeenAlike(Execute(t, s), Execute(other, s))
<1>1. Lacks(t.macros, s) <=> Lacks(other.macros, s)
  BY SeenText DEF Lacks, SeenAlike
<1>2. Effect(t, s) = Effect(other, s)
  BY <1>1 DEF Effect, SeenAlike
<1>3. Effect(t, s) \in {"none", "set", "fail", "conditional", "alias"}
  BY Executed
<1> DEFINE x == Execute(t, s)
           y == Execute(other, s)
<1>4. CASE Effect(t, s) = "none"
  <2>1. x = t
    BY <1>4, ExecutedTables
  <2>2. y = other
    BY <1>2, <1>4, ExecutedTables
  <2> QED
    BY <2>1, <2>2
<1>5. CASE Effect(t, s) = "set"
  <2>1. /\ TextsIn(x.macros) = Put(TextsIn(t.macros), s.name, s.value[1])
        /\ x.conditions = t.conditions /\ x.alias = t.alias /\ x.failed = t.failed
    BY <1>5, ExecutedTables
  <2>2. /\ TextsIn(y.macros) = Put(TextsIn(other.macros), s.name, s.value[1])
        /\ y.conditions = other.conditions /\ y.alias = other.alias /\ y.failed = other.failed
    BY <1>2, <1>5, ExecutedTables
  <2> HIDE DEF x, y
  <2>3. SeenAlike(x, y)
    BY <2>1, <2>2, Zenon DEF SeenAlike
  <2> QED
    BY <2>3 DEF x, y
<1>6. CASE Effect(t, s) = "fail"
  <2>1. /\ x.macros = t.macros
        /\ x.conditions = t.conditions /\ x.alias = t.alias /\ x.failed = TRUE
    BY <1>6, ExecutedTables
  <2>2. /\ y.macros = other.macros
        /\ y.conditions = other.conditions /\ y.alias = other.alias /\ y.failed = TRUE
    BY <1>2, <1>6, ExecutedTables
  <2> HIDE DEF x, y
  <2>3. SeenAlike(x, y)
    BY <2>1, <2>2, Zenon DEF SeenAlike
  <2> QED
    BY <2>3 DEF x, y
<1>7. CASE Effect(t, s) = "conditional"
  <2>1. /\ x.macros = t.macros
        /\ x.conditions = SetConditional(t.conditions, s.name, s.set)
        /\ x.alias = t.alias /\ x.failed = t.failed
    BY <1>7, ExecutedTables
  <2>2. /\ y.macros = other.macros
        /\ y.conditions = SetConditional(other.conditions, s.name, s.set)
        /\ y.alias = other.alias /\ y.failed = other.failed
    BY <1>2, <1>7, ExecutedTables
  <2> HIDE DEF x, y
  <2>3. SeenAlike(x, y)
    BY <2>1, <2>2, Zenon DEF SeenAlike
  <2> QED
    BY <2>3 DEF x, y
<1>8. CASE Effect(t, s) = "alias"
  <2> DEFINE name == "LOADADDRESSNAME"
  <2>1. /\ TextsIn(x.macros) = Put(TextsIn(t.macros), name, s.value[1])
        /\ x.conditions = t.conditions /\ x.alias = s.value /\ x.failed = t.failed
    BY <1>8, ExecutedTables
  <2>2. /\ TextsIn(y.macros) = Put(TextsIn(other.macros), name, s.value[1])
        /\ y.conditions = other.conditions /\ y.alias = s.value /\ y.failed = other.failed
    BY <1>2, <1>8, ExecutedTables
  <2> HIDE DEF x, y, name
  <2>3. SeenAlike(x, y)
    BY <2>1, <2>2, Zenon DEF SeenAlike
  <2> QED
    BY <2>3 DEF x, y
<1> QED
  BY <1>3, <1>4, <1>5, <1>6, <1>7, <1>8

-----------------------------------------------------------------------------
\* No condition is set and VPC's own macros are as at the start.
Unmarked(t) ==
  /\ t.conditions = [c \in Custom |-> FALSE]
  /\ \A b \in Builtin : <<b, Empty>> \in TextsIn(t.macros)

\* Only VPC's own macros are there.
OwnOnly(t) == \A p \in TextsIn(t.macros) : p[1] \in Own

\* A name has one text.
LEMMA OneText ==
  ASSUME NEW macros, NamesOnce(macros), NEW p \in TextsIn(macros), NEW q \in TextsIn(macros),
         p[1] = q[1]
  PROVE  p = q
<1>1. PICK j \in 1..Len(macros) : p = <<macros[j].name, macros[j].value[1]>>
  BY DEF TextsIn
<1>2. PICK k \in 1..Len(macros) : q = <<macros[k].name, macros[k].value[1]>>
  BY DEF TextsIn
<1>3. j = k
  BY <1>1, <1>2 DEF NamesOnce
<1> QED
  BY <1>1, <1>2, <1>3

\* A project that begins with nothing but VPC's own macros, unchanged, sees
\* what it would see as the first.
LEMMA BegunAlike ==
  ASSUME NEW t, IsTables(t, Builtin), OwnOnly(t), Unmarked(t), t.failed = FALSE,
         NEW project \in Build
  PROVE  /\ SeenAlike(Begin(t, project), Begin(Startup, project))
         /\ Unmarked(Begin(t, project))
<1> DEFINE x == Begin(t, project)
           y == Begin(Startup, project)
           T == TextsIn(t.macros)
           title == "PROJECTNAME"
           load == "LOADADDRESSNAME"
           dir == "PROJECTDIR"
           text == project.name[1]
           place == project.dir[1]
<1>1. /\ TextsIn(x.macros) = BegunTexts(T, project) /\ x.conditions = t.conditions
      /\ x.alias = project.name /\ x.failed = t.failed
  BY Begun
<1>2. /\ TextsIn(y.macros) = BegunTexts(StartTexts, project)
      /\ y.conditions = [c \in Custom |-> FALSE]
      /\ y.alias = project.name /\ y.failed = FALSE
  BY Begun, AtStartup
<1>3. /\ title \notin Builtin /\ load \notin Builtin /\ dir \notin Builtin
      /\ Own = Builtin \cup {dir}
  BY MacrosAssumption DEF Reserved, Own
<1>4. \A texts : BegunTexts(texts, project) =
                   Put(Put(Put(texts, title, text), load, text), dir, place)
  BY DEF BegunTexts
<1>5. StartTexts = {p \in T : p[1] # dir}
  <2>1. ASSUME NEW p \in T, p[1] # dir PROVE p \in StartTexts
    <3>1. p[1] \in Builtin
      BY <1>3, <2>1 DEF OwnOnly
    <3> DEFINE q == <<p[1], Empty>>
    <3>2. q \in T /\ q[1] = p[1]
      BY <3>1 DEF Unmarked
    <3> HIDE DEF q
    <3>3. p = q
      BY <3>2, OneText DEF IsTables
    <3> QED
      BY <3>1, <3>3 DEF q, StartTexts
  <2>2. ASSUME NEW b \in Builtin PROVE <<b, Empty>> \in T /\ <<b, Empty>>[1] # dir
    BY <1>3 DEF Unmarked
  <2> QED
    BY <2>1, <2>2 DEF StartTexts
<1> HIDE DEF x, y, T, title, load, dir, text, place
<1>6. BegunTexts(T, project) = BegunTexts(StartTexts, project)
  BY <1>4, <1>5 DEF Put
<1>7. SeenAlike(x, y)
  BY <1>1, <1>2, <1>6 DEF SeenAlike, Unmarked
<1>8. \A b \in Builtin : <<b, Empty>> \in BegunTexts(StartTexts, project)
  BY <1>3, <1>4 DEF Put, StartTexts
<1>9. Unmarked(x)
  BY <1>1, <1>6, <1>8 DEF Unmarked
<1> QED
  BY <1>7, <1>9 DEF x, y

\* A statement that writes nothing that lasts.
Passing(s) == ~(s.op = "conditional" \/ (s.op # "alias" /\ s.name \in Builtin))

LEMMA StaysUnmarked ==
  ASSUME NEW t, IsTables(t, Own), Unmarked(t), NEW s \in Statement, Passing(s)
  PROVE  Unmarked(Execute(t, s))
<1> DEFINE e == Execute(t, s)
           name == "LOADADDRESSNAME"
<1>1. name \notin Builtin
  BY MacrosAssumption DEF Reserved
<1>2. /\ Effect(t, s) \in {"none", "set", "fail", "conditional", "alias"}
      /\ Effect(t, s) = "set" => s.op \in {"macro", "required", "allowEmpty"}
      /\ Effect(t, s) # "conditional"
  BY Executed DEF Passing
<1>3. CASE Effect(t, s) = "none"
  BY <1>3, Executed
<1>4. CASE Effect(t, s) = "set"
  <2>1. e.conditions = t.conditions /\ TextsIn(e.macros) = Put(TextsIn(t.macros), s.name, s.value[1])
    BY <1>4, ExecutedTables
  <2>2. s.name \notin Builtin
    BY <1>2, <1>4 DEF Passing
  <2> HIDE DEF e
  <2>3. Unmarked(e)
    BY <2>1, <2>2 DEF Unmarked, Put
  <2> QED
    BY <2>3 DEF e
<1>5. CASE Effect(t, s) = "fail"
  <2>1. e.conditions = t.conditions /\ e.macros = t.macros
    BY <1>5, ExecutedTables
  <2> QED
    BY <2>1 DEF Unmarked
<1>6. CASE Effect(t, s) = "alias"
  <2>1. e.conditions = t.conditions /\ TextsIn(e.macros) = Put(TextsIn(t.macros), name, s.value[1])
    BY <1>6, ExecutedTables
  <2> HIDE DEF e, name
  <2>2. Unmarked(e)
    BY <1>1, <2>1 DEF Unmarked, Put
  <2> QED
    BY <2>2 DEF e
<1> QED
  BY <1>2, <1>3, <1>4, <1>5, <1>6

\* What a project leaves behind.
LEMMA LeftBehind ==
  ASSUME NEW t, IsTables(t, Own), NEW u,
         u = [t EXCEPT !.macros = RemoveScriptCreatedMacros(@)]
  PROVE  /\ IsTables(u, Builtin) /\ OwnOnly(u) /\ u.failed = t.failed
         /\ Unmarked(t) => Unmarked(u)
<1> DEFINE left == RemoveScriptCreatedMacros(t.macros)
<1>1. t \in Tables /\ IsTable(t.macros) /\ Owned(FlagsIn(t.macros), Own)
  BY DEF IsTables, IsTable, Tables
<1>2. /\ IsTable(left)
      /\ \A p : p \in TextsIn(left) <=>
           \E k \in 1..Len(t.macros) :
             t.macros[k].internal /\ p = <<t.macros[k].name, t.macros[k].value[1]>>
      /\ \A p : p \in FlagsIn(left) <=> p \in FlagsIn(t.macros) /\ p[2] = TRUE
  <2> DEFINE m == t.macros
  <2>1. IsTable(m)
    BY <1>1
  <2> HIDE DEF m
  <2>2. LET kept == RemoveScriptCreatedMacros(m)
        IN  /\ IsTable(kept)
            /\ \A p : p \in TextsIn(kept) <=>
                 \E k \in 1..Len(m) : m[k].internal /\ p = <<m[k].name, m[k].value[1]>>
            /\ \A p : p \in FlagsIn(kept) <=> p \in FlagsIn(m) /\ p[2] = TRUE
    BY <2>1, OnlyInternalLeft
  <2> QED
    BY <2>2, Zenon DEF m
<1> HIDE DEF left
<1>3. /\ u \in Tables /\ u.macros = left /\ u.conditions = t.conditions /\ u.failed = t.failed
  <2>1. u = [t EXCEPT !.macros = left]
    BY DEF left
  <2> QED
    BY <1>1, <1>2, <2>1 DEF Tables, IsTable
<1>4. \A k \in 1..Len(t.macros) : <<t.macros[k].name, t.macros[k].internal>> \in FlagsIn(t.macros)
  BY DEF FlagsIn
<1>5. \A k \in 1..Len(t.macros) : t.macros[k].internal = TRUE <=> t.macros[k].name \in Own
  BY <1>1, <1>4 DEF Owned
<1>6. Owned(FlagsIn(left), Builtin)
  BY <1>1, <1>2 DEF Owned, Own
<1>7. OwnOnly(u)
  BY <1>2, <1>3, <1>5 DEF OwnOnly
<1>8. ASSUME Unmarked(t) PROVE Unmarked(u)
  <2>1. ASSUME NEW b \in Builtin PROVE <<b, Empty>> \in TextsIn(left)
    <3>1. PICK k \in 1..Len(t.macros) : <<b, Empty>> = <<t.macros[k].name, t.macros[k].value[1]>>
      BY <1>8 DEF Unmarked, TextsIn
    <3>2. t.macros[k].internal
      BY <1>5, <3>1 DEF Own
    <3> QED
      BY <1>2, <3>1, <3>2
  <2> QED
    BY <1>3, <1>8, <2>1 DEF Unmarked
<1> QED
  BY <1>2, <1>3, <1>6, <1>7, <1>8 DEF IsTables, IsTable

-----------------------------------------------------------------------------
\* A project on its own, statement by statement.
After(project) ==
  LET after[k \in 0..Len(project.statements)] ==
        IF k = 0 THEN Begin(Startup, project)
        ELSE Execute(after[k - 1], project.statements[k])
  IN  after

LEMMA AloneByStatement ==
  ASSUME NEW project \in Build
  PROVE  LET n == Len(project.statements)
             after == After(project)
         IN  /\ n \in Nat
             /\ after[0] = Begin(Startup, project)
             /\ \A k \in 1..n : after[k] = Execute(after[k - 1], project.statements[k])
             /\ \A k \in 0..n : IsTables(after[k], Own)
<1> DEFINE n == Len(project.statements)
           S == {t \in Tables : IsTables(t, Own)}
           a == Begin(Startup, project)
           statement(k) == project.statements[k]
           G == [p \in (1..n) \X S |-> Execute(p[2], statement(p[1]))]
           Def(f) == f = [k \in 0..n |-> IF k = 0 THEN a ELSE Execute(f[k - 1], statement(k))]
           after == CHOOSE f : Def(f)
<1>1. After(project) = after
  BY Zenon DEF After
<1>2. project.statements \in Seq(Statement) /\ n \in Nat
      /\ \A k \in 1..n : statement(k) \in Statement
  BY LenProperties, ElementOfSeq DEF Build
<1>3. a \in S
  BY AtStartup, Begun DEF IsTables
<1> HIDE DEF n, a, statement
<1>4. G \in [(1..n) \X S -> S]
  <2>1. ASSUME NEW p \in (1..n) \X S PROVE Execute(p[2], statement(p[1])) \in S
    <3>1. p[2] \in S /\ p[1] \in 1..n
      OBVIOUS
    <3>2. IsTables(p[2], Own) /\ statement(p[1]) \in Statement
      BY <1>2, <3>1
    <3>3. IsTables(Execute(p[2], statement(p[1])), Own)
      BY <3>2, ExecutedTables
    <3> QED
      BY <3>3 DEF IsTables
  <2> HIDE DEF S
  <2> QED
    BY <2>1
<1> HIDE DEF S
<1>5. \E f \in [0..n -> S] : IsSteps(G, a, n, f)
  <2> HIDE DEF G
  <2> QED
    BY <1>2, <1>3, <1>4, StepsExist, Zenon
<1>6. \E f \in [0..n -> S] : Def(f)
  <2>1. PICK f \in [0..n -> S] : IsSteps(G, a, n, f)
    BY <1>5
  <2>2. ASSUME NEW k \in 1..n PROVE G[<<k, f[k - 1]>>] = Execute(f[k - 1], statement(k))
    <3>1. f[k - 1] \in S
      BY <1>2
    <3> QED
      BY <3>1
  <2>3. \A k \in 0..n : f[k] = IF k = 0 THEN a ELSE Execute(f[k - 1], statement(k))
    <3> HIDE DEF G
    <3>1. \A k \in 0..n : f[k] = IF k = 0 THEN a ELSE G[<<k, f[k - 1]>>]
      BY <2>1, Zenon DEF IsSteps
    <3>2. \A k \in 0..n : k # 0 => k \in 1..n
      BY <1>2
    <3> QED
      BY <2>2, <3>1, <3>2, Zenon
  <2>4. Def(f)
    BY <2>3
  <2> QED
    BY <2>4
<1>7. Def(after)
  BY <1>6, Zenon
<1>8. \A k \in 0..n : after[k] = IF k = 0 THEN a ELSE Execute(after[k - 1], statement(k))
  <2> HIDE DEF after
  <2> QED
    BY <1>7, Zenon
<1> HIDE DEF after
<1>9. after[0] = a /\ \A k \in 1..n : after[k] = Execute(after[k - 1], statement(k))
  <2>1. 0 \in 0..n /\ \A k \in 1..n : k \in 0..n /\ k # 0
    BY <1>2
  <2> QED
    BY <1>8, <2>1, Zenon
<1>10. \A k \in 0..n : IsTables(after[k], Own)
  <2> DEFINE T == {k \in Nat : k <= n => IsTables(after[k], Own)}
  <2>1. 0 \in T
    BY <1>3, <1>9 DEF S
  <2>2. ASSUME NEW k \in Nat, k \in T PROVE k + 1 \in T
    <3> SUFFICES ASSUME k + 1 <= n PROVE IsTables(after[k + 1], Own)
      OBVIOUS
    <3>1. k + 1 \in 1..n /\ k + 1 - 1 = k /\ IsTables(after[k], Own)
      BY <1>2, <2>2
    <3> HIDE DEF T
    <3>2. after[k + 1] = Execute(after[k], statement(k + 1))
      BY <1>9, <3>1
    <3>3. IsTables(Execute(after[k], statement(k + 1)), Own)
      BY <1>2, <3>1, ExecutedTables
    <3> QED
      BY <3>2, <3>3
  <2>3. Nat \subseteq T
    <3> HIDE DEF T
    <3> QED
      BY <2>1, <2>2, NumbersInduction
  <2> QED
    BY <1>2, <2>3
<1> QED
  BY <1>1, <1>2, <1>9, <1>10 DEF n, a, statement

-----------------------------------------------------------------------------
(***************************************************************************)
(* The invariant.  While the projects so far wrote nothing that lasts, the *)
(* tables between two projects are those of the start, but for PROJECTDIR, *)
(* and during a project they show what the project alone would show.       *)
(***************************************************************************)
Clean == \A j \in 1..turn - 1 : ~Lasting(batch[j])

PlaceInv ==
  /\ batch \in Batches
  /\ turn \in 1..Len(batch) + 1
  /\ nextStatement \in Nat
  /\ turn <= Len(batch) => nextStatement <= Len(batch[turn].statements) + 1
  /\ turn > Len(batch) => nextStatement = 0

BetweenInv ==
  nextStatement = 0 =>
    /\ IsTables(tables, Builtin) /\ OwnOnly(tables) /\ tables.failed = FALSE
    /\ Clean => Unmarked(tables)

DuringInv ==
  nextStatement > 0 =>
    /\ IsTables(tables, Own)
    /\ Clean => /\ SeenAlike(tables, After(batch[turn])[nextStatement - 1])
                /\ ~Lasting(batch[turn]) => Unmarked(tables)

SharedInv == PlaceInv /\ BetweenInv /\ DuringInv

LEMMA PlaceTyped ==
  ASSUME PlaceInv
  PROVE  /\ Len(batch) \in Nat /\ turn \in Nat /\ turn >= 1
         /\ turn <= Len(batch) =>
              /\ batch[turn] \in Build
              /\ batch[turn].statements \in Seq(Statement)
              /\ Len(batch[turn].statements) \in Nat
<1>1. batch \in Seq(Build)
  BY MacrosAssumption DEF PlaceInv
<1>2. Len(batch) \in Nat /\ turn \in Nat /\ turn >= 1
  BY <1>1, LenProperties DEF PlaceInv
<1>3. ASSUME turn <= Len(batch)
      PROVE  /\ batch[turn] \in Build
             /\ batch[turn].statements \in Seq(Statement)
             /\ Len(batch[turn].statements) \in Nat
  <2>1. batch[turn] \in Build
    BY <1>1, <1>2, <1>3, ElementOfSeq
  <2> QED
    BY <2>1, LenProperties DEF Build
<1> QED
  BY <1>2, <1>3

LEMMA SharedBegins == SharedInit => SharedInv
<1> SUFFICES ASSUME SharedInit PROVE SharedInv
  OBVIOUS
<1>1. batch \in Seq(Build) /\ Len(batch) \in Nat
  BY MacrosAssumption, LenProperties DEF SharedInit
<1>2. PlaceInv
  <2>1. 1 <= Len(batch) => batch[1] \in Build
    BY <1>1, ElementOfSeq
  <2>2. 1 <= Len(batch) => Len(batch[1].statements) \in Nat
    BY <2>1, LenProperties DEF Build
  <2> QED
    BY <1>1, <2>2 DEF PlaceInv, SharedInit
<1>3. IsTables(tables, Builtin) /\ tables.failed = FALSE
  BY AtStartup DEF SharedInit
<1>4. TextsIn(tables.macros) = StartTexts /\ tables.conditions = [c \in Custom |-> FALSE]
  BY AtStartup DEF SharedInit
<1>5. OwnOnly(tables) /\ Unmarked(tables)
  BY <1>4 DEF OwnOnly, Unmarked, StartTexts, Own
<1> QED
  BY <1>2, <1>3, <1>5 DEF SharedInv, BetweenInv, DuringInv, SharedInit

LEMMA SharedKept == SharedInv /\ [SharedNext]_sharedVars => SharedInv'
<1> SUFFICES ASSUME SharedInv, [SharedNext]_sharedVars PROVE SharedInv'
  OBVIOUS
<1> DEFINE project == batch[turn]
           after == After(project)
<1>1. /\ Len(batch) \in Nat /\ turn \in Nat /\ turn >= 1 /\ nextStatement \in Nat
      /\ turn <= Len(batch) => project \in Build /\ Len(project.statements) \in Nat
      /\ turn <= Len(batch) => project.statements \in Seq(Statement)
  BY PlaceTyped DEF SharedInv, PlaceInv
<1>2. CASE BeginProject
  <2>1. /\ turn <= Len(batch) /\ nextStatement = 0 /\ tables' = Begin(tables, project)
        /\ nextStatement' = 1 /\ batch' = batch /\ turn' = turn
    BY <1>2 DEF BeginProject, AtWork
  <2>2. /\ IsTables(tables, Builtin) /\ OwnOnly(tables) /\ tables.failed = FALSE
        /\ Clean => Unmarked(tables)
    BY <2>1 DEF SharedInv, BetweenInv
  <2>3. IsTables(tables', Own)
    BY <1>1, <2>1, <2>2, Begun
  <2>4. after[0] = Begin(Startup, project)
    BY <1>1, <2>1, AloneByStatement
  <2>5. Clean => SeenAlike(tables', after[0]) /\ Unmarked(tables')
    BY <1>1, <2>1, <2>2, <2>4, BegunAlike
  <2>6. Clean' <=> Clean
    BY <2>1 DEF Clean
  <2>7. PlaceInv'
    BY <1>1, <2>1 DEF SharedInv, PlaceInv
  <2> HIDE DEF after
  <2>8. DuringInv'
    BY <2>1, <2>3, <2>5, <2>6 DEF DuringInv, after
  <2> QED
    BY <2>1, <2>7, <2>8 DEF SharedInv, BetweenInv
<1>3. CASE Perform
  <2> DEFINE s == project.statements[nextStatement]
  <2>1. /\ turn <= Len(batch) /\ nextStatement \in 1..Len(project.statements)
        /\ tables' = Execute(tables, s)
        /\ nextStatement' = nextStatement + 1 /\ batch' = batch /\ turn' = turn
    BY <1>3 DEF Perform, AtWork
  <2>2. s \in Statement
    BY <1>1, <2>1, ElementOfSeq
  <2>3. /\ IsTables(tables, Own)
        /\ Clean => /\ SeenAlike(tables, after[nextStatement - 1])
                    /\ ~Lasting(project) => Unmarked(tables)
    BY <2>1 DEF SharedInv, DuringInv
  <2>4. /\ after[nextStatement] = Execute(after[nextStatement - 1], s)
        /\ IsTables(after[nextStatement - 1], Own)
    BY <1>1, <2>1, AloneByStatement
  <2>5. ~Lasting(project) => Passing(s)
    BY <2>1 DEF Lasting, Passing
  <2> HIDE DEF s, after
  <2>6. IsTables(tables', Own)
    BY <2>1, <2>2, <2>3, ExecutedTables
  <2>7. Clean => SeenAlike(tables', after[nextStatement])
    BY <2>1, <2>2, <2>3, <2>4, ExecutedAlike
  <2>8. Clean /\ ~Lasting(project) => Unmarked(tables')
    BY <2>1, <2>2, <2>3, <2>5, StaysUnmarked
  <2>9. Clean' <=> Clean
    BY <2>1 DEF Clean
  <2>10. PlaceInv'
    BY <1>1, <2>1 DEF SharedInv, PlaceInv
  <2>11. nextStatement' > 0 /\ nextStatement' - 1 = nextStatement
    BY <1>1, <2>1
  <2>12. DuringInv'
    BY <2>1, <2>6, <2>7, <2>8, <2>9, <2>11 DEF DuringInv, after
  <2> QED
    BY <2>10, <2>11, <2>12 DEF SharedInv, BetweenInv
<1>4. CASE EndProject
  <2>1. /\ turn <= Len(batch) /\ tables.failed # TRUE
        /\ nextStatement = Len(project.statements) + 1
        /\ tables' = [tables EXCEPT !.macros = RemoveScriptCreatedMacros(@)]
        /\ nextStatement' = 0 /\ batch' = batch /\ turn' = turn + 1
    BY <1>4 DEF EndProject, AtWork
  <2>2. /\ IsTables(tables, Own)
        /\ Clean => (~Lasting(project) => Unmarked(tables))
    BY <1>1, <2>1 DEF SharedInv, DuringInv
  <2>3. /\ IsTables(tables', Builtin) /\ OwnOnly(tables') /\ tables'.failed = tables.failed
        /\ Unmarked(tables) => Unmarked(tables')
    BY <2>1, <2>2, LeftBehind
  <2>4. tables'.failed = FALSE
    BY <2>1, <2>2, <2>3 DEF IsTables, Tables
  <2>5. Clean' => Clean /\ ~Lasting(project)
    BY <1>1, <2>1 DEF Clean
  <2>6. Clean' => Unmarked(tables')
    BY <2>2, <2>3, <2>5
  <2>7. PlaceInv'
    <3>1. turn' <= Len(batch) => batch[turn'] \in Build
      <4>1. batch \in Seq(Build)
        BY MacrosAssumption DEF SharedInv, PlaceInv
      <4> QED
        BY <1>1, <2>1, <4>1, ElementOfSeq
    <3>2. turn' <= Len(batch) => Len(batch[turn'].statements) \in Nat
      BY <3>1, LenProperties DEF Build
    <3> QED
      BY <1>1, <2>1, <3>2 DEF SharedInv, PlaceInv
  <2> QED
    BY <2>1, <2>3, <2>4, <2>6, <2>7 DEF SharedInv, BetweenInv, DuringInv
<1>5. CASE SharedDone \/ UNCHANGED sharedVars
  <2>1. UNCHANGED sharedVars
    BY <1>5 DEF SharedDone
  <2> QED
    BY <2>1 DEF sharedVars, SharedInv, PlaceInv, BetweenInv, DuringInv, Clean
<1> QED
  BY <1>2, <1>3, <1>4, <1>5 DEF SharedNext

(***************************************************************************)
(* The tables of macros and conditionals keep their types, and the table   *)
(* of macros names each macro once (FindOrCreateMacro).                    *)
(***************************************************************************)
THEOREM SharedTyped == SharedSpec => []SharedTypeOK
<1>1. SharedInv => SharedTypeOK
  BY DEF SharedInv, PlaceInv, BetweenInv, DuringInv, IsTables, Tables, NamesOnce, SharedTypeOK
<1> QED
  BY SharedBegins, SharedKept, <1>1, PTL DEF SharedSpec

(***************************************************************************)
(* For every list of projects and every script: what the run keeps in its  *)
(* tables from the scripts before (macros with their texts, aliases, the   *)
(* reserved macros) is never seen by a later one, as long as none of them  *)
(* set a conditional or a macro of VPC itself (projectscript.cpp, macros.cpp).*)
(***************************************************************************)
THEOREM ScriptsAreIndependent == SharedSpec => []ProjectsAreIndependent
<1>1. SharedInit => SharedInv
  BY SharedBegins
<1>2. SharedInv /\ [SharedNext]_sharedVars => SharedInv'
  BY SharedKept
<1>3. SharedInv => ProjectsAreIndependent
  <2>1. Alone = After(batch[turn])[nextStatement - 1]
    BY Zenon DEF Alone, After
  <2> SUFFICES ASSUME SharedInv, turn <= Len(batch), nextStatement > 0, Clean
               PROVE  Visible(tables) = Visible(Alone)
    BY DEF ProjectsAreIndependent, Clean
  <2>2. SeenAlike(tables, After(batch[turn])[nextStatement - 1])
    BY DEF SharedInv, DuringInv
  <2> HIDE DEF Alone
  <2> QED
    BY <2>1, <2>2, SeenIsVisible
<1> QED
  BY <1>1, <1>2, <1>3, PTL DEF SharedSpec

-----------------------------------------------------------------------------
(***************************************************************************)
(* Macros in a condition: what the passes over the macros leave alone.     *)
(***************************************************************************)
\* Where a reference occurs, there is a $.
LEMMA ReferenceBegins ==
  ASSUME NEW S, NEW t \in Seq(S), NEW R, NEW m \in Seq(R),
         NEW k \in Occurrences(t, Reference(m))
  PROVE  k \in Nat /\ k \in Occurrences(t, <<"$">>)
<1> DEFINE r == Reference(m)
           d == <<"$">>
           u == From(t, k)
           B == R \cup {"$"}
<1>1. Len(t) \in Nat /\ k \in 1..Len(t) /\ k \in Nat /\ IsPrefix(r, u)
  BY LenProperties DEF Occurrences
<1>2. u \in Seq(S) /\ Len(u) \in Nat /\ Len(u) >= 1
  <2>1. \A i \in k..Len(t) : t[i] \in S
    BY <1>1, ElementOfSeq
  <2>2. u \in Seq(S) /\ Len(u) = Len(t) - k + 1
    BY <1>1, <2>1, SubSeqProperties DEF From
  <2> QED
    BY <1>1, <2>2
<1>3. r \in Seq(B) /\ Len(r) \in Nat /\ Len(r) >= 1 /\ r[1] = "$"
  <2>1. d \in Seq(B) /\ m \in Seq(B) /\ Len(d) = 1 /\ d[1] = "$"
    OBVIOUS
  <2> HIDE DEF B, d
  <2>2. /\ d \o m \in Seq(B) /\ Len(d \o m) = Len(d) + Len(m)
        /\ \A i \in 1..Len(d) + Len(m) : (d \o m)[i] = IF i <= Len(d) THEN d[i] ELSE m[i - Len(d)]
    BY <2>1, ConcatProperties
  <2>3. Len(m) \in Nat /\ r = d \o m
    BY LenProperties DEF Reference, d
  <2> HIDE DEF r
  <2> QED
    BY <2>1, <2>2, <2>3
<1> HIDE DEF r, u, B
<1>4. Len(r) <= Len(u) /\ SubSeq(r, 1, Len(r)) = SubSeq(u, 1, Len(r))
  BY <1>1 DEF IsPrefix
<1>5. SubSeq(r, 1, Len(r))[1] = r[1]
  <2>1. \A i \in 1..Len(r) : r[i] \in B
    BY <1>3, ElementOfSeq
  <2>2. \A i \in 1..Len(r) - 1 + 1 : SubSeq(r, 1, Len(r))[i] = r[1 + i - 1]
    BY <1>3, <2>1, SubSeqProperties
  <2> QED
    BY <1>3, <2>2
<1>6. SubSeq(u, 1, Len(r))[1] = u[1]
  <2>1. \A i \in 1..Len(r) : u[i] \in S
    BY <1>2, <1>3, <1>4, ElementOfSeq
  <2>2. \A i \in 1..Len(r) - 1 + 1 : SubSeq(u, 1, Len(r))[i] = u[1 + i - 1]
    BY <1>3, <2>1, SubSeqProperties
  <2> QED
    BY <1>3, <2>2
<1>7. u[1] = "$"
  BY <1>3, <1>4, <1>5, <1>6
<1>8. IsPrefix(d, u)
  <2>1. d \in Seq({"$"}) /\ Len(d) = 1 /\ d[1] = "$" /\ {"$"} = {d[1]}
    OBVIOUS
  <2> HIDE DEF d
  <2>2. \A i \in 1..1 : u[i] \in {u[1]} /\ d[i] \in {u[1]}
    BY <1>7, <2>1
  <2>3. /\ SubSeq(u, 1, 1) \in Seq({u[1]}) /\ Len(SubSeq(u, 1, 1)) = 1
        /\ SubSeq(d, 1, 1) \in Seq({u[1]}) /\ Len(SubSeq(d, 1, 1)) = 1
    BY <2>2, SubSeqProperties
  <2>4. \A i \in 1..1 : SubSeq(u, 1, 1)[i] = u[1] /\ SubSeq(d, 1, 1)[i] = u[1]
    BY <2>3, ElementOfSeq
  <2>5. SubSeq(u, 1, 1) = SubSeq(d, 1, 1)
    BY <2>3, <2>4, SeqEqual
  <2> QED
    BY <1>2, <2>1, <2>5 DEF IsPrefix
<1> QED
  BY <1>1, <1>8 DEF Occurrences, u, d

\* The text from a position on begins with what is there.
LEMMA FromHere ==
  ASSUME NEW S, NEW t \in Seq(S)
  PROVE  /\ From(t, Len(t) + 1) = << >> /\ From(t, 1) = t
         /\ \A k \in 1..Len(t) : <<t[k]>> \o From(t, k + 1) = From(t, k)
<1> DEFINE n == Len(t)
<1>1. n \in Nat /\ \A i \in 1..n : t[i] \in S
  BY LenProperties, ElementOfSeq
<1>2. ASSUME NEW k \in 1..n + 1
      PROVE  /\ From(t, k) \in Seq(S) /\ Len(From(t, k)) = n + 1 - k
             /\ \A i \in 1..n + 1 - k : From(t, k)[i] = t[k + i - 1]
  <2>1. \A i \in k..n : t[i] \in S
    BY <1>1
  <2>2. /\ SubSeq(t, k, n) \in Seq(S)
        /\ Len(SubSeq(t, k, n)) = IF k <= n THEN n - k + 1 ELSE 0
        /\ \A i \in 1..n - k + 1 : SubSeq(t, k, n)[i] = t[k + i - 1]
    BY <1>1, <2>1, SubSeqProperties
  <2>3. n - k + 1 = n + 1 - k /\ (~(k <= n) => n + 1 - k = 0)
    BY <1>1
  <2> QED
    BY <2>2, <2>3 DEF From
<1>3. From(t, n + 1) = << >>
  BY <1>1, SubSeqEmpty DEF From
<1>4. From(t, 1) = t
  <2>1. From(t, 1) \in Seq(S) /\ Len(From(t, 1)) = n /\ \A i \in 1..n : From(t, 1)[i] = t[i]
    <3>1. 1 \in 1..n + 1 /\ n + 1 - 1 = n /\ \A i \in 1..n : 1 + i - 1 = i
      BY <1>1
    <3> QED
      BY <1>2, <3>1
  <2> QED
    BY <2>1, SeqEqual
<1>5. ASSUME NEW k \in 1..n
      PROVE  <<t[k]>> \o From(t, k + 1) = From(t, k)
  <2> DEFINE one == <<t[k]>>
             rest == From(t, k + 1)
             all == From(t, k)
             both == one \o rest
  <2>1. /\ one \in Seq(S) /\ Len(one) = 1 /\ one[1] = t[k]
    BY <1>1
  <2>2. k \in 1..n + 1 /\ k + 1 \in 1..n + 1 /\ n + 1 - (k + 1) = n - k /\ n + 1 - k = 1 + (n - k)
        /\ n - k \in Nat
    BY <1>1
  <2>3. /\ rest \in Seq(S) /\ Len(rest) = n - k
        /\ \A i \in 1..n - k : rest[i] = t[k + 1 + i - 1]
    BY <1>2, <2>2
  <2>4. /\ all \in Seq(S) /\ Len(all) = 1 + (n - k)
        /\ \A i \in 1..1 + (n - k) : all[i] = t[k + i - 1]
    BY <1>2, <2>2
  <2> HIDE DEF one, rest, all
  <2>5. /\ both \in Seq(S) /\ Len(both) = 1 + (n - k)
        /\ \A i \in 1..1 + (n - k) : both[i] = IF i <= 1 THEN one[i] ELSE rest[i - 1]
    <3>1. /\ both \in Seq(S) /\ Len(both) = Len(one) + Len(rest)
          /\ \A i \in 1..Len(one) + Len(rest) :
               both[i] = IF i <= Len(one) THEN one[i] ELSE rest[i - Len(one)]
      BY <2>1, <2>3, ConcatProperties
    <3> HIDE DEF both, n
    <3> QED
      BY <2>1, <2>3, <3>1
  <2> HIDE DEF both
  <2>6. ASSUME NEW i \in 1..1 + (n - k) PROVE both[i] = all[i]
    <3>1. CASE i = 1
      BY <1>1, <2>1, <2>2, <2>4, <2>5, <3>1
    <3>2. CASE i # 1
      <4>1. i - 1 \in 1..n - k /\ ~(i <= 1) /\ k + 1 + (i - 1) - 1 = k + i - 1
        BY <1>1, <2>2, <3>2
      <4>2. rest[i - 1] = t[k + 1 + (i - 1) - 1]
        BY <2>3, <4>1
      <4> QED
        BY <2>4, <2>5, <4>1, <4>2
    <3> QED
      BY <3>1, <3>2
  <2>7. both = all
    BY <2>4, <2>5, <2>6, SeqEqual
  <2> QED
    BY <2>7 DEF one, rest, all, both
<1> QED
  BY <1>3, <1>4, <1>5

\* Sys_ReplaceString leaves a text alone in which it finds nothing.
LEMMA NothingReplaced ==
  ASSUME NEW S, NEW t \in Seq(S), NEW s, NEW r, Occurrences(t, s) = {}
  PROVE  Sys_ReplaceString(t, s, r) = t
<1> DEFINE n == Len(t)
           Def(f) == f = [k \in 1..(n + 1) |->
                            IF k > n THEN <<>>
                            ELSE IF k \in Occurrences(t, s) THEN r \o f[k + Len(s)]
                            ELSE <<t[k]>> \o f[k + 1]]
           rest == CHOOSE f : Def(f)
           suffix == [k \in 1..(n + 1) |-> From(t, k)]
<1>1. Sys_ReplaceString(t, s, r) = rest[1]
  BY Zenon DEF Sys_ReplaceString
<1>2. n \in Nat
  BY LenProperties
<1>3. /\ From(t, n + 1) = << >> /\ From(t, 1) = t
      /\ \A k \in 1..n : <<t[k]>> \o From(t, k + 1) = From(t, k)
  BY FromHere
<1>4. Def(suffix)
  <2>1. ASSUME NEW k \in 1..(n + 1)
        PROVE  From(t, k) = IF k > n THEN <<>>
                            ELSE IF k \in Occurrences(t, s) THEN r \o suffix[k + Len(s)]
                            ELSE <<t[k]>> \o suffix[k + 1]
    <3>1. CASE k > n
      <4>1. k = n + 1
        BY <1>2, <3>1
      <4> QED
        BY <1>3, <3>1, <4>1
    <3>2. CASE ~(k > n)
      <4>1. k \in 1..n /\ k + 1 \in 1..(n + 1)
        BY <1>2, <3>2
      <4>2. suffix[k + 1] = From(t, k + 1)
        BY <4>1
      <4> HIDE DEF suffix
      <4> QED
        BY <1>3, <3>2, <4>1, <4>2
    <3> QED
      BY <3>1, <3>2
  <2> QED
    BY <2>1, Zenon
<1>5. Def(rest)
  <2>1. \E f : Def(f)
    BY <1>4
  <2> QED
    BY <2>1, Zenon
<1>6. /\ rest[n + 1] = << >>
      /\ \A k \in 1..n : rest[k] = <<t[k]>> \o rest[k + 1]
  <2> HIDE DEF rest
  <2>1. \A k \in 1..(n + 1) : rest[k] =
          IF k > n THEN <<>>
          ELSE IF k \in Occurrences(t, s) THEN r \o rest[k + Len(s)]
          ELSE <<t[k]>> \o rest[k + 1]
    BY <1>5, Zenon
  <2>2. n + 1 \in 1..(n + 1) /\ n + 1 > n /\ \A k \in 1..n : k \in 1..(n + 1) /\ ~(k > n)
    BY <1>2
  <2>3. \A k : k \notin Occurrences(t, s)
    OBVIOUS
  <2> QED
    BY <2>1, <2>2, <2>3, Zenon
<1> HIDE DEF rest, suffix
<1> DEFINE T == {i \in Nat : i <= n => rest[n + 1 - i] = From(t, n + 1 - i)}
<1>7. 0 \in T
  BY <1>2, <1>3, <1>6
<1>8. ASSUME NEW i \in Nat, i \in T PROVE i + 1 \in T
  <2> SUFFICES ASSUME i + 1 <= n PROVE rest[n + 1 - (i + 1)] = From(t, n + 1 - (i + 1))
    OBVIOUS
  <2> DEFINE k == n - i
  <2>1. k \in 1..n /\ n + 1 - (i + 1) = k /\ n + 1 - i = k + 1 /\ i <= n
    BY <1>2
  <2>2. rest[k + 1] = From(t, k + 1)
    BY <1>8, <2>1
  <2> HIDE DEF k, T
  <2>3. rest[k] = From(t, k)
    BY <1>3, <1>6, <2>1, <2>2
  <2> QED
    BY <2>1, <2>3
<1>9. n \in T
  <2>1. Nat \subseteq T
    <3> HIDE DEF T
    <3> QED
      BY <1>7, <1>8, NumbersInduction
  <2> QED
    BY <1>2, <2>1
<1>10. rest[1] = From(t, 1)
  BY <1>2, <1>9
<1> QED
  BY <1>1, <1>3, <1>10

-----------------------------------------------------------------------------
\* A condition in which every reference begins with the name of a conditional.
Guarded ==
  isCondition /\ \A k \in Occurrences(pString, <<"$">>) : NamesAConditional(k)

ResolveInv ==
  /\ order \in SetToSeqs(Macros) /\ Sorted(order)
  /\ pString \in Texts
  /\ next \in Nat \ {0}
  /\ next = 1 => bDoReplace
  /\ Guarded => buffer1 = pString /\ (next > 1 => buffer2 = pString)

\* The sorted list holds every macro once, the longest name first.
LEMMA OrderIs ==
  ASSUME order \in SetToSeqs(Macros), Sorted(order)
  PROVE  LET N == Cardinality(Macros)
         IN  /\ N \in Nat /\ Len(order) = N
             /\ \A i \in 1..N : order[i] \in Macros
             /\ \A m \in Macros : \E i \in 1..N : order[i] = m
             /\ \A i, j \in 1..N : /\ order[i] = order[j] => i = j
                                   /\ i < j => Len(order[i]) >= Len(order[j])
<1> DEFINE N == Cardinality(Macros)
<1>1. N \in Nat /\ IsFiniteSet(Macros)
  BY ResolveAssumption, FS_CardinalityType
<1>2. /\ order \in [1..N -> Macros]
      /\ \A i, j \in 1..N : i # j => order[i] # order[j]
  BY DEF SetToSeqs
<1> HIDE DEF N
<1>3. order \in Surjection(1..N, Macros)
  <2>1. IsFiniteSet(1..N) /\ Cardinality(1..N) = N
    BY <1>1, FS_Interval
  <2>2. order \in Injection(1..N, Macros)
    BY <1>2 DEF Injection, IsInjective
  <2> QED
    BY <1>1, <2>1, <2>2, FS_Injection DEF N
<1>4. Len(order) = N /\ DOMAIN order = 1..N
  <2>1. order \in Seq(Macros)
    BY <1>1, <1>2, SeqDef
  <2> QED
    BY <1>1, <1>2, <2>1, LenProperties
<1>5. \A m \in Macros : \E i \in 1..N : order[i] = m
  BY <1>3 DEF Surjection
<1>6. \A i, j \in 1..N : i < j => Len(order[i]) >= Len(order[j])
  BY <1>4 DEF Sorted
<1> QED
  BY <1>1, <1>2, <1>4, <1>5, <1>6 DEF N

\* The first macro of the sorted list is one of the longest.
LEMMA FirstIsLongest ==
  ASSUME ResolveInv, 1 <= Len(order)
  PROVE  order[1] \in Macros /\ \A n \in Macros : Len(n) <= Len(order[1])
<1> DEFINE N == Cardinality(Macros)
<1>1. /\ N \in Nat /\ Len(order) = N
      /\ \A i \in 1..N : order[i] \in Macros
      /\ \A m \in Macros : \E i \in 1..N : order[i] = m
      /\ \A i, j \in 1..N : i < j => Len(order[i]) >= Len(order[j])
  BY OrderIs DEF ResolveInv
<1> HIDE DEF N
<1>2. 1 \in 1..N /\ order[1] \in Macros
  BY <1>1
<1>3. ASSUME NEW n \in Macros PROVE Len(n) <= Len(order[1])
  <2>1. Len(n) \in Nat
    BY ResolveAssumption, LenProperties
  <2>2. PICK i \in 1..N : order[i] = n
    BY <1>1
  <2>3. CASE i = 1
    BY <2>1, <2>2, <2>3
  <2>4. CASE i # 1
    <3>1. 1 < i
      BY <2>4
    <3>2. Len(order[1]) >= Len(order[i])
      BY <1>1, <1>2, <3>1
    <3> QED
      BY <2>2, <3>2
  <2> QED
    BY <2>3, <2>4
<1> QED
  BY <1>2, <1>3

LEMMA ResolveKept ==
  LongestUnmentioned /\ ResolveInv /\ [ResolveNext]_resolveVars => ResolveInv'
<1> SUFFICES ASSUME LongestUnmentioned, ResolveInv, [ResolveNext]_resolveVars
             PROVE  ResolveInv'
  OBVIOUS
<1>1. CASE ResolveMacro
  <2> DEFINE m == order[next]
             found == Occurrences(buffer1, Reference(m))
             replace == bDoReplace /\ ~Blocked(m)
  <2>1. /\ next <= Len(order)
        /\ buffer1' = IF replace THEN Sys_ReplaceString(buffer1, Reference(m), value[m])
                      ELSE buffer2
        /\ buffer2' = buffer1'
        /\ next' = next + 1 /\ order' = order /\ pString' = pString
        /\ isCondition' = isCondition
    BY <1>1 DEF ResolveMacro
  <2>2. next \in Nat \ {0} /\ next' \in Nat \ {0} /\ next' # 1
    BY <2>1 DEF ResolveInv
  <2>3. Guarded' <=> Guarded
    BY <2>1 DEF Guarded, NamesAConditional
  <2>4. ASSUME Guarded PROVE buffer1' = pString
    <3>1. buffer1 = pString /\ (next > 1 => buffer2 = pString)
      BY <2>4 DEF ResolveInv
    <3>2. pString \in Seq(ToSet(pString)) /\ m \in Seq(ToSet(m)) /\ m \in Macros
      <4>1. Len(order) = Cardinality(Macros) /\ Cardinality(Macros) \in Nat
            /\ order \in [1..Cardinality(Macros) -> Macros]
        <5>1. Cardinality(Macros) \in Nat /\ order \in [1..Cardinality(Macros) -> Macros]
          BY ResolveAssumption, FS_CardinalityType DEF ResolveInv, SetToSeqs
        <5>2. order \in Seq(Macros)
          BY <5>1, SeqDef
        <5> QED
          BY <5>1, <5>2, LenProperties
      <4>2. m \in Macros
        BY <2>1, <2>2, <4>1
      <4> QED
        BY <4>2, ResolveAssumption DEF ResolveInv
    <3>3. CASE found = {}
      <4>1. replace => buffer1' = pString
        BY <2>1, <3>1, <3>2, <3>3, NothingReplaced
      <4>2. ~Blocked(m)
        BY <3>3 DEF Blocked
      <4>3. ~replace => next > 1
        BY <2>2, <4>2 DEF ResolveInv
      <4> QED
        BY <2>1, <3>1, <4>1, <4>3
    <3>4. CASE found # {}
      <4>1. First(found) \in found
        <5>1. found \subseteq Nat
          BY DEF Occurrences
        <5>2. \E k \in found : \A l \in found : k <= l
          BY <3>4, <5>1, LeastNumber
        <5> QED
          BY <5>2, Zenon DEF First
      <4>2. First(found) \in Occurrences(pString, <<"$">>)
        BY <3>1, <3>2, <4>1, ReferenceBegins
      <4>3. \E c \in Conditionals : IsPrefix(c, From(buffer1, First(found) + 1))
        BY <2>4, <3>1, <4>2 DEF Guarded, NamesAConditional
      <4>4. Blocked(m)
        BY <2>4, <3>4, <4>3 DEF Blocked, Guarded
      <4>5. next > 1
        <5> SUFFICES ASSUME next = 1 PROVE FALSE
          BY <2>2
        <5>1. \A n \in Macros : Len(n) <= Len(m)
          BY <2>1, FirstIsLongest
        <5>2. found = {}
          BY <3>1, <3>2, <5>1 DEF LongestUnmentioned, ResolveInv
        <5> QED
          BY <3>4, <5>2
      <4> QED
        BY <2>1, <3>1, <4>4, <4>5
    <3> QED
      BY <3>3, <3>4
  <2> QED
    BY <2>1, <2>2, <2>3, <2>4 DEF ResolveInv
<1>2. CASE EndPass
  <2>1. /\ order' = order /\ pString' = pString /\ isCondition' = isCondition
        /\ buffer1' = buffer1 /\ buffer2' = buffer2
    BY <1>2 DEF EndPass
  <2>2. \/ next' = next /\ bDoReplace' = bDoReplace
        \/ next' = 1 /\ bDoReplace' = TRUE
    BY <1>2, Zenon DEF EndPass
  <2>3. Guarded' <=> Guarded
    BY <2>1 DEF Guarded, NamesAConditional
  <2>4. next' \in Nat \ {0} /\ (next' = 1 => bDoReplace') /\ (next' > 1 => next > 1)
    <3>1. CASE next' = next /\ bDoReplace' = bDoReplace
      BY <3>1 DEF ResolveInv
    <3>2. CASE next' = 1 /\ bDoReplace' = TRUE
      BY <3>2
    <3> QED
      BY <2>2, <3>1, <3>2
  <2>5. Guarded => buffer1' = pString' /\ (next' > 1 => buffer2' = pString')
    BY <2>1, <2>4 DEF ResolveInv
  <2> QED
    BY <2>1, <2>3, <2>4, <2>5 DEF ResolveInv
<1>3. CASE Resolved \/ UNCHANGED resolveVars
  <2>1. UNCHANGED resolveVars
    BY <1>3 DEF Resolved
  <2> QED
    BY <2>1 DEF resolveVars, ResolveInv, Guarded, NamesAConditional
<1> QED
  BY <1>1, <1>2, <1>3 DEF ResolveNext

(***************************************************************************)
(* The loop over the macros keeps its types; it is over only behind the    *)
(* last macro of a pass that replaced nothing.                             *)
(***************************************************************************)
THEOREM ResolveTyped == ResolveSpec => []ResolveTypeOK
<1> DEFINE N == Cardinality(Macros)
<1>1. N \in Nat /\ IsFiniteSet(Macros)
  BY ResolveAssumption, FS_CardinalityType
<1>2. ASSUME ResolveTypeOK PROVE Len(order) = N
  <2>1. order \in [1..N -> Macros]
    BY <1>2 DEF ResolveTypeOK
  <2>2. order \in Seq(Macros)
    BY <1>1, <2>1, SeqDef
  <2> QED
    BY <1>1, <2>1, <2>2, LenProperties
<1>3. ResolveInit => ResolveTypeOK
  <2>1. SetToSeqs(Macros) \subseteq [1..N -> Macros]
    BY DEF SetToSeqs
  <2>2. 1 \in 1..N + 1
    BY <1>1
  <2> HIDE DEF N
  <2> QED
    BY <2>1, <2>2, Zenon DEF ResolveInit, ResolveTypeOK, N
<1>4. ResolveTypeOK /\ [ResolveNext]_resolveVars => ResolveTypeOK'
  <2> SUFFICES ASSUME ResolveTypeOK, [ResolveNext]_resolveVars PROVE ResolveTypeOK'
    OBVIOUS
  <2> HIDE DEF N
  <2>1. /\ order' = order /\ value' = value /\ pString' = pString
        /\ isCondition' = isCondition
        => order' \in [1..N -> Macros] /\ value' \in [Macros -> Values] /\ pString' \in Texts
           /\ isCondition' \in BOOLEAN
    BY DEF ResolveTypeOK, N
  <2>2. /\ next \in 1..N + 1 /\ bDone \in BOOLEAN /\ bDoReplace \in BOOLEAN
        /\ resolved \in BOOLEAN /\ (resolved => bDone /\ next = N + 1)
    BY DEF ResolveTypeOK, N
  <2>3. CASE ResolveMacro
    <3>1. /\ order' = order /\ value' = value /\ pString' = pString
          /\ isCondition' = isCondition /\ resolved' = resolved /\ ~resolved
          /\ next <= Len(order) /\ next' = next + 1
          /\ bDone' \in BOOLEAN /\ bDoReplace' \in BOOLEAN
      BY <2>2, <2>3, Zenon DEF ResolveMacro
    <3>2. next' \in 1..N + 1
      BY <1>1, <1>2, <2>2, <3>1
    <3> QED
      BY <2>1, <3>1, <3>2 DEF ResolveTypeOK, N
  <2>4. CASE EndPass
    <3>1. /\ order' = order /\ value' = value /\ pString' = pString
          /\ isCondition' = isCondition /\ next > Len(order)
      BY <2>4 DEF EndPass
    <3>2. \/ bDone /\ resolved' = TRUE /\ next' = next /\ bDone' = bDone /\ bDoReplace' = bDoReplace
          \/ next' = 1 /\ bDone' = TRUE /\ bDoReplace' = TRUE /\ resolved' = FALSE
      BY <2>2, <2>4, Zenon DEF EndPass
    <3>3. next = N + 1 /\ 1 \in 1..N + 1
      BY <1>1, <1>2, <2>2, <3>1
    <3>4. /\ next' \in 1..N + 1 /\ bDone' \in BOOLEAN /\ bDoReplace' \in BOOLEAN
          /\ resolved' \in BOOLEAN /\ (resolved' => bDone' /\ next' = N + 1)
      BY <2>2, <3>2, <3>3, Zenon
    <3> QED
      BY <2>1, <3>1, <3>4 DEF ResolveTypeOK, N
  <2>5. CASE Resolved \/ UNCHANGED resolveVars
    BY <2>5 DEF Resolved, resolveVars, ResolveTypeOK
  <2> QED
    BY <2>3, <2>4, <2>5 DEF ResolveNext
<1> QED
  BY <1>3, <1>4, PTL DEF ResolveSpec

(***************************************************************************)
(* "give conditionals priority over macros", for every set of macros and   *)
(* conditionals and every string: a condition whose references all begin   *)
(* with conditionals comes out as it went in, provided that no string      *)
(* mentions the macro that comes first (ResolveMacrosInStringInternal of   *)
(* src/utils/vpc/macros.cpp copies buffer2 also when nothing was written   *)
(* to it in this pass).                                                    *)
(***************************************************************************)
THEOREM ConditionsAreUntouched ==
  ASSUME LongestUnmentioned
  PROVE  ResolveSpec => []ConditionUntouched
<1>1. ResolveInit => ResolveInv
  <2> SUFFICES ASSUME ResolveInit PROVE ResolveInv
    OBVIOUS
  <2> QED
    BY DEF ResolveInit, ResolveInv
<1>2. ResolveInv /\ [ResolveNext]_resolveVars => ResolveInv'
  BY ResolveKept
<1>3. ResolveInv => ConditionUntouched
  BY DEF ResolveInv, Guarded, ConditionUntouched
<1> QED
  BY <1>1, <1>2, <1>3, PTL DEF ResolveSpec

-----------------------------------------------------------------------------
(***************************************************************************)
(* THE LONGEST MATCH.  Sys_ReplaceString and the scan it is compared with  *)
(* are read from the front of a text: a symbol, or a reference and what    *)
(* stands behind it.                                                       *)
(***************************************************************************)
Symbols == {"$"} \cup UNION {ToSet(s) : s \in Macros \cup Values \cup Texts}
Strings == Seq(Symbols)

LEMMA FromIs ==
  ASSUME NEW t \in Strings, NEW k \in 1..(Len(t) + 1)
  PROVE  /\ From(t, k) \in Strings /\ Len(From(t, k)) = Len(t) + 1 - k /\ Len(t) \in Nat
         /\ \A i \in 1..(Len(t) + 1 - k) : From(t, k)[i] = t[k + i - 1]
         /\ From(t, k) # <<>> <=> k <= Len(t)
<1> DEFINE n == Len(t)
<1>1. n \in Nat /\ \A i \in 1..n : t[i] \in Symbols
  BY LenProperties, ElementOfSeq DEF Strings
<1>2. \A i \in k..n : t[i] \in Symbols
  BY <1>1
<1>3. /\ SubSeq(t, k, n) \in Seq(Symbols)
      /\ Len(SubSeq(t, k, n)) = IF k <= n THEN n - k + 1 ELSE 0
      /\ \A i \in 1..n - k + 1 : SubSeq(t, k, n)[i] = t[k + i - 1]
  BY <1>1, <1>2, SubSeqProperties
<1>4. n - k + 1 = n + 1 - k /\ (~(k <= n) => n + 1 - k = 0)
  BY <1>1
<1>5. From(t, k) # <<>> <=> Len(From(t, k)) # 0
  BY <1>3, EmptySeq DEF From
<1> QED
  BY <1>1, <1>3, <1>4, <1>5 DEF From, Strings

LEMMA FromFrom ==
  ASSUME NEW t \in Strings, NEW j \in 0..Len(t), NEW k \in 1..(Len(t) - j + 1)
  PROVE  From(From(t, j + 1), k) = From(t, k + j)
<1> DEFINE u == From(t, j + 1)
           v == From(u, k)
           w == From(t, k + j)
<1>1. Len(t) \in Nat
  BY LenProperties DEF Strings
<1>2. /\ u \in Strings /\ Len(u) = Len(t) - j
      /\ \A i \in 1..(Len(t) - j) : u[i] = t[j + i]
  <2>1. j + 1 \in 1..(Len(t) + 1) /\ Len(t) + 1 - (j + 1) = Len(t) - j
        /\ \A i \in 1..(Len(t) - j) : (j + 1) + i - 1 = j + i
    BY <1>1
  <2>2. /\ u \in Strings /\ Len(u) = Len(t) + 1 - (j + 1)
        /\ \A i \in 1..(Len(t) + 1 - (j + 1)) : u[i] = t[(j + 1) + i - 1]
    BY <2>1, FromIs
  <2> HIDE DEF u
  <2> QED
    BY <2>1, <2>2
<1> HIDE DEF u
<1>3. /\ v \in Strings /\ Len(v) = Len(t) + 1 - (k + j)
      /\ \A i \in 1..(Len(t) + 1 - (k + j)) : v[i] = u[k + i - 1]
  <2>1. k \in 1..(Len(u) + 1) /\ Len(u) + 1 - k = Len(t) + 1 - (k + j)
    BY <1>1, <1>2
  <2> QED
    BY <1>2, <2>1, FromIs
<1>4. /\ w \in Strings /\ Len(w) = Len(t) + 1 - (k + j)
      /\ \A i \in 1..(Len(t) + 1 - (k + j)) : w[i] = t[k + j + i - 1]
  <2>1. k + j \in 1..(Len(t) + 1)
    BY <1>1
  <2> QED
    BY <2>1, FromIs
<1> HIDE DEF v, w
<1>5. ASSUME NEW i \in 1..(Len(t) + 1 - (k + j)) PROVE v[i] = w[i]
  <2>1. k + i - 1 \in 1..(Len(t) - j) /\ j + (k + i - 1) = k + j + i - 1
    BY <1>1
  <2>2. u[k + i - 1] = t[j + (k + i - 1)]
    BY <1>2, <2>1
  <2> QED
    BY <1>3, <1>4, <2>1, <2>2
<1>6. v = w
  BY <1>3, <1>4, <1>5, SeqEqual DEF Strings
<1> QED
  BY <1>6 DEF v, w, u

LEMMA PrefixIs ==
  ASSUME NEW s \in Strings, NEW t \in Strings
  PROVE  IsPrefix(s, t) <=> Len(s) <= Len(t) /\ \A i \in 1..Len(s) : t[i] = s[i]
<1> DEFINE n == Len(s)
           a == SubSeq(s, 1, n)
           b == SubSeq(t, 1, n)
<1>1. /\ n \in Nat /\ Len(t) \in Nat
      /\ \A i \in 1..n : s[i] \in Symbols
      /\ \A i \in 1..Len(t) : t[i] \in Symbols
  BY LenProperties, ElementOfSeq DEF Strings
<1> SUFFICES ASSUME n <= Len(t)
             PROVE  a = b <=> \A i \in 1..n : t[i] = s[i]
  BY DEF IsPrefix
<1>2. /\ a \in Strings /\ Len(a) = n /\ b \in Strings /\ Len(b) = n
      /\ \A i \in 1..n : a[i] = s[i] /\ b[i] = t[i]
  <2>1. /\ a \in Seq(Symbols) /\ Len(a) = IF 1 <= n THEN n - 1 + 1 ELSE 0
        /\ \A i \in 1..n - 1 + 1 : a[i] = s[1 + i - 1]
    BY <1>1, SubSeqProperties
  <2>2. \A i \in 1..n : t[i] \in Symbols
    BY <1>1
  <2>3. /\ b \in Seq(Symbols) /\ Len(b) = IF 1 <= n THEN n - 1 + 1 ELSE 0
        /\ \A i \in 1..n - 1 + 1 : b[i] = t[1 + i - 1]
    BY <1>1, <2>2, SubSeqProperties
  <2>4. n - 1 + 1 = n /\ (~(1 <= n) => n = 0) /\ \A i \in 1..n : 1 + i - 1 = i
    BY <1>1
  <2> HIDE DEF a, b, n
  <2> QED
    BY <2>1, <2>3, <2>4 DEF Strings
<1> HIDE DEF a, b
<1>3. a = b => \A i \in 1..n : t[i] = s[i]
  <2> SUFFICES ASSUME a = b, NEW i \in 1..n PROVE t[i] = s[i]
    OBVIOUS
  <2> QED
    BY <1>2
<1>4. (\A i \in 1..n : t[i] = s[i]) => a = b
  <2> SUFFICES ASSUME \A i \in 1..n : t[i] = s[i] PROVE a = b
    OBVIOUS
  <2>1. \A i \in 1..n : a[i] = b[i]
    BY <1>2
  <2> QED
    BY <1>2, <2>1, SeqEqual DEF Strings
<1> QED
  BY <1>3, <1>4

LEMMA SymbolsTyped ==
  /\ Macros \subseteq Strings /\ Values \subseteq Strings /\ Texts \subseteq Strings
  /\ "$" \in Symbols
  /\ \A m \in Macros : /\ Reference(m) \in Strings /\ Len(m) \in Nat
                       /\ Len(Reference(m)) = 1 + Len(m)
                       /\ Reference(m)[1] = "$" /\ Reference(m) # <<>>
                       /\ \A i \in 1..Len(m) : Reference(m)[1 + i] = m[i]
<1>1. ASSUME NEW s \in Macros \cup Values \cup Texts PROVE s \in Strings
  <2>1. s \in Seq(ToSet(s)) /\ ToSet(s) \subseteq Symbols
    BY ResolveAssumption DEF Symbols
  <2>2. Len(s) \in Nat /\ s \in [1..Len(s) -> ToSet(s)]
    BY <2>1, LenProperties
  <2>3. s \in [1..Len(s) -> Symbols]
    BY <2>1, <2>2
  <2> QED
    BY <2>2, <2>3, SeqDef DEF Strings
<1>2. "$" \in Symbols
  BY Zenon DEF Symbols
<1>3. ASSUME NEW m \in Macros
      PROVE  /\ Reference(m) \in Strings /\ Len(m) \in Nat
             /\ Len(Reference(m)) = 1 + Len(m)
             /\ Reference(m)[1] = "$" /\ Reference(m) # <<>>
             /\ \A i \in 1..Len(m) : Reference(m)[1 + i] = m[i]
  <2> DEFINE d == <<"$">>
             r == d \o m
  <2>1. d \in Seq(Symbols) /\ Len(d) = 1 /\ d[1] = "$"
    BY <1>2
  <2>2. m \in Seq(Symbols) /\ Len(m) \in Nat
    BY <1>1, LenProperties DEF Strings
  <2> HIDE DEF d
  <2>3. /\ r \in Seq(Symbols) /\ Len(r) = Len(d) + Len(m)
        /\ \A i \in 1..Len(d) + Len(m) : r[i] = IF i <= Len(d) THEN d[i] ELSE m[i - Len(d)]
    BY <2>1, <2>2, ConcatProperties
  <2> HIDE DEF r
  <2>4. r[1] = "$"
    BY <2>1, <2>2, <2>3
  <2>5. ASSUME NEW i \in 1..Len(m) PROVE r[1 + i] = m[i]
    <3>1. 1 + i \in 1..1 + Len(m) /\ ~(1 + i <= 1) /\ 1 + i - 1 = i
      BY <2>2
    <3> QED
      BY <2>1, <2>3, <3>1
  <2>6. r # <<>>
    BY <2>1, <2>2, <2>3, EmptySeq
  <2>7. r = Reference(m)
    BY DEF r, d, Reference
  <2> QED
    BY <2>1, <2>2, <2>3, <2>4, <2>5, <2>6, <2>7 DEF Strings
<1> QED
  BY <1>1, <1>2, <1>3

LEMMA OccursIs ==
  ASSUME NEW t \in Strings, NEW s, NEW k
  PROVE  k \in Occurrences(t, s) <=> k \in 1..Len(t) /\ IsPrefix(s, From(t, k))
BY DEF Occurrences

(***************************************************************************)
(* Sys_ReplaceString, read from the front.                                 *)
(***************************************************************************)
LEMMA ReplaceIs ==
  ASSUME NEW t \in Strings, NEW s \in Strings, NEW r \in Strings, s # <<>>
  PROVE  LET n == Len(t)
             emit == [k \in 1..n |-> IF IsPrefix(s, From(t, k)) THEN r ELSE <<t[k]>>]
             skip == [k \in 1..n |-> IF IsPrefix(s, From(t, k)) THEN Len(s) ELSE 1]
         IN  /\ n \in Nat /\ \A k \in 1..n : skip[k] \in Nat /\ skip[k] >= 1 /\ k + skip[k] <= n + 1
             /\ \E f \in [1..(n + 1) -> Strings] :
                  IsBackward(n, emit, skip, f) /\ f[1] = Sys_ReplaceString(t, s, r)
<1> DEFINE n == Len(t)
           emit == [k \in 1..n |-> IF IsPrefix(s, From(t, k)) THEN r ELSE <<t[k]>>]
           skip == [k \in 1..n |-> IF IsPrefix(s, From(t, k)) THEN Len(s) ELSE 1]
           Def(f) == f = [k \in 1..(n + 1) |->
                            IF k > n THEN <<>>
                            ELSE IF k \in Occurrences(t, s) THEN r \o f[k + Len(s)]
                            ELSE <<t[k]>> \o f[k + 1]]
           rest == CHOOSE f : Def(f)
<1>1. Sys_ReplaceString(t, s, r) = rest[1]
  BY Zenon DEF Sys_ReplaceString
<1>2. n \in Nat /\ Len(s) \in Nat /\ Len(s) # 0 /\ \A i \in 1..n : t[i] \in Symbols
  BY LenProperties, ElementOfSeq, EmptySeq DEF Strings
<1>3. ASSUME NEW k \in 1..n
      PROVE  skip[k] \in Nat /\ skip[k] >= 1 /\ k + skip[k] <= n + 1
  <2>1. CASE IsPrefix(s, From(t, k))
    <3>1. Len(s) <= Len(From(t, k)) /\ Len(From(t, k)) = n + 1 - k
      <4>1. k \in 1..(n + 1)
        BY <1>2
      <4> QED
        BY <2>1, <4>1, FromIs DEF IsPrefix
    <3> QED
      BY <1>2, <2>1, <3>1
  <2>2. CASE ~IsPrefix(s, From(t, k))
    BY <1>2, <2>2
  <2> QED
    BY <2>1, <2>2
<1>4. emit \in [1..n -> Seq(Symbols)] /\ skip \in [1..n -> Nat]
  <2>1. ASSUME NEW k \in 1..n PROVE (IF IsPrefix(s, From(t, k)) THEN r ELSE <<t[k]>>) \in Seq(Symbols)
    <3>1. <<t[k]>> \in Seq(Symbols)
      BY <1>2
    <3> QED
      BY <3>1 DEF Strings
  <2>2. \A k \in 1..n : (IF IsPrefix(s, From(t, k)) THEN Len(s) ELSE 1) \in Nat
    BY <1>2
  <2> QED
    BY <2>1, <2>2
<1>5. ASSUME NEW f
      PROVE  Def(f) <=> IsBackward(n, emit, skip, f)
  <2>1. ASSUME NEW k \in 1..(n + 1)
        PROVE  (IF k > n THEN <<>>
                ELSE IF k \in Occurrences(t, s) THEN r \o f[k + Len(s)]
                ELSE <<t[k]>> \o f[k + 1])
               = IF k > n THEN <<>> ELSE emit[k] \o f[k + skip[k]]
    <3>1. CASE k > n
      BY <3>1
    <3>2. CASE ~(k > n)
      <4>1. k \in 1..n
        BY <1>2, <3>2
      <4>2. k \in Occurrences(t, s) <=> IsPrefix(s, From(t, k))
        BY <4>1, OccursIs
      <4>3. CASE IsPrefix(s, From(t, k))
        <5>1. emit[k] = r /\ skip[k] = Len(s)
          BY <4>1, <4>3
        <5> HIDE DEF emit, skip
        <5> QED
          BY <3>2, <4>2, <4>3, <5>1
      <4>4. CASE ~IsPrefix(s, From(t, k))
        <5>1. emit[k] = <<t[k]>> /\ skip[k] = 1
          BY <4>1, <4>4
        <5> HIDE DEF emit, skip
        <5> QED
          BY <3>2, <4>2, <4>4, <5>1
      <4> QED
        BY <4>3, <4>4
    <3> QED
      BY <3>1, <3>2
  <2> HIDE DEF emit, skip
  <2> QED
    BY <2>1, Zenon DEF IsBackward
<1>6. \E f \in [1..(n + 1) -> Seq(Symbols)] : IsBackward(n, emit, skip, f)
  <2> HIDE DEF emit, skip
  <2> QED
    BY <1>2, <1>3, <1>4, BackwardExists
<1>7. PICK f \in [1..(n + 1) -> Seq(Symbols)] : IsBackward(n, emit, skip, f)
  BY <1>6
<1> HIDE DEF emit, skip
<1>8. Def(rest)
  <2>1. Def(f)
    BY <1>5, <1>7
  <2> HIDE DEF Def
  <2> QED
    BY <2>1, Zenon
<1>9. IsBackward(n, emit, skip, rest)
  <2> HIDE DEF Def, rest
  <2> QED
    BY <1>5, <1>8
<1>10. f[1] = rest[1]
  <2> HIDE DEF Def, rest, n
  <2>1. \A k \in 1..n : skip[k] \in Nat /\ skip[k] >= 1 /\ k + skip[k] <= n + 1
    BY <1>3
  <2> QED
    BY <1>2, <1>7, <1>9, <2>1, BackwardUnique
<1> QED
  BY <1>1, <1>2, <1>3, <1>7, <1>10 DEF emit, skip, Strings

\* The text from position j + 1 on, and what stands there.
LEMMA FromAt ==
  ASSUME NEW t \in Strings, NEW j \in 0..Len(t)
  PROVE  /\ From(t, j + 1) \in Strings /\ Len(From(t, j + 1)) = Len(t) - j
         /\ \A k \in 1..(Len(t) - j) : /\ From(t, j + 1)[k] = t[k + j]
                                       /\ From(From(t, j + 1), k) = From(t, k + j)
<1>1. Len(t) \in Nat
  BY LenProperties DEF Strings
<1>2. j + 1 \in 1..(Len(t) + 1) /\ Len(t) + 1 - (j + 1) = Len(t) - j
  BY <1>1
<1>3. /\ From(t, j + 1) \in Strings /\ Len(From(t, j + 1)) = Len(t) - j
      /\ \A i \in 1..(Len(t) - j) : From(t, j + 1)[i] = t[j + 1 + i - 1]
  <2>1. /\ From(t, j + 1) \in Strings /\ Len(From(t, j + 1)) = Len(t) + 1 - (j + 1)
        /\ \A i \in 1..(Len(t) + 1 - (j + 1)) : From(t, j + 1)[i] = t[j + 1 + i - 1]
    BY <1>2, FromIs
  <2> QED
    BY <1>2, <2>1
<1>4. ASSUME NEW k \in 1..(Len(t) - j)
      PROVE  From(t, j + 1)[k] = t[k + j] /\ From(From(t, j + 1), k) = From(t, k + j)
  <2>1. k \in 1..(Len(t) - j + 1) /\ j + 1 + k - 1 = k + j
    BY <1>1
  <2>2. From(From(t, j + 1), k) = From(t, k + j)
    BY <2>1, FromFrom
  <2> QED
    BY <1>3, <2>1, <2>2
<1> QED
  BY <1>3, <1>4

(***************************************************************************)
(* Sys_ReplaceString replaces s at the start of a text and goes on behind  *)
(* it, or keeps the first symbol and goes on with the next.                *)
(***************************************************************************)
LEMMA Replaced ==
  ASSUME NEW t \in Strings, NEW m \in Macros, NEW r \in Strings
  PROVE  LET s == Reference(m)
         IN  /\ Sys_ReplaceString(t, s, r) \in Strings
             /\ t = <<>> => Sys_ReplaceString(t, s, r) = <<>>
             /\ t # <<>> /\ IsPrefix(s, t) =>
                  /\ Len(s) \in 1..Len(t)
                  /\ Sys_ReplaceString(t, s, r) = r \o Sys_ReplaceString(From(t, Len(s) + 1), s, r)
             /\ t # <<>> /\ ~IsPrefix(s, t) =>
                  Sys_ReplaceString(t, s, r) = <<t[1]>> \o Sys_ReplaceString(From(t, 2), s, r)
<1> DEFINE s == Reference(m)
<1>0. s \in Strings /\ s # <<>>
  BY SymbolsTyped
<1> HIDE DEF s
<1> DEFINE R(u) == Sys_ReplaceString(u, s, r)
           emit(u) == [k \in 1..Len(u) |-> IF IsPrefix(s, From(u, k)) THEN r ELSE <<u[k]>>]
           skip(u) == [k \in 1..Len(u) |-> IF IsPrefix(s, From(u, k)) THEN Len(s) ELSE 1]
           Steady(u) == \A k \in 1..Len(u) :
                          skip(u)[k] \in Nat /\ skip(u)[k] >= 1 /\ k + skip(u)[k] <= Len(u) + 1
           n == Len(t)
<1>1. ASSUME NEW u \in Strings
      PROVE  /\ Len(u) \in Nat /\ Steady(u)
             /\ \E f \in [1..(Len(u) + 1) -> Strings] :
                  IsBackward(Len(u), emit(u), skip(u), f) /\ f[1] = R(u)
  BY <1>0, ReplaceIs
<1>2. PICK f : /\ f \in [1..(n + 1) -> Strings]
               /\ IsBackward(n, emit(t), skip(t), f) /\ f[1] = R(t)
  BY <1>1
<1>3. n \in Nat /\ Steady(t) /\ (n = 0 <=> t = <<>>)
  BY <1>1, EmptySeq DEF Strings
<1>4. ASSUME NEW j \in 0..n
      PROVE  R(From(t, j + 1)) = f[j + 1]
  <2> DEFINE u == From(t, j + 1)
  <2>1. /\ u \in Strings /\ Len(u) = n - j
        /\ \A k \in 1..(n - j) : u[k] = t[k + j] /\ From(u, k) = From(t, k + j)
    BY FromAt
  <2> HIDE DEF u
  <2>2. PICK g : IsBackward(Len(u), emit(u), skip(u), g) /\ g[1] = R(u)
    <3> HIDE DEF emit, skip, R
    <3> QED
      BY <1>1, <2>1
  <2>3. ASSUME NEW k \in 1..Len(u)
        PROVE  emit(u)[k] = emit(t)[k + j] /\ skip(u)[k] = skip(t)[k + j]
    <3>1. k \in 1..(n - j) /\ k + j \in 1..n
      BY <1>3, <2>1
    <3> QED
      BY <2>1, <3>1
  <2> HIDE DEF emit, skip, R
  <2>4. \A k \in 1..(Len(u) + 1) : g[k] = f[k + j]
    <3>1. j \in Nat /\ Len(u) \in Nat
      BY <1>3, <2>1
    <3>2. \A k \in 1..n : /\ skip(t)[k] \in Nat /\ skip(t)[k] >= 1
                          /\ k + skip(t)[k] <= n + 1
      BY <1>3
    <3> DEFINE et == emit(t)
               st == skip(t)
               eu == emit(u)
               su == skip(u)
               l == Len(u)
    <3>3. /\ n \in Nat /\ j \in Nat /\ l \in Nat /\ l = n - j
          /\ \A k \in 1..n : st[k] \in Nat /\ st[k] >= 1 /\ k + st[k] <= n + 1
          /\ IsBackward(n, et, st, f) /\ IsBackward(l, eu, su, g)
          /\ \A k \in 1..l : eu[k] = et[k + j] /\ su[k] = st[k + j]
      BY <1>2, <1>3, <2>1, <2>2, <2>3, <3>1, <3>2
    <3> HIDE DEF n, et, st, eu, su, l
    <3>4. \A k \in 1..(l + 1) : g[k] = f[k + j]
      BY <3>3, BackwardAgree, SMTT(60)
    <3> QED
      BY <3>4 DEF l
  <2>5. 1 \in 1..(Len(u) + 1) /\ 1 + j = j + 1
    BY <1>3, <2>1
  <2> QED
    BY <2>2, <2>4, <2>5 DEF u
<1>5. R(t) \in Strings
  <2>1. 1 \in 1..(n + 1)
    BY <1>3
  <2> QED
    BY <1>2, <2>1
<1>6. f[1] = IF 1 > n THEN <<>> ELSE emit(t)[1] \o f[1 + skip(t)[1]]
  <2>1. \A k \in 1..(n + 1) : f[k] = IF k > n THEN <<>> ELSE emit(t)[k] \o f[k + skip(t)[k]]
    <3> HIDE DEF emit, skip
    <3> QED
      BY <1>2, Zenon DEF IsBackward
  <2>2. 1 \in 1..(n + 1)
    BY <1>3
  <2> HIDE DEF emit, skip
  <2> QED
    BY <2>1, <2>2
<1>7. CASE t = <<>>
  <2>1. 1 > n
    BY <1>3, <1>7
  <2> QED
    BY <1>2, <1>5, <1>6, <1>7, <2>1 DEF s
<1>8. CASE t # <<>>
  <2>1. 1 \in 1..n /\ ~(1 > n)
    BY <1>3, <1>8
  <2>2. From(t, 1) = t
    BY FromHere DEF Strings
  <2>3. CASE IsPrefix(s, t)
    <3>1. emit(t)[1] = r /\ skip(t)[1] = Len(s)
      BY <2>1, <2>2, <2>3
    <3>2. Len(s) \in Nat /\ Len(s) >= 1 /\ 1 + Len(s) <= n + 1
      BY <1>3, <2>1, <3>1
    <3>3. Len(s) \in 0..n /\ Len(s) \in 1..n /\ 1 + Len(s) = Len(s) + 1
      BY <1>3, <3>2
    <3>4. R(From(t, Len(s) + 1)) = f[Len(s) + 1]
      BY <1>4, <3>3
    <3> HIDE DEF emit, skip, R
    <3>5. R(t) = r \o R(From(t, Len(s) + 1))
      BY <1>2, <1>6, <2>1, <3>1, <3>3, <3>4
    <3> QED
      BY <1>5, <1>8, <2>3, <3>3, <3>5 DEF R, s
  <2>4. CASE ~IsPrefix(s, t)
    <3>1. emit(t)[1] = <<t[1]>> /\ skip(t)[1] = 1
      BY <2>1, <2>2, <2>4
    <3>2. 1 \in 0..n /\ 1 + 1 = 2
      BY <1>3, <2>1
    <3>3. R(From(t, 2)) = f[2]
      BY <1>4, <3>2
    <3> HIDE DEF emit, skip, R
    <3>5. R(t) = <<t[1]>> \o R(From(t, 2))
      BY <1>2, <1>6, <2>1, <3>1, <3>2, <3>3
    <3> QED
      BY <1>5, <1>8, <2>4, <3>5 DEF R, s
  <2> QED
    BY <2>3, <2>4
<1> QED
  BY <1>7, <1>8 DEF s

\* The macros whose references a text begins with, and the one that is meant.
NamesAt(t) == {m \in Macros : IsPrefix(Reference(m), t)}
Longest(t) == CHOOSE m \in NamesAt(t) : \A n \in NamesAt(t) : Len(n) <= Len(m)

LEMMA LongestIs ==
  ASSUME NEW t \in Strings, NamesAt(t) # {}
  PROVE  /\ Longest(t) \in NamesAt(t) /\ Longest(t) \in Macros
         /\ \A n \in NamesAt(t) : Len(n) <= Len(Longest(t))
         /\ Len(Longest(t)) \in Nat /\ Len(Longest(t)) + 1 \in 1..Len(t)
<1>1. ASSUME NEW m \in NamesAt(t)
      PROVE  m \in Macros /\ Len(m) \in Nat /\ Len(m) + 1 <= Len(t) /\ Len(t) \in Nat
  <2>1. /\ m \in Macros /\ IsPrefix(Reference(m), t) /\ Len(Reference(m)) = 1 + Len(m)
        /\ Len(m) \in Nat
    BY SymbolsTyped DEF NamesAt
  <2>2. Len(t) \in Nat
    BY LenProperties DEF Strings
  <2> QED
    BY <2>1, <2>2 DEF IsPrefix
<1>2. \E m \in NamesAt(t) : \A n \in NamesAt(t) : Len(n) <= Len(m)
  <2> DEFINE L == {Len(t) - Len(m) : m \in NamesAt(t)}
  <2>1. L \subseteq Nat /\ L # {}
    BY <1>1
  <2>2. PICK l \in L : \A k \in L : l <= k
    <3> HIDE DEF L
    <3> QED
      BY <2>1, LeastNumber
  <2>3. PICK m \in NamesAt(t) : l = Len(t) - Len(m)
    BY <2>2
  <2>4. ASSUME NEW n \in NamesAt(t) PROVE Len(n) <= Len(m)
    <3>1. l <= Len(t) - Len(n)
      BY <2>2
    <3> QED
      BY <1>1, <2>3, <3>1
  <2> QED
    BY <2>4
<1>3. Longest(t) \in NamesAt(t) /\ \A n \in NamesAt(t) : Len(n) <= Len(Longest(t))
  BY <1>2, Zenon DEF Longest
<1> QED
  BY <1>1, <1>3

(***************************************************************************)
(* What Scan makes of each position, as for Sys_ReplaceString.             *)
(***************************************************************************)
LEMMA ScanIs ==
  ASSUME NEW t \in Strings, NEW E \in [Macros -> Strings]
  PROVE  LET n == Len(t)
             none(k) == NamesAt(From(t, k)) = {}
             emit == [k \in 1..n |-> IF none(k) THEN <<t[k]>> ELSE E[Longest(From(t, k))]]
             skip == [k \in 1..n |-> IF none(k) THEN 1 ELSE 1 + Len(Longest(From(t, k)))]
         IN  /\ n \in Nat /\ \A k \in 1..n : skip[k] \in Nat /\ skip[k] >= 1 /\ k + skip[k] <= n + 1
             /\ \E f : /\ f \in [1..(n + 1) -> Strings]
                       /\ IsBackward(n, emit, skip, f) /\ f[1] = Scan(t, E)
<1> DEFINE n == Len(t)
           none(k) == NamesAt(From(t, k)) = {}
           emit == [k \in 1..n |-> IF none(k) THEN <<t[k]>> ELSE E[Longest(From(t, k))]]
           skip == [k \in 1..n |-> IF none(k) THEN 1 ELSE 1 + Len(Longest(From(t, k)))]
           here(k) == {m \in Macros : k \in Occurrences(t, Reference(m))}
           longest(k) == CHOOSE m \in here(k) : \A l \in here(k) : Len(l) <= Len(m)
           Def(f) == f = [k \in 1..(n + 1) |->
                            IF k > n THEN <<>>
                            ELSE IF here(k) = {} THEN <<t[k]>> \o f[k + 1]
                            ELSE E[longest(k)] \o f[k + 1 + Len(longest(k))]]
           rest == CHOOSE f : Def(f)
<1>1. Scan(t, E) = rest[1]
  BY Zenon DEF Scan
<1>2. n \in Nat /\ \A i \in 1..n : t[i] \in Symbols
  BY LenProperties, ElementOfSeq DEF Strings
<1>3. ASSUME NEW k \in 1..n
      PROVE  From(t, k) \in Strings /\ Len(From(t, k)) = n + 1 - k
  <2>1. k \in 1..(n + 1)
    BY <1>2
  <2> QED
    BY <2>1, FromIs
<1>4. ASSUME NEW k \in 1..n, ~none(k)
      PROVE  /\ Longest(From(t, k)) \in Macros /\ Len(Longest(From(t, k))) \in Nat
             /\ k + 1 + Len(Longest(From(t, k))) <= n + 1
  <2>1. /\ Longest(From(t, k)) \in Macros /\ Len(Longest(From(t, k))) \in Nat
        /\ Len(Longest(From(t, k))) + 1 \in 1..Len(From(t, k))
    BY <1>3, <1>4, LongestIs
  <2> QED
    BY <1>2, <1>3, <2>1
<1>5. ASSUME NEW k \in 1..n
      PROVE  here(k) = NamesAt(From(t, k)) /\ longest(k) = Longest(From(t, k))
  <2>1. here(k) = NamesAt(From(t, k))
    BY <1>5, OccursIs DEF NamesAt
  <2> QED
    BY <2>1, Zenon DEF Longest
<1>6. ASSUME NEW k \in 1..n
      PROVE  skip[k] \in Nat /\ skip[k] >= 1 /\ k + skip[k] <= n + 1
  <2>1. CASE none(k)
    BY <1>2, <2>1
  <2>2. CASE ~none(k)
    BY <1>2, <1>4, <2>2
  <2> QED
    BY <2>1, <2>2
<1>7. emit \in [1..n -> Seq(Symbols)] /\ skip \in [1..n -> Nat]
  <2>1. ASSUME NEW k \in 1..n
        PROVE  (IF none(k) THEN <<t[k]>> ELSE E[Longest(From(t, k))]) \in Seq(Symbols)
    <3>1. <<t[k]>> \in Seq(Symbols)
      BY <1>2
    <3>2. ~none(k) => E[Longest(From(t, k))] \in Seq(Symbols)
      BY <1>4 DEF Strings
    <3> QED
      BY <3>1, <3>2
  <2>2. \A k \in 1..n : (IF none(k) THEN 1 ELSE 1 + Len(Longest(From(t, k)))) \in Nat
    BY <1>4
  <2> QED
    BY <2>1, <2>2
<1> HIDE DEF here, longest, none
<1>8. ASSUME NEW f
      PROVE  Def(f) <=> IsBackward(n, emit, skip, f)
  <2>1. ASSUME NEW k \in 1..(n + 1)
        PROVE  (IF k > n THEN <<>>
                ELSE IF here(k) = {} THEN <<t[k]>> \o f[k + 1]
                ELSE E[longest(k)] \o f[k + 1 + Len(longest(k))])
               = IF k > n THEN <<>> ELSE emit[k] \o f[k + skip[k]]
    <3>1. CASE k > n
      BY <3>1
    <3>2. CASE ~(k > n)
      <4>1. k \in 1..n
        BY <1>2, <3>2
      <4>2. (here(k) = {} <=> none(k)) /\ longest(k) = Longest(From(t, k))
        BY <1>5, <4>1 DEF none
      <4>3. CASE none(k)
        <5>1. emit[k] = <<t[k]>> /\ skip[k] = 1
          BY <4>1, <4>3
        <5> HIDE DEF emit, skip
        <5> QED
          BY <3>2, <4>2, <4>3, <5>1
      <4>4. CASE ~none(k)
        <5>1. emit[k] = E[longest(k)] /\ skip[k] = 1 + Len(longest(k))
          BY <4>1, <4>2, <4>4
        <5>2. k + skip[k] = k + 1 + Len(longest(k))
          BY <1>4, <4>1, <4>2, <4>4, <5>1
        <5> HIDE DEF emit, skip
        <5> QED
          BY <3>2, <4>2, <4>4, <5>1, <5>2
      <4> QED
        BY <4>3, <4>4
    <3> QED
      BY <3>1, <3>2
  <2> HIDE DEF emit, skip
  <2> QED
    BY <2>1, Zenon DEF IsBackward
<1>9. \E f \in [1..(n + 1) -> Seq(Symbols)] : IsBackward(n, emit, skip, f)
  <2> HIDE DEF emit, skip
  <2> QED
    BY <1>2, <1>6, <1>7, BackwardExists
<1> HIDE DEF emit, skip
<1>10. PICK f : f \in [1..(n + 1) -> Seq(Symbols)] /\ IsBackward(n, emit, skip, f)
  BY <1>9
<1>11. Def(rest)
  <2>1. Def(f)
    BY <1>8, <1>10
  <2> HIDE DEF Def
  <2> QED
    BY <2>1, Zenon
<1>12. IsBackward(n, emit, skip, rest)
  <2> HIDE DEF Def, rest
  <2> QED
    BY <1>8, <1>11
<1>13. f[1] = rest[1]
  <2> HIDE DEF Def, rest, n
  <2>1. \A k \in 1..n : skip[k] \in Nat /\ skip[k] >= 1 /\ k + skip[k] <= n + 1
    BY <1>6
  <2> QED
    BY <1>2, <1>10, <1>12, <2>1, BackwardUnique, SMTT(60)
<1> QED
  BY <1>1, <1>2, <1>6, <1>10, <1>13 DEF emit, skip, none, Strings

\* Scan puts the value of the longest name in and goes on behind it.
LEMMA Scanned ==
  ASSUME NEW t \in Strings, NEW E \in [Macros -> Strings]
  PROVE  /\ Scan(t, E) \in Strings
         /\ t = <<>> => Scan(t, E) = <<>>
         /\ t # <<>> /\ NamesAt(t) = {} => Scan(t, E) = <<t[1]>> \o Scan(From(t, 2), E)
         /\ t # <<>> /\ NamesAt(t) # {} =>
              Scan(t, E) = E[Longest(t)] \o Scan(From(t, 2 + Len(Longest(t))), E)
<1> DEFINE R(u) == Scan(u, E)
           none(u, k) == NamesAt(From(u, k)) = {}
           emit(u) == [k \in 1..Len(u) |-> IF none(u, k) THEN <<u[k]>> ELSE E[Longest(From(u, k))]]
           skip(u) == [k \in 1..Len(u) |-> IF none(u, k) THEN 1 ELSE 1 + Len(Longest(From(u, k)))]
           Steady(u) == \A k \in 1..Len(u) :
                          skip(u)[k] \in Nat /\ skip(u)[k] >= 1 /\ k + skip(u)[k] <= Len(u) + 1
           n == Len(t)
<1>1. ASSUME NEW u \in Strings
      PROVE  /\ Len(u) \in Nat /\ Steady(u)
             /\ \E f : /\ f \in [1..(Len(u) + 1) -> Strings]
                       /\ IsBackward(Len(u), emit(u), skip(u), f) /\ f[1] = R(u)
  BY ScanIs
<1>2. PICK f : /\ f \in [1..(n + 1) -> Strings]
               /\ IsBackward(n, emit(t), skip(t), f) /\ f[1] = R(t)
  <2> HIDE DEF emit, skip, R
  <2> QED
    BY <1>1
<1>3. n \in Nat /\ Steady(t) /\ (n = 0 <=> t = <<>>)
  BY <1>1, EmptySeq DEF Strings
<1>4. ASSUME NEW j \in 0..n
      PROVE  R(From(t, j + 1)) = f[j + 1]
  <2> DEFINE u == From(t, j + 1)
  <2>1. /\ u \in Strings /\ Len(u) = n - j
        /\ \A k \in 1..(n - j) : u[k] = t[k + j] /\ From(u, k) = From(t, k + j)
    BY FromAt
  <2> HIDE DEF u
  <2>2. PICK g : IsBackward(Len(u), emit(u), skip(u), g) /\ g[1] = R(u)
    <3> HIDE DEF emit, skip, R
    <3> QED
      BY <1>1, <2>1
  <2>3. ASSUME NEW k \in 1..Len(u)
        PROVE  emit(u)[k] = emit(t)[k + j] /\ skip(u)[k] = skip(t)[k + j]
    <3>1. k \in 1..(n - j) /\ k + j \in 1..n
      BY <1>3, <2>1
    <3> QED
      BY <2>1, <3>1
  <2> HIDE DEF emit, skip, R
  <2>4. \A k \in 1..(Len(u) + 1) : g[k] = f[k + j]
    <3>1. j \in Nat /\ Len(u) \in Nat
      BY <1>3, <2>1
    <3>2. \A k \in 1..n : /\ skip(t)[k] \in Nat /\ skip(t)[k] >= 1
                          /\ k + skip(t)[k] <= n + 1
      BY <1>3
    <3> DEFINE et == emit(t)
               st == skip(t)
               eu == emit(u)
               su == skip(u)
               l == Len(u)
    <3>3. /\ n \in Nat /\ j \in Nat /\ l \in Nat /\ l = n - j
          /\ \A k \in 1..n : st[k] \in Nat /\ st[k] >= 1 /\ k + st[k] <= n + 1
          /\ IsBackward(n, et, st, f) /\ IsBackward(l, eu, su, g)
          /\ \A k \in 1..l : eu[k] = et[k + j] /\ su[k] = st[k + j]
      BY <1>2, <1>3, <2>1, <2>2, <2>3, <3>1, <3>2
    <3> HIDE DEF n, et, st, eu, su, l
    <3>4. \A k \in 1..(l + 1) : g[k] = f[k + j]
      BY <3>3, BackwardAgree, SMTT(60)
    <3> QED
      BY <3>4 DEF l
  <2>5. 1 \in 1..(Len(u) + 1) /\ 1 + j = j + 1
    BY <1>3, <2>1
  <2> QED
    BY <2>2, <2>4, <2>5 DEF u
<1>5. R(t) \in Strings
  <2>1. 1 \in 1..(n + 1)
    BY <1>3
  <2> QED
    BY <1>2, <2>1
<1>6. f[1] = IF 1 > n THEN <<>> ELSE emit(t)[1] \o f[1 + skip(t)[1]]
  <2>1. \A k \in 1..(n + 1) : f[k] = IF k > n THEN <<>> ELSE emit(t)[k] \o f[k + skip(t)[k]]
    <3> HIDE DEF emit, skip
    <3> QED
      BY <1>2, Zenon DEF IsBackward
  <2>2. 1 \in 1..(n + 1)
    BY <1>3
  <2> HIDE DEF emit, skip
  <2> QED
    BY <2>1, <2>2
<1>7. CASE t = <<>>
  <2>1. 1 > n
    BY <1>3, <1>7
  <2> QED
    BY <1>2, <1>5, <1>6, <1>7, <2>1
<1>8. CASE t # <<>>
  <2>1. 1 \in 1..n /\ ~(1 > n)
    BY <1>3, <1>8
  <2>2. From(t, 1) = t
    BY FromHere DEF Strings
  <2>3. CASE NamesAt(t) # {}
    <3> DEFINE l == Longest(t)
    <3>1. emit(t)[1] = E[l] /\ skip(t)[1] = 1 + Len(l)
      BY <2>1, <2>2, <2>3
    <3>2. Len(l) \in Nat /\ Len(l) + 1 \in 1..n
      BY <2>3, LongestIs
    <3>3. 1 + Len(l) \in 0..n /\ 1 + (1 + Len(l)) = 2 + Len(l) /\ (1 + Len(l)) + 1 = 2 + Len(l)
      BY <1>3, <3>2
    <3> HIDE DEF l
    <3>4. R(From(t, 2 + Len(l))) = f[2 + Len(l)]
      BY <1>4, <3>3
    <3> HIDE DEF emit, skip, R
    <3>5. R(t) = E[l] \o R(From(t, 2 + Len(l)))
      BY <1>2, <1>6, <2>1, <3>1, <3>3, <3>4
    <3> QED
      BY <1>5, <1>8, <2>3, <3>5 DEF R, l
  <2>4. CASE NamesAt(t) = {}
    <3>1. emit(t)[1] = <<t[1]>> /\ skip(t)[1] = 1
      BY <2>1, <2>2, <2>4
    <3>2. 1 \in 0..n /\ 1 + 1 = 2
      BY <1>3, <2>1
    <3>3. R(From(t, 2)) = f[2]
      BY <1>4, <3>2
    <3> HIDE DEF emit, skip, R
    <3>5. R(t) = <<t[1]>> \o R(From(t, 2))
      BY <1>2, <1>6, <2>1, <3>1, <3>2, <3>3
    <3> QED
      BY <1>5, <1>8, <2>4, <3>5 DEF R
  <2> QED
    BY <2>3, <2>4
<1> QED
  BY <1>7, <1>8

\* The macros a text refers to, and whether every occurrence of one is a reference to it.
Refs(t) == {n \in Macros : \E k \in 1..Len(t) : Refers(t, k, n)}
Standing(t, m) == \A k \in Occurrences(t, Reference(m)) : Refers(t, k, m)

LEMMA TextTyped ==
  ASSUME NEW t \in Strings
  PROVE  /\ Len(t) \in Nat /\ DOMAIN t = 1..Len(t) /\ (t = <<>> <=> Len(t) = 0)
         /\ \A i \in 1..Len(t) : t[i] \in Symbols
BY LenProperties, ElementOfSeq, EmptySeq DEF Strings

LEMMA NameTyped ==
  ASSUME NEW m \in Macros
  PROVE  /\ m \in Strings /\ Len(m) \in Nat /\ \A i \in 1..Len(m) : m[i] \in NameSymbols
<1>1. m \in Seq(ToSet(m)) /\ ToSet(m) \subseteq NameSymbols
  BY ResolveAssumption DEF NameSymbols
<1>2. Len(m) \in Nat /\ \A i \in 1..Len(m) : m[i] \in ToSet(m)
  BY <1>1, LenProperties, ElementOfSeq
<1> QED
  BY <1>1, <1>2, SymbolsTyped

LEMMA JoinIs ==
  ASSUME NEW a \in Strings, NEW b \in Strings
  PROVE  /\ a \o b \in Strings /\ Len(a \o b) = Len(a) + Len(b)
         /\ \A i \in 1..Len(a) : (a \o b)[i] = a[i]
         /\ \A i \in 1..Len(b) : (a \o b)[Len(a) + i] = b[i]
<1> DEFINE c == a \o b
<1>1. Len(a) \in Nat /\ Len(b) \in Nat
  BY TextTyped
<1>2. /\ c \in Seq(Symbols) /\ Len(c) = Len(a) + Len(b)
      /\ \A i \in 1..Len(a) + Len(b) : c[i] = IF i <= Len(a) THEN a[i] ELSE b[i - Len(a)]
  BY ConcatProperties DEF Strings
<1> HIDE DEF c
<1>3. ASSUME NEW i \in 1..Len(a) PROVE c[i] = a[i]
  BY <1>1, <1>2
<1>4. ASSUME NEW i \in 1..Len(b) PROVE c[Len(a) + i] = b[i]
  <2>1. Len(a) + i \in 1..Len(a) + Len(b) /\ ~(Len(a) + i <= Len(a)) /\ Len(a) + i - Len(a) = i
    BY <1>1
  <2> QED
    BY <1>2, <2>1
<1> QED
  BY <1>2, <1>3, <1>4 DEF c, Strings

\* What stands behind a, in a \o b.
LEMMA FromJoin ==
  ASSUME NEW a \in Strings, NEW b \in Strings, NEW j \in 0..Len(a)
  PROVE  From(a \o b, j + 1) = From(a, j + 1) \o b
<1> DEFINE c == a \o b
           u == From(c, j + 1)
           w == From(a, j + 1)
           d == w \o b
<1>1. Len(a) \in Nat /\ Len(b) \in Nat
  BY TextTyped
<1>2. /\ c \in Strings /\ Len(c) = Len(a) + Len(b)
      /\ \A i \in 1..Len(a) : c[i] = a[i]
      /\ \A i \in 1..Len(b) : c[Len(a) + i] = b[i]
  BY JoinIs
<1> HIDE DEF c
<1>3. /\ u \in Strings /\ Len(u) = Len(c) - j
      /\ \A k \in 1..(Len(c) - j) : u[k] = c[k + j]
  <2>1. j \in 0..Len(c)
    BY <1>1, <1>2
  <2> QED
    BY <1>2, <2>1, FromAt
<1>4. /\ w \in Strings /\ Len(w) = Len(a) - j
      /\ \A k \in 1..(Len(a) - j) : w[k] = a[k + j]
  BY FromAt
<1> HIDE DEF u, w
<1>5. /\ d \in Strings /\ Len(d) = Len(w) + Len(b)
      /\ \A i \in 1..Len(w) : d[i] = w[i]
      /\ \A i \in 1..Len(b) : d[Len(w) + i] = b[i]
  BY <1>4, JoinIs
<1> HIDE DEF d
<1>6. Len(u) = Len(d)
  BY <1>1, <1>2, <1>3, <1>4, <1>5
<1>7. ASSUME NEW i \in 1..Len(u) PROVE u[i] = d[i]
  <2>1. u[i] = c[i + j]
    BY <1>3
  <2>2. CASE i <= Len(w)
    <3>1. i \in 1..Len(w) /\ i \in 1..(Len(a) - j) /\ i + j \in 1..Len(a)
      BY <1>1, <1>4, <2>2
    <3> QED
      BY <1>2, <1>4, <1>5, <2>1, <3>1
  <2>3. CASE ~(i <= Len(w))
    <3>1. i - Len(w) \in 1..Len(b) /\ Len(w) + (i - Len(w)) = i /\ Len(a) + (i - Len(w)) = i + j
      BY <1>1, <1>2, <1>3, <1>4, <2>3
    <3> QED
      BY <1>2, <1>5, <2>1, <3>1
  <2> QED
    BY <2>2, <2>3
<1>8. u = d
  BY <1>3, <1>5, <1>6, <1>7, SeqEqual DEF Strings
<1> QED
  BY <1>8 DEF u, d, w, c

LEMMA RefersAhead ==
  ASSUME NEW t \in Strings, NEW m \in Macros
  PROVE  IsPrefix(Reference(m), t) <=>
           /\ 1 + Len(m) <= Len(t) /\ t[1] = "$"
           /\ \A i \in 1..Len(m) : t[1 + i] = m[i]
<1> DEFINE r == Reference(m)
<1>1. /\ r \in Strings /\ Len(m) \in Nat /\ Len(r) = 1 + Len(m) /\ r[1] = "$"
      /\ \A i \in 1..Len(m) : r[1 + i] = m[i]
  BY SymbolsTyped
<1> HIDE DEF r
<1>2. IsPrefix(r, t) <=> Len(r) <= Len(t) /\ \A i \in 1..Len(r) : t[i] = r[i]
  BY <1>1, PrefixIs
<1>3. (\A i \in 1..Len(r) : t[i] = r[i]) <=> t[1] = "$" /\ \A i \in 1..Len(m) : t[1 + i] = m[i]
  <2>1. ASSUME \A i \in 1..Len(r) : t[i] = r[i]
        PROVE  t[1] = "$" /\ \A i \in 1..Len(m) : t[1 + i] = m[i]
    <3>1. 1 \in 1..Len(r) /\ \A i \in 1..Len(m) : 1 + i \in 1..Len(r)
      BY <1>1
    <3> QED
      BY <1>1, <2>1, <3>1
  <2>2. ASSUME t[1] = "$", \A i \in 1..Len(m) : t[1 + i] = m[i], NEW i \in 1..Len(r)
        PROVE  t[i] = r[i]
    <3>1. CASE i = 1
      BY <1>1, <2>2, <3>1
    <3>2. CASE i # 1
      <4>1. i - 1 \in 1..Len(m) /\ 1 + (i - 1) = i
        BY <1>1, <3>2
      <4> QED
        BY <1>1, <2>2, <4>1
    <3> QED
      BY <3>1, <3>2
  <2> QED
    BY <2>1, <2>2
<1> QED
  BY <1>1, <1>2, <1>3 DEF r

(***************************************************************************)
(* Induction over a text, symbol by symbol and reference by reference.     *)
(***************************************************************************)
LEMMA TextInduction ==
  ASSUME NEW T, <<>> \in T,
         \A t \in Strings : t # <<>> /\ NamesAt(t) = {} /\ From(t, 2) \in T => t \in T,
         \A t \in Strings : t # <<>> /\ NamesAt(t) # {} /\ From(t, 2 + Len(Longest(t))) \in T
                              => t \in T
  PROVE  Strings \subseteq T
<1> SUFFICES ASSUME NEW s \in Strings, s \notin T PROVE FALSE
  OBVIOUS
<1> DEFINE L == {Len(t) : t \in Strings \ T}
<1>1. PICK l \in L : \A k \in L : l <= k
  <2>1. L \subseteq Nat /\ L # {}
    BY TextTyped
  <2> HIDE DEF L
  <2> QED
    BY <2>1, LeastNumber
<1>2. PICK t \in Strings : t \notin T /\ l = Len(t)
  BY <1>1
<1>3. \A u \in Strings : Len(u) < Len(t) => u \in T
  <2> SUFFICES ASSUME NEW u \in Strings, Len(u) < Len(t), u \notin T PROVE FALSE
    OBVIOUS
  <2>1. Len(t) <= Len(u)
    BY <1>1, <1>2
  <2> QED
    BY <2>1, TextTyped
<1>4. t # <<>> /\ Len(t) \in Nat /\ Len(t) # 0
  BY <1>2, TextTyped
<1>5. CASE NamesAt(t) = {}
  <2>1. 1 \in 0..Len(t) /\ 1 + 1 = 2
    BY <1>4
  <2>2. From(t, 2) \in Strings /\ Len(From(t, 2)) = Len(t) - 1
    BY <2>1, FromAt
  <2>3. From(t, 2) \in T
    BY <1>3, <1>4, <2>2
  <2> QED
    BY <1>2, <1>4, <1>5, <2>3
<1>6. CASE NamesAt(t) # {}
  <2> DEFINE n == Len(Longest(t))
  <2>1. n \in Nat /\ n + 1 \in 1..Len(t)
    BY <1>6, LongestIs
  <2> HIDE DEF n
  <2>2. n + 1 \in 0..Len(t) /\ (n + 1) + 1 = 2 + n
    BY <2>1
  <2>3. From(t, 2 + n) \in Strings /\ Len(From(t, 2 + n)) = Len(t) - (n + 1)
    BY <2>2, FromAt
  <2>4. From(t, 2 + n) \in T
    BY <1>3, <1>4, <2>1, <2>3
  <2> QED
    BY <1>2, <1>4, <1>6, <2>4 DEF n
<1> QED
  BY <1>5, <1>6

\* A position behind j, in t and in what t is from there on.
LEMMA Shifted ==
  ASSUME NEW t \in Strings, NEW j \in 0..Len(t), NEW k \in 1..(Len(t) - j), NEW m \in Macros
  PROVE  /\ k \in Occurrences(From(t, j + 1), Reference(m)) <=> k + j \in Occurrences(t, Reference(m))
         /\ Refers(From(t, j + 1), k, m) <=> Refers(t, k + j, m)
<1> DEFINE u == From(t, j + 1)
<1>1. /\ u \in Strings /\ Len(u) = Len(t) - j
      /\ \A i \in 1..(Len(t) - j) : u[i] = t[i + j] /\ From(u, i) = From(t, i + j)
  BY FromAt
<1>2. Len(t) \in Nat /\ DOMAIN t = 1..Len(t) /\ DOMAIN u = 1..Len(u) /\ Len(m) \in Nat
  BY <1>1, TextTyped, NameTyped
<1> HIDE DEF u
<1>3. k \in 1..Len(u) /\ k + j \in 1..Len(t)
  BY <1>1, <1>2
<1>4. k \in Occurrences(u, Reference(m)) <=> k + j \in Occurrences(t, Reference(m))
  BY <1>1, <1>3, OccursIs
<1>5. GoesOn(u, k + 1 + Len(m)) <=> GoesOn(t, k + j + 1 + Len(m))
  <2> DEFINE p == k + 1 + Len(m)
             q == k + j + 1 + Len(m)
  <2>1. q = p + j /\ p \in Nat /\ p >= 1 /\ (p \in 1..Len(u) <=> q \in 1..Len(t))
    BY <1>1, <1>2
  <2> HIDE DEF p, q
  <2>2. p \in 1..Len(u) => u[p] = t[q]
    BY <1>1, <2>1
  <2>3. GoesOn(u, p) <=> GoesOn(t, q)
    BY <1>2, <2>1, <2>2 DEF GoesOn
  <2> QED
    BY <2>3 DEF p, q
<1> QED
  BY <1>4, <1>5 DEF Refers, u

\* A text that goes on from a symbol x.
LEMMA NextSymbol ==
  ASSUME NEW x \in Symbols, NEW b \in Strings
  PROVE  /\ <<x>> \o b \in Strings /\ <<x>> \o b # <<>> /\ (<<x>> \o b)[1] = x
         /\ From(<<x>> \o b, 2) = b
         /\ \A s \in Strings : IsPrefix(s, <<x>> \o b) <=>
              s = <<>> \/ (s # <<>> /\ s[1] = x /\ IsPrefix(From(s, 2), b))
         /\ NamesAt(<<x>> \o b) # {} <=> x = "$" /\ \E n \in Macros : IsPrefix(n, b)
<1> DEFINE a == <<x>>
           t == a \o b
<1>1. a \in Strings /\ Len(a) = 1 /\ a[1] = x
  BY DEF Strings
<1> HIDE DEF a
<1>2. /\ t \in Strings /\ Len(t) = 1 + Len(b) /\ t[1] = x
      /\ \A i \in 1..Len(b) : t[1 + i] = b[i]
  <2>1. /\ t \in Strings /\ Len(t) = Len(a) + Len(b)
        /\ \A i \in 1..Len(a) : t[i] = a[i]
        /\ \A i \in 1..Len(b) : t[Len(a) + i] = b[i]
    BY <1>1, JoinIs
  <2> HIDE DEF t
  <2>2. 1 \in 1..Len(a)
    BY <1>1
  <2> QED
    BY <1>1, <2>1, <2>2
<1>3. Len(b) \in Nat
  BY TextTyped
<1>4. From(t, 2) = b
  <2>1. 1 \in 0..Len(a) /\ 1 + 1 = 2
    BY <1>1
  <2>2. From(t, 2) = From(a, 2) \o b
    <3>1. \A j \in 0..Len(a) : From(t, j + 1) = From(a, j + 1) \o b
      BY <1>1, FromJoin
    <3> QED
      BY <2>1, <3>1
  <2>3. From(a, 2) = <<>>
    <3>1. From(a, Len(a) + 1) = <<>>
      BY <1>1, FromHere DEF Strings
    <3> QED
      BY <1>1, <3>1
  <2>4. <<>> \o b = b
    BY ConcatEmptySeq DEF Strings
  <2> QED
    BY <2>2, <2>3, <2>4
<1> HIDE DEF t
<1>5. ASSUME NEW s \in Strings
      PROVE  IsPrefix(s, t) <=> s = <<>> \/ (s # <<>> /\ s[1] = x /\ IsPrefix(From(s, 2), b))
  <2>1. Len(s) \in Nat /\ (s = <<>> <=> Len(s) = 0)
    BY TextTyped
  <2>2. IsPrefix(s, t) <=> Len(s) <= 1 + Len(b) /\ \A i \in 1..Len(s) : t[i] = s[i]
    BY <1>2, PrefixIs
  <2>3. CASE s = <<>>
    BY <1>3, <2>1, <2>2, <2>3
  <2>4. CASE s # <<>>
    <3> DEFINE w == From(s, 2)
    <3>1. 1 \in 0..Len(s) /\ 1 + 1 = 2
      BY <2>1, <2>4
    <3>2. /\ w \in Strings /\ Len(w) = Len(s) - 1
          /\ \A k \in 1..(Len(s) - 1) : w[k] = s[k + 1]
      BY <3>1, FromAt
    <3> HIDE DEF w
    <3>3. IsPrefix(w, b) <=> Len(s) - 1 <= Len(b) /\ \A i \in 1..(Len(s) - 1) : b[i] = w[i]
      BY <3>2, PrefixIs
    <3>4. (\A i \in 1..Len(s) : t[i] = s[i] )
          => s[1] = x /\ (Len(s) - 1 <= Len(b) => \A i \in 1..(Len(s) - 1) : b[i] = w[i])
      <4> SUFFICES ASSUME \A i \in 1..Len(s) : t[i] = s[i]
                   PROVE  s[1] = x /\ (Len(s) - 1 <= Len(b) => \A i \in 1..(Len(s) - 1) : b[i] = w[i])
        OBVIOUS
      <4>1. s[1] = x
        BY <1>2, <2>1, <2>4
      <4>2. ASSUME Len(s) - 1 <= Len(b), NEW i \in 1..(Len(s) - 1) PROVE b[i] = w[i]
        <5>1. i \in 1..Len(b) /\ 1 + i \in 1..Len(s) /\ i + 1 = 1 + i
          BY <1>3, <2>1, <4>2
        <5> QED
          BY <1>2, <3>2, <5>1
      <4> QED
        BY <4>1, <4>2
    <3>5. ASSUME s[1] = x, Len(s) - 1 <= Len(b), \A i \in 1..(Len(s) - 1) : b[i] = w[i],
                 NEW i \in 1..Len(s)
          PROVE  t[i] = s[i]
      <4>1. CASE i = 1
        BY <1>2, <3>5, <4>1
      <4>2. CASE i # 1
        <5>1. i - 1 \in 1..(Len(s) - 1) /\ i - 1 \in 1..Len(b) /\ 1 + (i - 1) = i /\ (i - 1) + 1 = i
          BY <1>3, <2>1, <3>5, <4>2
        <5> QED
          BY <1>2, <3>2, <3>5, <5>1
      <4> QED
        BY <4>1, <4>2
    <3>6. Len(s) <= 1 + Len(b) <=> Len(s) - 1 <= Len(b)
      BY <1>3, <2>1
    <3>7. IsPrefix(s, t) <=> s[1] = x /\ IsPrefix(w, b)
      BY <2>2, <3>3, <3>4, <3>5, <3>6
    <3> QED
      BY <2>4, <3>7 DEF w
  <2> QED
    BY <2>3, <2>4
<1>6. NamesAt(t) # {} <=> x = "$" /\ \E n \in Macros : IsPrefix(n, b)
  <2>1. ASSUME NEW n \in Macros
        PROVE  IsPrefix(Reference(n), t) <=> x = "$" /\ IsPrefix(n, b)
    <3>1. n \in Strings /\ Len(n) \in Nat
      BY NameTyped
    <3>2. IsPrefix(Reference(n), t) <=> /\ 1 + Len(n) <= Len(t) /\ t[1] = "$"
                                        /\ \A i \in 1..Len(n) : t[1 + i] = n[i]
      BY <1>2, RefersAhead
    <3>3. IsPrefix(n, b) <=> Len(n) <= Len(b) /\ \A i \in 1..Len(n) : b[i] = n[i]
      BY <3>1, PrefixIs
    <3>4. Len(n) <= Len(b) => \A i \in 1..Len(n) : t[1 + i] = b[i]
      <4> SUFFICES ASSUME Len(n) <= Len(b), NEW i \in 1..Len(n) PROVE t[1 + i] = b[i]
        OBVIOUS
      <4>1. i \in 1..Len(b)
        BY <1>3, <3>1
      <4> QED
        BY <1>2, <4>1
    <3>5. 1 + Len(n) <= Len(t) <=> Len(n) <= Len(b)
      BY <1>2, <1>3, <3>1
    <3> QED
      BY <1>2, <3>2, <3>3, <3>4, <3>5
  <2> QED
    BY <2>1 DEF NamesAt
<1>7. t # <<>>
  BY <1>2, <1>3, TextTyped
<1> QED
  BY <1>2, <1>4, <1>5, <1>6, <1>7 DEF t, a

\* The reference meant at the start of a text is the longest one there.
LEMMA MeantIsLongest ==
  ASSUME NEW t \in Strings, NEW l \in Macros, IsPrefix(Reference(l), t), ~GoesOn(t, 2 + Len(l))
  PROVE  /\ NamesAt(t) # {} /\ Longest(t) = l
         /\ \A n \in NamesAt(t) : n # l => Len(n) < Len(l) /\ IsPrefix(n, l)
<1>1. ASSUME NEW n \in NamesAt(t), n # l
      PROVE  Len(n) < Len(l) /\ IsPrefix(n, l)
  <2>1. n \in Macros /\ IsPrefix(Reference(n), t)
    BY DEF NamesAt
  <2>2. /\ Len(n) \in Nat /\ Len(l) \in Nat /\ n \in Strings /\ l \in Strings
        /\ \A i \in 1..Len(n) : n[i] \in NameSymbols
    BY <2>1, NameTyped
  <2>3. /\ 1 + Len(n) <= Len(t) /\ \A i \in 1..Len(n) : t[1 + i] = n[i]
    BY <2>1, RefersAhead
  <2>4. /\ 1 + Len(l) <= Len(t) /\ \A i \in 1..Len(l) : t[1 + i] = l[i]
    BY RefersAhead
  <2>5. Len(n) <= Len(l)
    <3> SUFFICES ASSUME Len(l) < Len(n) PROVE FALSE
      BY <2>2
    <3>1. 1 + Len(l) \in 1..Len(n) /\ 1 + (1 + Len(l)) = 2 + Len(l)
      BY <2>2
    <3>2. t[2 + Len(l)] \in NameSymbols
      BY <2>2, <2>3, <3>1
    <3>3. 2 + Len(l) \in DOMAIN t
      BY <2>2, <2>3, <3>1, TextTyped
    <3> QED
      BY <3>2, <3>3 DEF GoesOn
  <2>6. ASSUME NEW i \in 1..Len(n) PROVE l[i] = n[i]
    <3>1. i \in 1..Len(l)
      BY <2>2, <2>5
    <3> QED
      BY <2>3, <2>4, <3>1
  <2>7. IsPrefix(n, l)
    BY <2>2, <2>5, <2>6, PrefixIs
  <2>8. Len(n) # Len(l)
    <3> SUFFICES ASSUME Len(n) = Len(l) PROVE FALSE
      OBVIOUS
    <3>1. n = l
      BY <2>2, <2>6, SeqEqual DEF Strings
    <3> QED
      BY <1>1, <3>1
  <2> QED
    BY <2>2, <2>5, <2>7, <2>8
<1>2. l \in NamesAt(t)
  BY DEF NamesAt
<1>3. Longest(t) \in NamesAt(t) /\ Len(l) <= Len(Longest(t)) /\ Len(Longest(t)) \in Nat
  BY <1>2, LongestIs
<1>4. Longest(t) = l
  <2> SUFFICES ASSUME Longest(t) # l PROVE FALSE
    OBVIOUS
  <2>1. Len(Longest(t)) < Len(l)
    BY <1>1, <1>3
  <2> QED
    BY <1>3, <2>1, NameTyped
<1> QED
  BY <1>1, <1>2, <1>4

\* A text that goes on behind a reference to l.
LEMMA NextReference ==
  ASSUME NEW l \in Macros, NEW b \in Strings, ~GoesOn(b, 1)
  PROVE  LET t == Reference(l) \o b
         IN  /\ t \in Strings /\ t # <<>> /\ t[1] = "$"
             /\ IsPrefix(Reference(l), t) /\ NamesAt(t) # {} /\ Longest(t) = l
             /\ From(t, 2 + Len(l)) = b /\ ~GoesOn(t, 2 + Len(l))
<1> DEFINE r == Reference(l)
           t == r \o b
<1>1. r \in Strings /\ Len(r) = 1 + Len(l) /\ r[1] = "$" /\ Len(l) \in Nat
      /\ \A i \in 1..Len(l) : r[1 + i] = l[i]
  BY SymbolsTyped
<1> HIDE DEF r
<1>2. /\ t \in Strings /\ Len(t) = Len(r) + Len(b)
      /\ \A i \in 1..Len(r) : t[i] = r[i]
      /\ \A i \in 1..Len(b) : t[Len(r) + i] = b[i]
  BY <1>1, JoinIs
<1>3. Len(b) \in Nat /\ DOMAIN b = 1..Len(b) /\ DOMAIN t = 1..Len(t)
  BY <1>2, TextTyped
<1>4. From(t, 2 + Len(l)) = b
  <2>1. Len(r) \in 0..Len(r) /\ Len(r) + 1 = 2 + Len(l)
    BY <1>1
  <2>2. From(t, Len(r) + 1) = From(r, Len(r) + 1) \o b
    BY <1>1, <2>1, FromJoin
  <2>3. From(r, Len(r) + 1) = <<>>
    BY <1>1, FromHere DEF Strings
  <2>4. <<>> \o b = b
    BY ConcatEmptySeq DEF Strings
  <2> QED
    BY <2>1, <2>2, <2>3, <2>4
<1> HIDE DEF t
<1>5. ~GoesOn(t, 2 + Len(l))
  <2> SUFFICES ASSUME 2 + Len(l) \in 1..Len(t), t[2 + Len(l)] \in NameSymbols PROVE FALSE
    BY <1>3 DEF GoesOn
  <2>1. 1 \in 1..Len(b) /\ Len(r) + 1 = 2 + Len(l)
    BY <1>1, <1>2, <1>3
  <2>2. b[1] \in NameSymbols
    BY <1>2, <2>1
  <2> QED
    BY <1>3, <2>1, <2>2 DEF GoesOn
<1>6. IsPrefix(r, t)
  <2>1. Len(r) <= Len(t)
    BY <1>1, <1>2, <1>3
  <2> QED
    BY <1>1, <1>2, <2>1, PrefixIs
<1>7. t # <<>> /\ t[1] = "$"
  <2>1. Len(t) # 0 /\ 1 \in 1..Len(r)
    BY <1>1, <1>2, <1>3
  <2> QED
    BY <1>1, <1>2, <2>1, TextTyped
<1>8. NamesAt(t) # {} /\ Longest(t) = l
  BY <1>2, <1>5, <1>6, MeantIsLongest DEF r
<1> QED
  BY <1>2, <1>4, <1>5, <1>6, <1>7, <1>8 DEF t, r

\* What comes behind a text makes no reference in it longer.
LEMMA Joined ==
  ASSUME NEW a \in Strings, NEW b \in Strings, a # <<>>, ~GoesOn(b, 1)
  PROVE  /\ a \o b \in Strings /\ a \o b # <<>> /\ (a \o b)[1] = a[1]
         /\ From(a \o b, 2) = From(a, 2) \o b
         /\ NamesAt(a \o b) = NamesAt(a) /\ Longest(a \o b) = Longest(a)
         /\ NamesAt(a) # {} =>
              From(a \o b, 2 + Len(Longest(a))) = From(a, 2 + Len(Longest(a))) \o b
<1> DEFINE t == a \o b
<1>1. /\ t \in Strings /\ Len(t) = Len(a) + Len(b)
      /\ \A i \in 1..Len(a) : t[i] = a[i]
      /\ \A i \in 1..Len(b) : t[Len(a) + i] = b[i]
  BY JoinIs
<1>2. Len(a) \in Nat /\ Len(a) # 0 /\ Len(b) \in Nat /\ DOMAIN b = 1..Len(b)
  BY TextTyped
<1>3. ASSUME NEW j \in 0..Len(a)
      PROVE  From(t, j + 1) = From(a, j + 1) \o b
  BY FromJoin
<1> HIDE DEF t
<1>4. ASSUME NEW n \in Macros
      PROVE  IsPrefix(Reference(n), t) <=> IsPrefix(Reference(n), a)
  <2>1. Len(n) \in Nat /\ \A i \in 1..Len(n) : n[i] \in NameSymbols
    BY NameTyped
  <2>2. IsPrefix(Reference(n), t) <=> /\ 1 + Len(n) <= Len(t) /\ t[1] = "$"
                                      /\ \A i \in 1..Len(n) : t[1 + i] = n[i]
    BY <1>1, RefersAhead
  <2>3. IsPrefix(Reference(n), a) <=> /\ 1 + Len(n) <= Len(a) /\ a[1] = "$"
                                      /\ \A i \in 1..Len(n) : a[1 + i] = n[i]
    BY RefersAhead
  <2>4. t[1] = a[1]
    BY <1>1, <1>2
  <2>5. CASE 1 + Len(n) <= Len(a)
    <3>1. \A i \in 1..Len(n) : t[1 + i] = a[1 + i]
      BY <1>1, <1>2, <2>1, <2>5
    <3>2. 1 + Len(n) <= Len(t)
      BY <1>1, <1>2, <2>1, <2>5
    <3> QED
      BY <2>2, <2>3, <2>4, <2>5, <3>1, <3>2
  <2>6. CASE ~(1 + Len(n) <= Len(a))
    <3> SUFFICES ASSUME 1 + Len(n) <= Len(t), \A i \in 1..Len(n) : t[1 + i] = n[i] PROVE FALSE
      BY <2>2, <2>3, <2>6
    <3>1. Len(a) \in 1..Len(n) /\ 1 \in 1..Len(b) /\ 1 + Len(a) = Len(a) + 1
      BY <1>1, <1>2, <2>1, <2>6
    <3>2. t[1 + Len(a)] = n[Len(a)] /\ t[Len(a) + 1] = b[1]
      BY <1>1, <3>1
    <3>3. b[1] \in NameSymbols
      BY <2>1, <3>1, <3>2
    <3> QED
      BY <1>2, <3>1, <3>3 DEF GoesOn
  <2> QED
    BY <2>5, <2>6
<1>5. NamesAt(t) = NamesAt(a)
  BY <1>4 DEF NamesAt
<1>6. Longest(t) = Longest(a)
  BY <1>5, Zenon DEF Longest
<1>7. t # <<>> /\ t[1] = a[1]
  <2>1. Len(t) # 0 /\ 1 \in 1..Len(a)
    BY <1>1, <1>2
  <2> QED
    BY <1>1, <2>1, TextTyped
<1>8. From(t, 2) = From(a, 2) \o b
  <2>1. 1 \in 0..Len(a) /\ 1 + 1 = 2
    BY <1>2
  <2> QED
    BY <1>3, <2>1
<1>9. NamesAt(a) # {} => From(t, 2 + Len(Longest(a))) = From(a, 2 + Len(Longest(a))) \o b
  <2> SUFFICES ASSUME NamesAt(a) # {}
               PROVE  From(t, 2 + Len(Longest(a))) = From(a, 2 + Len(Longest(a))) \o b
    OBVIOUS
  <2>1. Len(Longest(a)) \in Nat /\ Len(Longest(a)) + 1 \in 1..Len(a)
    BY LongestIs
  <2>2. Len(Longest(a)) + 1 \in 0..Len(a) /\ (Len(Longest(a)) + 1) + 1 = 2 + Len(Longest(a))
    BY <1>2, <2>1
  <2> QED
    BY <1>3, <2>2
<1> QED
  BY <1>1, <1>5, <1>6, <1>7, <1>8, <1>9 DEF t

\* What Separated says of one position.
Stands(t, k, apart) ==
  \A m \in Macros :
    k \in Occurrences(t, Reference(m)) =>
      \E n \in Macros : Refers(t, k, n) /\ (GoesOn(value[n], 1) => apart)

LEMMA OccursAhead ==
  ASSUME NEW t \in Strings, t # <<>>, NEW m \in Macros
  PROVE  /\ 1 \in Occurrences(t, Reference(m)) <=> m \in NamesAt(t)
         /\ \A k \in Occurrences(t, Reference(m)) : k \in 1..Len(t) /\ t[k] = "$"
<1>1. Len(t) \in Nat /\ 1 \in 1..Len(t)
  BY TextTyped
<1>2. From(t, 1) = t
  BY FromHere DEF Strings
<1>3. 1 \in Occurrences(t, Reference(m)) <=> m \in NamesAt(t)
  BY <1>1, <1>2, OccursIs DEF NamesAt
<1>4. ASSUME NEW k \in Occurrences(t, Reference(m)) PROVE k \in 1..Len(t) /\ t[k] = "$"
  <2>1. k \in 1..Len(t) /\ IsPrefix(Reference(m), From(t, k))
    BY <1>4, OccursIs
  <2>2. k \in 1..(Len(t) + 1) /\ 1 \in 1..(Len(t) + 1 - k) /\ k + 1 - 1 = k
    BY <1>1, <2>1
  <2>3. From(t, k) \in Strings /\ From(t, k)[1] = t[k]
    <3>1. From(t, k) \in Strings /\ \A i \in 1..(Len(t) + 1 - k) : From(t, k)[i] = t[k + i - 1]
      BY <2>2, FromIs
    <3>2. From(t, k)[1] = t[k + 1 - 1]
      BY <2>2, <3>1
    <3> QED
      BY <2>2, <3>1, <3>2
  <2>4. From(t, k)[1] = "$"
    BY <2>1, <2>3, RefersAhead
  <2> QED
    BY <2>1, <2>3, <2>4
<1> QED
  BY <1>3, <1>4

(***************************************************************************)
(* What Separated, Refs and Standing say of a text is what they say of its *)
(* first j positions and of the text behind them.                          *)
(***************************************************************************)
LEMMA Split ==
  ASSUME "$" \notin NameSymbols,
         NEW t \in Strings, NEW j \in 1..Len(t), NEW apart
  PROVE  LET u == From(t, j + 1)
         IN  /\ u \in Strings
             /\ Separated(t, apart) <=> /\ \A k \in 1..j : Stands(t, k, Free(t, k, apart))
                                        /\ Separated(u, Free(t, j + 1, apart))
             /\ Refs(t) = {n \in Macros : \E k \in 1..j : Refers(t, k, n)} \cup Refs(u)
             /\ \A m \in Macros : Standing(t, m) => Standing(u, m)
<1> DEFINE u == From(t, j + 1)
           ok(k) == Free(t, k, apart)
           far == Free(t, j + 1, apart)
           ok2(k) == Free(u, k, far)
<1>1. Len(t) \in Nat /\ j \in 0..Len(t)
  BY TextTyped
<1>2. /\ u \in Strings /\ Len(u) = Len(t) - j
      /\ \A k \in 1..(Len(t) - j) : u[k] = t[k + j]
  BY <1>1, FromAt
<1>3. ASSUME NEW k \in 1..(Len(t) - j), NEW m \in Macros
      PROVE  /\ k \in Occurrences(u, Reference(m)) <=> k + j \in Occurrences(t, Reference(m))
             /\ Refers(u, k, m) <=> Refers(t, k + j, m)
  BY <1>1, Shifted
<1> HIDE DEF u
<1>4. ASSUME NEW k \in 1..(Len(t) - j)
      PROVE  ok2(k) <=> ok(k + j)
  <2>1. \A i \in 1..k - 1 : i + j \in j + 1..k + j - 1 /\ u[i] = t[i + j]
    BY <1>1, <1>2
  <2>2. \A i \in j + 1..k + j - 1 : i - j \in 1..k - 1 /\ (i - j) + j = i /\ u[i - j] = t[i]
    BY <1>1, <1>2
  <2>3. /\ \A i \in 1..j : i \in 1..k + j - 1
        /\ \A i \in 1..k + j - 1 : i \in 1..j \/ i \in j + 1..k + j - 1
        /\ j + 1 - 1 = j
    BY <1>1
  <2>4. CASE \E i \in 1..k - 1 : u[i] \notin NameSymbols
    <3>1. PICK h \in 1..k - 1 : u[h] \notin NameSymbols
      BY <2>4
    <3>2. h + j \in j + 1..k + j - 1 /\ t[h + j] \notin NameSymbols /\ h + j \in 1..k + j - 1
      BY <1>1, <2>1, <3>1
    <3>3. ok2(k) <=> \A e \in 1..k - 1 : u[e] = "$" => \E i \in e + 1..k - 1 : u[i] \notin NameSymbols
      BY <2>4 DEF Free
    <3>4. ok(k + j) <=> \A e \in 1..k + j - 1 :
                          t[e] = "$" => \E i \in e + 1..k + j - 1 : t[i] \notin NameSymbols
      BY <3>2 DEF Free
    <3>5. ASSUME NEW e \in 1..j PROVE \E i \in e + 1..k + j - 1 : t[i] \notin NameSymbols
      <4>1. h + j \in e + 1..k + j - 1
        BY <1>1, <3>2
      <4> QED
        BY <3>2, <4>1
    <3>6. ASSUME NEW e \in 1..k - 1
          PROVE  (\E i \in e + 1..k - 1 : u[i] \notin NameSymbols)
                 <=> (\E i \in e + j + 1..k + j - 1 : t[i] \notin NameSymbols)
      <4>1. ASSUME NEW i \in e + 1..k - 1, u[i] \notin NameSymbols
            PROVE  \E f \in e + j + 1..k + j - 1 : t[f] \notin NameSymbols
        <5>1. i \in 1..k - 1 /\ i + j \in e + j + 1..k + j - 1
          BY <1>1
        <5> QED
          BY <2>1, <4>1, <5>1
      <4>2. ASSUME NEW i \in e + j + 1..k + j - 1, t[i] \notin NameSymbols
            PROVE  \E f \in e + 1..k - 1 : u[f] \notin NameSymbols
        <5>1. i \in j + 1..k + j - 1 /\ i - j \in e + 1..k - 1
          BY <1>1
        <5> QED
          BY <2>2, <4>2, <5>1
      <4> QED
        BY <4>1, <4>2
    <3>7. ASSUME ok2(k), NEW e \in 1..k + j - 1, t[e] = "$"
          PROVE  \E i \in e + 1..k + j - 1 : t[i] \notin NameSymbols
      <4>1. CASE e \in 1..j
        BY <3>5, <4>1
      <4>2. CASE e \in j + 1..k + j - 1
        <5>1. e - j \in 1..k - 1 /\ u[e - j] = "$" /\ (e - j) + j + 1 = e + 1
          BY <1>1, <2>2, <3>7, <4>2
        <5>2. \E i \in (e - j) + 1..k - 1 : u[i] \notin NameSymbols
          BY <3>3, <3>7, <5>1
        <5>3. \E i \in (e - j) + j + 1..k + j - 1 : t[i] \notin NameSymbols
          BY <3>6, <5>1, <5>2
        <5> QED
          BY <5>1, <5>3
      <4> QED
        BY <2>3, <4>1, <4>2
    <3>8. ASSUME ok(k + j), NEW e \in 1..k - 1, u[e] = "$"
          PROVE  \E i \in e + 1..k - 1 : u[i] \notin NameSymbols
      <4>1. e + j \in 1..k + j - 1 /\ t[e + j] = "$"
        BY <1>1, <2>1, <3>8
      <4>2. \E i \in e + j + 1..k + j - 1 : t[i] \notin NameSymbols
        BY <3>4, <3>8, <4>1
      <4> QED
        BY <3>6, <4>2
    <3> HIDE DEF ok, ok2
    <3> QED
      BY <3>3, <3>4, <3>7, <3>8
  <2>5. CASE \A i \in 1..k - 1 : u[i] \in NameSymbols
    <3>1. \A i \in j + 1..k + j - 1 : t[i] \in NameSymbols
      BY <2>2, <2>5
    <3>2. ok2(k) <=> far
      BY <2>5 DEF Free
    <3>3. (\E i \in 1..k + j - 1 : t[i] \notin NameSymbols) <=> \E i \in 1..j : t[i] \notin NameSymbols
      BY <2>3, <3>1
    <3>4. ASSUME NEW e \in 1..j
          PROVE  (\E i \in e + 1..k + j - 1 : t[i] \notin NameSymbols)
                 <=> \E i \in e + 1..j : t[i] \notin NameSymbols
      <4>1. \A i \in e + 1..j : i \in e + 1..k + j - 1
        BY <1>1
      <4>2. \A i \in e + 1..k + j - 1 : i \in e + 1..j \/ i \in j + 1..k + j - 1
        BY <1>1
      <4> QED
        BY <3>1, <4>1, <4>2
    <3>5. (\A e \in 1..k + j - 1 : t[e] = "$" => \E i \in e + 1..k + j - 1 : t[i] \notin NameSymbols)
          <=> \A e \in 1..j : t[e] = "$" => \E i \in e + 1..j : t[i] \notin NameSymbols
      BY <2>3, <3>1, <3>4
    <3>6. ok(k + j) <=> far
      BY <2>3, <3>3, <3>5 DEF Free
    <3> QED
      BY <3>2, <3>6
  <2> QED
    BY <2>4, <2>5
<1> HIDE DEF ok, ok2, far
<1>5. Separated(t, apart) <=> \A k \in 1..Len(t) : Stands(t, k, ok(k))
  BY Zenon DEF Separated, Stands, ok
<1>6. Separated(u, far) <=> \A k \in 1..Len(u) : Stands(u, k, ok2(k))
  BY Zenon DEF Separated, Stands, ok2
<1>7. ASSUME NEW k \in 1..(Len(t) - j)
      PROVE  Stands(u, k, ok2(k)) <=> Stands(t, k + j, ok(k + j))
  BY <1>3, <1>4 DEF Stands
<1>8. /\ \A k \in 1..(Len(t) - j) : k + j \in 1..Len(t)
      /\ \A k \in 1..Len(t) : k \in 1..j \/ (k - j \in 1..(Len(t) - j) /\ (k - j) + j = k)
      /\ \A k \in 1..j : k \in 1..Len(t)
  BY <1>1
<1>9. Separated(t, apart) <=> (\A k \in 1..j : Stands(t, k, ok(k))) /\ Separated(u, far)
  <2>1. ASSUME \A k \in 1..Len(t) : Stands(t, k, ok(k))
        PROVE  (\A k \in 1..j : Stands(t, k, ok(k))) /\ \A k \in 1..Len(u) : Stands(u, k, ok2(k))
    BY <1>2, <1>7, <1>8, <2>1
  <2>2. ASSUME \A k \in 1..j : Stands(t, k, ok(k)), \A k \in 1..Len(u) : Stands(u, k, ok2(k)),
               NEW k \in 1..Len(t)
        PROVE  Stands(t, k, ok(k))
    <3>1. CASE k \in 1..j
      BY <2>2, <3>1
    <3>2. CASE k \notin 1..j
      <4>1. k - j \in 1..(Len(t) - j) /\ (k - j) + j = k
        BY <1>8, <3>2
      <4>2. Stands(u, k - j, ok2(k - j))
        BY <1>2, <2>2, <4>1
      <4> QED
        BY <1>7, <4>1, <4>2
    <3> QED
      BY <3>1, <3>2
  <2> QED
    BY <1>5, <1>6, <2>1, <2>2
<1>10. Refs(t) = {n \in Macros : \E k \in 1..j : Refers(t, k, n)} \cup Refs(u)
  <2>1. ASSUME NEW n \in Macros
        PROVE  (\E k \in 1..Len(t) : Refers(t, k, n))
               <=> (\E k \in 1..j : Refers(t, k, n)) \/ (\E k \in 1..Len(u) : Refers(u, k, n))
    <3>1. ASSUME NEW k \in 1..Len(t), Refers(t, k, n)
          PROVE  (\E l \in 1..j : Refers(t, l, n)) \/ (\E l \in 1..Len(u) : Refers(u, l, n))
      <4>1. CASE k \in 1..j
        BY <3>1, <4>1
      <4>2. CASE k \notin 1..j
        <5>1. k - j \in 1..(Len(t) - j) /\ (k - j) + j = k
          BY <1>8, <4>2
        <5>2. Refers(u, k - j, n)
          BY <1>3, <3>1, <5>1
        <5> QED
          BY <1>2, <5>1, <5>2
      <4> QED
        BY <4>1, <4>2
    <3>2. ASSUME NEW k \in 1..Len(u), Refers(u, k, n)
          PROVE  \E l \in 1..Len(t) : Refers(t, l, n)
      <4>1. k \in 1..(Len(t) - j) /\ k + j \in 1..Len(t)
        BY <1>2, <1>8
      <4> QED
        BY <1>3, <3>2, <4>1
    <3> QED
      BY <1>8, <3>1, <3>2
  <2> QED
    BY <2>1 DEF Refs
<1>11. ASSUME NEW m \in Macros, Standing(t, m)
       PROVE  Standing(u, m)
  <2> SUFFICES ASSUME NEW k \in Occurrences(u, Reference(m)) PROVE Refers(u, k, m)
    BY DEF Standing
  <2>1. k \in 1..(Len(t) - j)
    BY <1>2, OccursIs
  <2>2. k + j \in Occurrences(t, Reference(m))
    BY <1>3, <2>1
  <2>3. Refers(t, k + j, m)
    BY <1>11, <2>2 DEF Standing
  <2> QED
    BY <1>3, <2>1, <2>3
<1> QED
  BY <1>2, <1>9, <1>10, <1>11 DEF u, ok, far

LEMMA NothingAhead ==
  ASSUME NEW apart
  PROVE  /\ <<>> \in Strings /\ Separated(<<>>, apart) /\ Refs(<<>>) = {}
         /\ \A m \in Macros : Standing(<<>>, m)
         /\ ~GoesOn(<<>>, 1) /\ NamesAt(<<>>) = {}
<1>1. <<>> \in Strings /\ Len(<<>>) = 0 /\ DOMAIN <<>> = 1..0
  BY TextTyped DEF Strings
<1>2. \A m \in Macros : Occurrences(<<>>, Reference(m)) = {}
  BY <1>1, OccursIs
<1>3. \A m \in Macros : ~IsPrefix(Reference(m), <<>>)
  <2> SUFFICES ASSUME NEW m \in Macros, IsPrefix(Reference(m), <<>>) PROVE FALSE
    OBVIOUS
  <2>1. 1 + Len(m) <= 0 /\ Len(m) \in Nat
    BY <1>1, RefersAhead, NameTyped
  <2> QED
    BY <2>1
<1> QED
  BY <1>1, <1>2, <1>3 DEF Separated, Refs, Standing, GoesOn, NamesAt

LEMMA SeparatedAlike ==
  ASSUME NEW t, NEW p, NEW q, p <=> q
  PROVE  Separated(t, p) <=> Separated(t, q)
BY DEF Separated, Free

\* What Free says behind one symbol.
FreeBehind(x, apart) == x # "$" /\ (apart \/ x \notin NameSymbols)

\* A text that begins with a symbol and with no reference.
LEMMA SymbolAhead ==
  ASSUME "$" \notin NameSymbols,
         NEW t \in Strings, t # <<>>, NamesAt(t) = {}, NEW apart
  PROVE  LET u == From(t, 2)
         IN  /\ t[1] \in Symbols /\ u \in Strings /\ t = <<t[1]>> \o u
             /\ Separated(t, apart) <=> Separated(u, FreeBehind(t[1], apart))
             /\ Refs(t) = Refs(u)
             /\ \A m \in Macros : Standing(t, m) => Standing(u, m)
<1> DEFINE u == From(t, 2)
           ok(k) == Free(t, k, apart)
<1>1. Len(t) \in Nat /\ 1 \in 1..Len(t) /\ t[1] \in Symbols /\ 1 + 1 = 2
  BY TextTyped
<1>2. t = <<t[1]>> \o u
  <2>1. From(t, 1) = t /\ \A k \in 1..Len(t) : <<t[k]>> \o From(t, k + 1) = From(t, k)
    BY FromHere DEF Strings
  <2> QED
    BY <1>1, <2>1
<1>3. /\ u \in Strings
      /\ Separated(t, apart) <=> /\ \A k \in 1..1 : Stands(t, k, ok(k))
                                 /\ Separated(u, ok(1 + 1))
      /\ Refs(t) = {n \in Macros : \E k \in 1..1 : Refers(t, k, n)} \cup Refs(u)
      /\ \A m \in Macros : Standing(t, m) => Standing(u, m)
  BY <1>1, Split
<1> HIDE DEF u, ok
<1>4. \A k \in 1..1 : k = 1
  OBVIOUS
<1>5. \A m \in Macros : 1 \notin Occurrences(t, Reference(m))
  BY OccursAhead
<1>6. \A k \in 1..1 : Stands(t, k, ok(k))
  BY <1>4, <1>5 DEF Stands
<1>7. {n \in Macros : \E k \in 1..1 : Refers(t, k, n)} = {}
  BY <1>4, <1>5 DEF Refers
<1>8. ok(1 + 1) <=> FreeBehind(t[1], apart)
  BY <1>4 DEF ok, Free, FreeBehind
<1>9. Separated(u, ok(1 + 1)) <=> Separated(u, FreeBehind(t[1], apart))
  BY <1>8, SeparatedAlike
<1> QED
  BY <1>1, <1>2, <1>3, <1>6, <1>7, <1>9 DEF u

\* The text behind a reference.
LEMMA BehindReference ==
  ASSUME "$" \notin NameSymbols, NEW apart,
         NEW t \in Strings, NEW l \in Macros, IsPrefix(Reference(l), t), ~GoesOn(t, 2 + Len(l))
  PROVE  LET u == From(t, 2 + Len(l))
         IN  /\ u \in Strings /\ ~GoesOn(u, 1)
             /\ Separated(t, apart) <=> (GoesOn(value[l], 1) => apart) /\ Separated(u, FALSE)
             /\ Refs(t) = {l} \cup Refs(u)
             /\ \A m \in Macros : Standing(t, m) => Standing(u, m) /\ (m \in NamesAt(t) => m = l)
<1> DEFINE j == 1 + Len(l)
           u == From(t, j + 1)
           ok(k) == Free(t, k, apart)
<1>1. /\ Len(l) \in Nat /\ Len(t) \in Nat /\ DOMAIN t = 1..Len(t)
      /\ \A i \in 1..Len(l) : l[i] \in NameSymbols
  BY TextTyped, NameTyped
<1>2. 1 + Len(l) <= Len(t) /\ t[1] = "$" /\ \A i \in 1..Len(l) : t[1 + i] = l[i]
  BY RefersAhead
<1>3. j \in 1..Len(t) /\ j \in 0..Len(t) /\ j + 1 = 2 + Len(l) /\ t # <<>> /\ j \in Nat /\ 1 \in 1..j
  BY <1>1, <1>2, TextTyped
<1>4. l \in NamesAt(t)
  BY DEF NamesAt
<1>5. \A n \in NamesAt(t) : n # l => Len(n) < Len(l)
  BY MeantIsLongest
<1>6. Refers(t, 1, l)
  <2>1. 1 \in Occurrences(t, Reference(l))
    BY <1>3, <1>4, OccursAhead
  <2>2. 1 + 1 + Len(l) = 2 + Len(l)
    BY <1>1
  <2> QED
    BY <2>1, <2>2 DEF Refers
<1>7. ASSUME NEW n \in Macros, Refers(t, 1, n) PROVE n = l
  <2> SUFFICES ASSUME n # l PROVE FALSE
    OBVIOUS
  <2>1. 1 \in Occurrences(t, Reference(n)) /\ ~GoesOn(t, 1 + 1 + Len(n))
    BY <1>7 DEF Refers
  <2>2. n \in NamesAt(t)
    BY <1>3, <2>1, OccursAhead
  <2>3. Len(n) < Len(l) /\ Len(n) \in Nat
    BY <1>5, <2>2, NameTyped
  <2>4. 1 + Len(n) \in 1..Len(l) /\ 1 + (1 + Len(n)) = 1 + 1 + Len(n) /\ 1 + 1 + Len(n) \in 1..Len(t)
    BY <1>1, <1>2, <2>3
  <2>5. t[1 + (1 + Len(n))] \in NameSymbols
    BY <1>1, <1>2, <2>4
  <2>6. GoesOn(t, 1 + 1 + Len(n))
    BY <1>1, <2>4, <2>5 DEF GoesOn
  <2> QED
    BY <2>1, <2>6
<1>8. ASSUME NEW k \in 1..j, k # 1 PROVE \A m \in Macros : k \notin Occurrences(t, Reference(m))
  <2>1. k - 1 \in 1..Len(l) /\ 1 + (k - 1) = k
    BY <1>1, <1>8
  <2>2. t[k] \in NameSymbols
    BY <1>1, <1>2, <2>1
  <2> QED
    BY <1>3, <2>2, OccursAhead
<1>9. ~Free(t, j + 1, apart)
  <2>1. \A i \in 1 + 1..j : i - 1 \in 1..Len(l) /\ 1 + (i - 1) = i
    BY <1>1
  <2>2. \A i \in 1 + 1..j : t[i] \in NameSymbols
    BY <1>1, <1>2, <2>1
  <2>3. j + 1 - 1 = j
    BY <1>3
  <2> QED
    BY <1>2, <1>3, <2>2, <2>3 DEF Free
<1> HIDE DEF j
<1>10. /\ u \in Strings
       /\ Separated(t, apart) <=> /\ \A k \in 1..j : Stands(t, k, ok(k))
                                  /\ Separated(u, Free(t, j + 1, apart))
       /\ Refs(t) = {n \in Macros : \E k \in 1..j : Refers(t, k, n)} \cup Refs(u)
       /\ \A m \in Macros : Standing(t, m) => Standing(u, m)
  BY <1>3, Split
<1>11. ~GoesOn(u, 1)
  <2>1. Len(u) = Len(t) - j /\ \A k \in 1..(Len(t) - j) : u[k] = t[k + j]
    BY <1>3, FromAt
  <2> HIDE DEF u
  <2> SUFFICES ASSUME 1 \in 1..Len(u), u[1] \in NameSymbols PROVE FALSE
    BY <1>10, TextTyped DEF GoesOn
  <2>2. 1 \in 1..(Len(t) - j) /\ 1 + j = 2 + Len(l) /\ 2 + Len(l) \in 1..Len(t)
    BY <1>1, <1>3, <2>1
  <2>3. t[2 + Len(l)] \in NameSymbols
    BY <2>1, <2>2
  <2> QED
    BY <1>1, <2>2, <2>3 DEF GoesOn
<1> HIDE DEF u
<1>12. (\A k \in 1..j : Stands(t, k, ok(k))) <=> (GoesOn(value[l], 1) => apart)
  <2> HIDE DEF ok
  <2>1. \A k \in 1..j : k # 1 => Stands(t, k, ok(k))
    BY <1>8 DEF Stands
  <2>2. ok(1) <=> apart
    <3>1. \A i \in 1..1 - 1 : FALSE
      OBVIOUS
    <3> QED
      BY <3>1 DEF ok, Free
  <2>3. Stands(t, 1, ok(1)) <=> (GoesOn(value[l], 1) => apart)
    <3>1. 1 \in Occurrences(t, Reference(l))
      BY <1>6 DEF Refers
    <3> QED
      BY <1>6, <1>7, <2>2, <3>1 DEF Stands
  <2> QED
    BY <1>3, <2>1, <2>3
<1>13. Separated(u, Free(t, j + 1, apart)) <=> Separated(u, FALSE)
  BY <1>9, SeparatedAlike
<1>14. {n \in Macros : \E k \in 1..j : Refers(t, k, n)} = {l}
  <2>1. \A n \in Macros : (\E k \in 1..j : Refers(t, k, n)) <=> n = l
    BY <1>3, <1>6, <1>7, <1>8 DEF Refers
  <2> QED
    BY <2>1
<1>15. ASSUME NEW m \in Macros, Standing(t, m), m \in NamesAt(t) PROVE m = l
  <2>1. 1 \in Occurrences(t, Reference(m))
    BY <1>3, <1>15, OccursAhead
  <2>2. Refers(t, 1, m)
    BY <1>15, <2>1 DEF Standing
  <2> QED
    BY <1>7, <2>2
<1> QED
  BY <1>3, <1>10, <1>11, <1>12, <1>13, <1>14, <1>15 DEF u

\* A text that begins with a reference.
LEMMA ReferenceAhead ==
  ASSUME "$" \notin NameSymbols, NEW apart,
         NEW t \in Strings, t # <<>>, NamesAt(t) # {}, Separated(t, apart)
  PROVE  LET l == Longest(t)
             u == From(t, 2 + Len(l))
         IN  /\ l \in Macros /\ IsPrefix(Reference(l), t) /\ t = Reference(l) \o u
             /\ u \in Strings /\ ~GoesOn(u, 1) /\ Separated(u, FALSE)
             /\ (GoesOn(value[l], 1) => apart)
             /\ Refs(t) = {l} \cup Refs(u)
             /\ \A m \in Macros : Standing(t, m) => Standing(u, m) /\ (m \in NamesAt(t) => m = l)
<1>1. PICK m \in NamesAt(t) : TRUE
  OBVIOUS
<1>2. m \in Macros /\ 1 \in Occurrences(t, Reference(m))
  BY OccursAhead DEF NamesAt
<1>3. 1 \in 1..Len(t)
  BY <1>2, OccursAhead
<1>4. PICK l \in Macros : Refers(t, 1, l)
  BY <1>2, <1>3 DEF Separated
<1>5. l \in NamesAt(t) /\ ~GoesOn(t, 2 + Len(l))
  <2>1. 1 \in Occurrences(t, Reference(l)) /\ ~GoesOn(t, 1 + 1 + Len(l))
    BY <1>4 DEF Refers
  <2>2. 1 + 1 + Len(l) = 2 + Len(l)
    BY NameTyped
  <2> QED
    BY <2>1, <2>2, OccursAhead
<1>6. IsPrefix(Reference(l), t)
  BY <1>5 DEF NamesAt
<1>7. Longest(t) = l
  BY <1>5, <1>6, MeantIsLongest
<1> DEFINE u == From(t, 2 + Len(l))
<1>8. /\ u \in Strings /\ ~GoesOn(u, 1)
      /\ Separated(t, apart) <=> (GoesOn(value[l], 1) => apart) /\ Separated(u, FALSE)
      /\ Refs(t) = {l} \cup Refs(u)
      /\ \A n \in Macros : Standing(t, n) => Standing(u, n) /\ (n \in NamesAt(t) => n = l)
  BY <1>5, <1>6, BehindReference
<1>9. t = Reference(l) \o u
  <2> DEFINE w == Reference(l) \o u
  <2>1. /\ Len(l) \in Nat /\ Len(t) \in Nat /\ Reference(l) \in Strings
        /\ Len(Reference(l)) = 1 + Len(l) /\ Reference(l)[1] = "$"
        /\ \A i \in 1..Len(l) : Reference(l)[1 + i] = l[i]
    BY TextTyped, SymbolsTyped
  <2>2. 1 + Len(l) <= Len(t) /\ t[1] = "$" /\ \A i \in 1..Len(l) : t[1 + i] = l[i]
    BY <1>6, RefersAhead
  <2>3. Len(u) = Len(t) - (1 + Len(l)) /\ \A k \in 1..(Len(t) - (1 + Len(l))) : u[k] = t[k + (1 + Len(l))]
    <3> DEFINE j == 1 + Len(l)
    <3>1. j \in 0..Len(t) /\ j + 1 = 2 + Len(l)
      BY <2>1, <2>2
    <3> HIDE DEF j
    <3>2. /\ Len(From(t, j + 1)) = Len(t) - j
          /\ \A k \in 1..(Len(t) - j) : From(t, j + 1)[k] = t[k + j]
      BY <3>1, FromAt
    <3>3. Len(u) = Len(t) - j /\ \A k \in 1..(Len(t) - j) : u[k] = t[k + j]
      BY <3>1, <3>2
    <3> QED
      BY <3>3 DEF j
  <2> HIDE DEF u
  <2>4. /\ w \in Strings /\ Len(w) = Len(Reference(l)) + Len(u)
        /\ \A i \in 1..Len(Reference(l)) : w[i] = Reference(l)[i]
        /\ \A i \in 1..Len(u) : w[Len(Reference(l)) + i] = u[i]
    BY <1>8, <2>1, JoinIs
  <2> HIDE DEF w
  <2>5. Len(w) = Len(t)
    BY <2>1, <2>2, <2>3, <2>4
  <2>6. ASSUME NEW i \in 1..Len(t) PROVE t[i] = w[i]
    <3>1. CASE i = 1
      <4>1. 1 \in 1..Len(Reference(l))
        BY <2>1
      <4> QED
        BY <2>1, <2>2, <2>4, <3>1, <4>1
    <3>2. CASE i \in 2..(1 + Len(l))
      <4>1. i - 1 \in 1..Len(l) /\ 1 + (i - 1) = i /\ i \in 1..Len(Reference(l))
        BY <2>1, <3>2
      <4>2. t[1 + (i - 1)] = l[i - 1]
        BY <2>2, <4>1
      <4>3. Reference(l)[1 + (i - 1)] = l[i - 1]
        BY <2>1, <4>1
      <4> QED
        BY <2>4, <4>1, <4>2, <4>3
    <3>3. CASE i > 1 + Len(l)
      <4>1. i - (1 + Len(l)) \in 1..Len(u) /\ i - (1 + Len(l)) \in 1..(Len(t) - (1 + Len(l)))
            /\ (1 + Len(l)) + (i - (1 + Len(l))) = i /\ (i - (1 + Len(l))) + (1 + Len(l)) = i
        BY <2>1, <2>3, <3>3
      <4>2. w[(1 + Len(l)) + (i - (1 + Len(l)))] = u[i - (1 + Len(l))]
        BY <2>1, <2>4, <4>1
      <4>3. u[i - (1 + Len(l))] = t[(i - (1 + Len(l))) + (1 + Len(l))]
        BY <2>3, <4>1
      <4> QED
        BY <4>1, <4>2, <4>3
    <3> QED
      BY <2>1, <3>1, <3>2, <3>3
  <2>7. t = w
    BY <2>4, <2>5, <2>6, SeqEqual DEF Strings
  <2> QED
    BY <2>7 DEF w
<1> QED
  BY <1>6, <1>7, <1>8, <1>9

LEMMA JoinAgain ==
  ASSUME NEW a \in Strings, NEW b \in Strings, NEW c \in Strings
  PROVE  a \o (b \o c) = (a \o b) \o c
BY ConcatAssociative DEF Strings

LEMMA EmptyJoined ==
  ASSUME NEW t \in Strings
  PROVE  <<>> \o t = t /\ t \o <<>> = t
BY ConcatEmptySeq DEF Strings

LEMMA OneTyped ==
  ASSUME NEW x \in Symbols
  PROVE  <<x>> \in Strings
BY DEF Strings

LEMMA ScanJoined ==
  ASSUME NEW E \in [Macros -> Strings], NEW a \in Strings, NEW b \in Strings, ~GoesOn(b, 1)
  PROVE  Scan(a \o b, E) = Scan(a, E) \o Scan(b, E)
<1> DEFINE S(u) == Scan(u, E)
           T == {t \in Strings : S(t \o b) = S(t) \o S(b)}
<1>0. /\ \A u \in Strings : S(u) \in Strings
      /\ S(<<>>) = <<>>
      /\ \A u \in Strings : u # <<>> /\ NamesAt(u) = {} => S(u) = <<u[1]>> \o S(From(u, 2))
      /\ \A u \in Strings : u # <<>> /\ NamesAt(u) # {} =>
                              S(u) = E[Longest(u)] \o S(From(u, 2 + Len(Longest(u))))
  BY Scanned, NothingAhead
<1> HIDE DEF S
<1>1. <<>> \in T
  BY <1>0, EmptyJoined, NothingAhead
<1>2. ASSUME NEW t \in Strings, t # <<>>, NamesAt(t) = {}, From(t, 2) \in T
      PROVE  t \in T
  <2> DEFINE u == From(t, 2)
  <2>1. u \in Strings /\ S(u \o b) = S(u) \o S(b)
    BY <1>2
  <2>2. S(t) = <<t[1]>> \o S(u)
    BY <1>0, <1>2
  <2>3. /\ t \o b \in Strings /\ t \o b # <<>> /\ (t \o b)[1] = t[1]
        /\ From(t \o b, 2) = u \o b /\ NamesAt(t \o b) = NamesAt(t)
    BY <1>2, Joined
  <2>4. S(t \o b) = <<t[1]>> \o S(u \o b)
    BY <1>0, <1>2, <2>3
  <2>5. t[1] \in Symbols /\ <<t[1]>> \in Strings
    <3>1. t[1] \in Symbols
      <4>1. 1 \in 1..Len(t)
        BY <1>2, TextTyped
      <4> QED
        BY <4>1, TextTyped
    <3> QED
      BY <3>1, OneTyped
  <2> HIDE DEF u
  <2>6. <<t[1]>> \o (S(u) \o S(b)) = (<<t[1]>> \o S(u)) \o S(b)
    BY <1>0, <2>1, <2>5, JoinAgain
  <2> QED
    BY <2>1, <2>2, <2>4, <2>6
<1>3. ASSUME NEW t \in Strings, t # <<>>, NamesAt(t) # {}, From(t, 2 + Len(Longest(t))) \in T
      PROVE  t \in T
  <2> DEFINE l == Longest(t)
             u == From(t, 2 + Len(l))
  <2>1. u \in Strings /\ S(u \o b) = S(u) \o S(b)
    BY <1>3
  <2>2. S(t) = E[l] \o S(u)
    BY <1>0, <1>3
  <2>3. /\ t \o b \in Strings /\ t \o b # <<>> /\ NamesAt(t \o b) = NamesAt(t)
        /\ Longest(t \o b) = l /\ From(t \o b, 2 + Len(l)) = u \o b
    BY <1>3, Joined
  <2>5. E[l] \in Strings
    BY <1>3, LongestIs
  <2> HIDE DEF u, l
  <2>4. S(t \o b) = E[l] \o S(u \o b)
    BY <1>0, <1>3, <2>3
  <2>6. E[l] \o (S(u) \o S(b)) = (E[l] \o S(u)) \o S(b)
    <3>1. S(u) \in Strings /\ S(b) \in Strings
      BY <1>0, <2>1
    <3> QED
      BY <2>5, <3>1, JoinAgain
  <2> QED
    BY <2>1, <2>2, <2>4, <2>6
<1>4. Strings \subseteq T
  <2> HIDE DEF T
  <2> QED
    BY <1>1, <1>2, <1>3, TextInduction, SMTT(60)
<1> QED
  BY <1>4 DEF S

\* Scan reads the values of the macros that the text refers to, and of no others.
LEMMA ScanReads ==
  ASSUME "$" \notin NameSymbols, NEW E \in [Macros -> Strings], NEW F \in [Macros -> Strings]
  PROVE  \A t \in Strings, p \in BOOLEAN :
           Separated(t, p) =>
             /\ (\A n \in Refs(t) : E[n] = F[n]) => Scan(t, E) = Scan(t, F)
             /\ Refs(t) = {} => Scan(t, E) = t
<1> DEFINE S(u) == Scan(u, E)
           Z(u) == Scan(u, F)
           P(t) == /\ (\A n \in Refs(t) : E[n] = F[n]) => S(t) = Z(t)
                   /\ Refs(t) = {} => S(t) = t
           T == {t \in Strings : \A p \in BOOLEAN : Separated(t, p) => P(t)}
<1>0. /\ S(<<>>) = <<>> /\ Z(<<>>) = <<>>
      /\ \A u \in Strings : u # <<>> /\ NamesAt(u) = {} =>
            S(u) = <<u[1]>> \o S(From(u, 2)) /\ Z(u) = <<u[1]>> \o Z(From(u, 2))
      /\ \A u \in Strings : u # <<>> /\ NamesAt(u) # {} =>
            /\ S(u) = E[Longest(u)] \o S(From(u, 2 + Len(Longest(u))))
            /\ Z(u) = F[Longest(u)] \o Z(From(u, 2 + Len(Longest(u))))
  BY Scanned, NothingAhead
<1> HIDE DEF S, Z
<1>1. <<>> \in T
  BY <1>0, NothingAhead
<1>2. ASSUME NEW t \in Strings, t # <<>>, NamesAt(t) = {}, From(t, 2) \in T
      PROVE  t \in T
  <2> SUFFICES ASSUME NEW p \in BOOLEAN, Separated(t, p) PROVE P(t)
    OBVIOUS
  <2> DEFINE u == From(t, 2)
  <2>1. /\ u \in Strings /\ t = <<t[1]>> \o u /\ Refs(t) = Refs(u)
        /\ Separated(u, FreeBehind(t[1], p))
    BY <1>2, SymbolAhead
  <2>2. P(u)
    <3>1. \A q \in BOOLEAN : Separated(u, q) => P(u)
      BY <1>2
    <3>2. FreeBehind(t[1], p) \in BOOLEAN
      BY DEF FreeBehind
    <3> HIDE DEF P, u
    <3> QED
      BY <2>1, <3>1, <3>2
  <2>3. S(t) = <<t[1]>> \o S(u) /\ Z(t) = <<t[1]>> \o Z(u)
    BY <1>0, <1>2
  <2> HIDE DEF u
  <2>4. (\A n \in Refs(t) : E[n] = F[n]) => S(t) = Z(t)
    BY <2>1, <2>2, <2>3
  <2>5. Refs(t) = {} => S(t) = t
    BY <2>1, <2>2, <2>3
  <2> QED
    BY <2>4, <2>5
<1>3. ASSUME NEW t \in Strings, t # <<>>, NamesAt(t) # {}, From(t, 2 + Len(Longest(t))) \in T
      PROVE  t \in T
  <2> SUFFICES ASSUME NEW p \in BOOLEAN, Separated(t, p) PROVE P(t)
    OBVIOUS
  <2> DEFINE l == Longest(t)
             u == From(t, 2 + Len(l))
  <2>1. /\ l \in Macros /\ u \in Strings /\ Refs(t) = {l} \cup Refs(u) /\ Separated(u, FALSE)
    BY <1>3, ReferenceAhead
  <2>2. P(u)
    <3>1. \A q \in BOOLEAN : Separated(u, q) => P(u)
      BY <1>3
    <3> HIDE DEF P, u
    <3> QED
      BY <2>1, <3>1
  <2>3. S(t) = E[l] \o S(u) /\ Z(t) = F[l] \o Z(u)
    BY <1>0, <1>3
  <2> HIDE DEF u, l
  <2>4. (\A n \in Refs(t) : E[n] = F[n]) => S(t) = Z(t)
    BY <2>1, <2>2, <2>3
  <2>5. Refs(t) # {}
    BY <2>1
  <2> QED
    BY <2>4, <2>5
<1>4. Strings \subseteq T
  <2> HIDE DEF T
  <2> QED
    BY <1>1, <1>2, <1>3, TextInduction
<1> QED
  BY <1>4 DEF S, Z

LEMMA SeparatedWeaker ==
  ASSUME NEW t, Separated(t, FALSE), NEW p
  PROVE  Separated(t, p)
BY DEF Separated, Free

LEMMA SeparatedJoined ==
  ASSUME "$" \notin NameSymbols, NEW b \in Strings, ~GoesOn(b, 1), Separated(b, FALSE)
  PROVE  \A a \in Strings, p \in BOOLEAN :
           Separated(a, p) => Separated(a \o b, p) /\ Refs(a \o b) = Refs(a) \cup Refs(b)
<1> DEFINE P(t, p) == Separated(t, p) => Separated(t \o b, p) /\ Refs(t \o b) = Refs(t) \cup Refs(b)
           T == {t \in Strings : \A p \in BOOLEAN : P(t, p)}
<1>1. <<>> \in T
  BY EmptyJoined, NothingAhead, SeparatedWeaker
<1>2. ASSUME NEW t \in Strings, t # <<>>, NamesAt(t) = {}, From(t, 2) \in T
      PROVE  t \in T
  <2> SUFFICES ASSUME NEW p \in BOOLEAN, Separated(t, p)
               PROVE  Separated(t \o b, p) /\ Refs(t \o b) = Refs(t) \cup Refs(b)
    OBVIOUS
  <2> DEFINE u == From(t, 2)
             far == FreeBehind(t[1], p)
  <2>1. u \in Strings /\ Refs(t) = Refs(u) /\ Separated(u, far)
    BY <1>2, SymbolAhead
  <2>2. Separated(u \o b, far) /\ Refs(u \o b) = Refs(u) \cup Refs(b)
    <3>1. \A q \in BOOLEAN : P(u, q)
      BY <1>2
    <3>2. far \in BOOLEAN
      BY DEF FreeBehind
    <3> HIDE DEF u, far
    <3> QED
      BY <2>1, <3>1, <3>2
  <2>3. /\ t \o b \in Strings /\ t \o b # <<>> /\ (t \o b)[1] = t[1]
        /\ From(t \o b, 2) = u \o b /\ NamesAt(t \o b) = NamesAt(t)
    BY <1>2, Joined
  <2> DEFINE w == t \o b
  <2>4. /\ Separated(w, p) <=> Separated(From(w, 2), FreeBehind(w[1], p))
        /\ Refs(w) = Refs(From(w, 2))
    <3> HIDE DEF w
    <3>1. w \in Strings /\ w # <<>> /\ NamesAt(w) = {}
      BY <1>2, <2>3 DEF w
    <3> QED
      BY <3>1, SymbolAhead
  <2> QED
    BY <2>1, <2>2, <2>3, <2>4
<1>3. ASSUME NEW t \in Strings, t # <<>>, NamesAt(t) # {}, From(t, 2 + Len(Longest(t))) \in T
      PROVE  t \in T
  <2> SUFFICES ASSUME NEW p \in BOOLEAN, Separated(t, p)
               PROVE  Separated(t \o b, p) /\ Refs(t \o b) = Refs(t) \cup Refs(b)
    OBVIOUS
  <2> DEFINE l == Longest(t)
             u == From(t, 2 + Len(l))
             r == Reference(l)
  <2>1. /\ l \in Macros /\ u \in Strings /\ Refs(t) = {l} \cup Refs(u) /\ Separated(u, FALSE)
        /\ ~GoesOn(u, 1) /\ (GoesOn(value[l], 1) => p) /\ t = r \o u
    BY <1>3, ReferenceAhead
  <2>2. Separated(u \o b, FALSE) /\ Refs(u \o b) = Refs(u) \cup Refs(b)
    <3>1. \A q \in BOOLEAN : P(u, q)
      BY <1>3
    <3> HIDE DEF u
    <3> QED
      BY <2>1, <3>1
  <2> HIDE DEF u, l
  <2>3. ~GoesOn(u \o b, 1) /\ u \o b \in Strings
    <3>1. CASE u = <<>>
      BY <3>1, EmptyJoined
    <3>2. CASE u # <<>>
      <4>1. u \o b \in Strings /\ (u \o b)[1] = u[1]
        BY <2>1, <3>2, Joined
      <4>2. 1 \in DOMAIN u
        BY <2>1, <3>2, TextTyped
      <4> QED
        BY <2>1, <4>1, <4>2 DEF GoesOn
    <3> QED
      BY <3>1, <3>2
  <2> DEFINE w == r \o (u \o b)
  <2>4. t \o b = w
    <3>1. r \in Strings
      BY <2>1, SymbolsTyped
    <3> HIDE DEF r
    <3> QED
      BY <2>1, <3>1, JoinAgain
  <2>5. /\ w \in Strings /\ IsPrefix(r, w) /\ From(w, 2 + Len(l)) = u \o b /\ ~GoesOn(w, 2 + Len(l))
    BY <2>1, <2>3, NextReference
  <2> HIDE DEF w
  <2>6. /\ Separated(w, p) <=> (GoesOn(value[l], 1) => p) /\ Separated(From(w, 2 + Len(l)), FALSE)
        /\ Refs(w) = {l} \cup Refs(From(w, 2 + Len(l)))
    BY <2>1, <2>5, BehindReference
  <2> QED
    BY <2>1, <2>2, <2>4, <2>5, <2>6
<1>4. Strings \subseteq T
  <2> HIDE DEF T
  <2> QED
    BY <1>1, <1>2, <1>3, TextInduction
<1> QED
  BY <1>4

(***************************************************************************)
(* Sys_ReplaceString leaves a reference to another macro as it is.         *)
(***************************************************************************)
LEMMA OtherKept ==
  ASSUME "$" \notin NameSymbols, NEW m \in Macros, NEW r \in Strings,
         NEW l \in Macros, NEW u \in Strings,
         ~IsPrefix(Reference(m), Reference(l) \o u)
  PROVE  Sys_ReplaceString(Reference(l) \o u, Reference(m), r)
           = Reference(l) \o Sys_ReplaceString(u, Reference(m), r)
<1> DEFINE R(t) == Sys_ReplaceString(t, Reference(m), r)
           n == Len(l)
           t == Reference(l) \o u
           w == R(u)
           \* How many symbols of the name are left.
           T == {d \in Nat : d <= n => R(From(l, n - d + 1) \o u) = From(l, n - d + 1) \o w}
<1>0. /\ \A s \in Strings : R(s) \in Strings
      /\ \A s \in Strings : s # <<>> /\ ~IsPrefix(Reference(m), s) =>
           R(s) = <<s[1]>> \o R(From(s, 2))
  BY Replaced
<1> HIDE DEF R
<1>1. /\ l \in Strings /\ n \in Nat /\ \A i \in 1..n : l[i] \in NameSymbols /\ l[i] \in Symbols
  BY NameTyped, TextTyped
<1>2. w \in Strings
  BY <1>0
<1>3. /\ From(l, n + 1) = <<>> /\ From(l, 1) = l
      /\ \A k \in 1..n : <<l[k]>> \o From(l, k + 1) = From(l, k)
  BY <1>1, FromHere DEF Strings
<1>4. \A k \in 1..(n + 1) : From(l, k) \in Strings
  BY <1>1, FromIs
<1> HIDE DEF n, w
\* The same for one symbol.
<1>5. ASSUME NEW x \in Symbols, NEW b \in Strings, x # "$"
      PROVE  R(<<x>> \o b) = <<x>> \o R(b)
  <2> DEFINE s == <<x>> \o b
  <2>1. s \in Strings /\ s # <<>> /\ s[1] = x /\ From(s, 2) = b
    BY NextSymbol
  <2> HIDE DEF s
  <2>2. ~IsPrefix(Reference(m), s)
    BY <1>5, <2>1, RefersAhead
  <2>3. R(s) = <<x>> \o R(b)
    BY <1>0, <2>1, <2>2
  <2> QED
    BY <2>3 DEF s
<1>6. 0 \in T
  <2>1. n - 0 + 1 = n + 1
    BY <1>1
  <2>2. R(From(l, n - 0 + 1) \o u) = From(l, n - 0 + 1) \o w
    BY <1>2, <1>3, <2>1, EmptyJoined DEF w
  <2> QED
    BY <2>2
<1>7. ASSUME NEW d \in Nat, d \in T PROVE d + 1 \in T
  <2> SUFFICES ASSUME d + 1 <= n
               PROVE  R(From(l, n - (d + 1) + 1) \o u) = From(l, n - (d + 1) + 1) \o w
    OBVIOUS
  <2> DEFINE k == n - d
             a == From(l, k + 1)
             b == From(l, k)
  <2>1. k \in 1..n /\ k + 1 \in 1..(n + 1) /\ k \in 1..(n + 1) /\ n - (d + 1) + 1 = k
        /\ n - d + 1 = k + 1
    BY <1>1
  <2>2. R(a \o u) = a \o w
    BY <1>1, <1>7, <2>1
  <2> HIDE DEF k
  <2>3. a \in Strings /\ b = <<l[k]>> \o a /\ l[k] \in Symbols /\ l[k] # "$" /\ <<l[k]>> \in Strings
    BY <1>1, <1>3, <1>4, <2>1, OneTyped
  <2> HIDE DEF a, b
  <2>4. b \o u = <<l[k]>> \o (a \o u) /\ b \o w = <<l[k]>> \o (a \o w)
    BY <1>2, <2>3, JoinAgain
  <2>5. a \o u \in Strings
    BY <2>3, JoinIs
  <2>6. R(<<l[k]>> \o (a \o u)) = <<l[k]>> \o R(a \o u)
    BY <1>5, <2>3, <2>5
  <2>7. R(b \o u) = b \o w
    BY <2>2, <2>4, <2>6
  <2> QED
    BY <2>1, <2>7 DEF b
<1>8. Nat \subseteq T
  <2> HIDE DEF T
  <2> QED
    BY <1>6, <1>7, NumbersInduction
<1>9. R(l \o u) = l \o w
  <2>1. n \in T
    BY <1>1, <1>8
  <2>2. n <= n /\ n - n + 1 = 1
    BY <1>1
  <2> QED
    BY <1>3, <2>1, <2>2
<1>10. t = <<"$">> \o (l \o u) /\ Reference(l) \o w = <<"$">> \o (l \o w)
  <2>1. <<"$">> \in Strings
    BY SymbolsTyped, OneTyped
  <2> QED
    BY <1>1, <1>2, <2>1, JoinAgain DEF Reference
<1>11. R(t) = <<"$">> \o R(l \o u)
  <2>1. "$" \in Symbols /\ l \o u \in Strings
    BY <1>1, SymbolsTyped, JoinIs
  <2>2. t \in Strings /\ t # <<>> /\ t[1] = "$" /\ From(t, 2) = l \o u
    BY <1>10, <2>1, NextSymbol
  <2>3. ~IsPrefix(Reference(m), t)
    OBVIOUS
  <2> HIDE DEF t
  <2> QED
    BY <1>0, <2>2, <2>3
<1> QED
  BY <1>9, <1>10, <1>11 DEF R, w

(***************************************************************************)
(* The replacement of a macro, where every occurrence of its reference is  *)
(* a reference to it: the scan reads the same, no reference is made or     *)
(* extended, and those that are new come from the value.                   *)
(***************************************************************************)
LEMMA ReplacedReadsTheSame ==
  ASSUME "$" \notin NameSymbols, NEW m \in Macros, value[m] \in Strings, Separated(value[m], FALSE),
         NEW E \in [Macros -> Strings], E[m] = Scan(value[m], E)
  PROVE  \A t \in Strings, p \in BOOLEAN :
           Separated(t, p) /\ Standing(t, m) =>
             LET u == Sys_ReplaceString(t, Reference(m), value[m])
             IN  /\ u \in Strings /\ Separated(u, p) /\ Scan(u, E) = Scan(t, E)
                 /\ Refs(u) \subseteq (Refs(t) \ {m}) \cup Refs(value[m])
                 /\ m \notin Refs(t) => u = t
                 /\ ~p => \A s \in Strings : (\A i \in 1..Len(s) : s[i] \in NameSymbols)
                                               /\ IsPrefix(s, u) => IsPrefix(s, t)
<1> DEFINE v == value[m]
           R(t) == Sys_ReplaceString(t, Reference(m), v)
           S(t) == Scan(t, E)
           IsName(s) == s \in Strings /\ \A i \in 1..Len(s) : s[i] \in NameSymbols
           Same(t, p) == /\ Separated(R(t), p) /\ S(R(t)) = S(t)
                         /\ Refs(R(t)) \subseteq (Refs(t) \ {m}) \cup Refs(v)
                         /\ m \notin Refs(t) => R(t) = t
                         /\ ~p => \A s : IsName(s) /\ IsPrefix(s, R(t)) => IsPrefix(s, t)
           T == {t \in Strings : \A p \in BOOLEAN : Separated(t, p) /\ Standing(t, m) => Same(t, p)}
<1>0. v \in Strings /\ Separated(v, FALSE) /\ E[m] = S(v)
  OBVIOUS
<1>1. /\ \A t \in Strings : R(t) \in Strings
      /\ R(<<>>) = <<>>
      /\ \A t \in Strings : t # <<>> /\ m \notin NamesAt(t) => R(t) = <<t[1]>> \o R(From(t, 2))
      /\ \A t \in Strings : t # <<>> /\ m \in NamesAt(t) =>
           R(t) = v \o R(From(t, 2 + Len(m)))
  <2>1. R(<<>>) = <<>> /\ \A t \in Strings : R(t) \in Strings
    BY <1>0, Replaced, NothingAhead
  <2>2. ASSUME NEW t \in Strings, t # <<>>, m \notin NamesAt(t)
        PROVE  R(t) = <<t[1]>> \o R(From(t, 2))
    <3>1. ~IsPrefix(Reference(m), t)
      BY <2>2 DEF NamesAt
    <3> QED
      BY <1>0, <2>2, <3>1, Replaced
  <2>3. ASSUME NEW t \in Strings, t # <<>>, m \in NamesAt(t)
        PROVE  R(t) = v \o R(From(t, 2 + Len(m)))
    <3>1. IsPrefix(Reference(m), t)
      BY <2>3 DEF NamesAt
    <3>2. Len(Reference(m)) + 1 = 2 + Len(m)
      BY SymbolsTyped
    <3>3. R(t) = v \o R(From(t, Len(Reference(m)) + 1))
      BY <1>0, <2>3, <3>1, Replaced
    <3> QED
      BY <3>2, <3>3
  <2> QED
    BY <2>1, <2>2, <2>3
<1>2. ASSUME NEW l \in Macros, NEW u \in Strings, m \notin NamesAt(Reference(l) \o u),
             Reference(l) \o u \in Strings
      PROVE  R(Reference(l) \o u) = Reference(l) \o R(u)
  <2>1. ~IsPrefix(Reference(m), Reference(l) \o u)
    BY <1>2 DEF NamesAt
  <2> QED
    BY <1>0, <2>1, OtherKept
<1>3. /\ S(<<>>) = <<>>
      /\ \A t \in Strings : t # <<>> /\ NamesAt(t) = {} => S(t) = <<t[1]>> \o S(From(t, 2))
      /\ \A t \in Strings : t # <<>> /\ NamesAt(t) # {} =>
                              S(t) = E[Longest(t)] \o S(From(t, 2 + Len(Longest(t))))
  BY Scanned, NothingAhead
<1>4. ASSUME NEW a \in Strings, NEW b \in Strings, ~GoesOn(b, 1)
      PROVE  S(a \o b) = S(a) \o S(b)
  BY <1>4, ScanJoined
<1> HIDE DEF v, R, S
<1>5. <<>> \in T
  BY <1>1, <1>3, NothingAhead
\* Where nothing may go on, the replacement goes on only where the text does.
<1>6. ASSUME NEW u \in Strings, Same(u, FALSE), ~GoesOn(u, 1)
      PROVE  ~GoesOn(R(u), 1)
  <2> SUFFICES ASSUME GoesOn(R(u), 1) PROVE FALSE
    OBVIOUS
  <2> DEFINE x == R(u)[1]
             s == <<x>>
  <2>0. R(u) \in Strings
    BY <1>1
  <2>1. 1 \in DOMAIN R(u) /\ x \in NameSymbols
    BY DEF GoesOn
  <2>2. x \in Symbols /\ 1 \in 1..Len(R(u)) /\ Len(R(u)) \in Nat
    BY <2>0, <2>1, TextTyped
  <2> HIDE DEF x
  <2>3. s \in Strings /\ Len(s) = 1 /\ s[1] = x
    BY <2>2 DEF Strings
  <2>4. IsName(s)
    BY <2>1, <2>3
  <2> HIDE DEF s
  <2>5. IsPrefix(s, R(u))
    <3>1. Len(s) <= Len(R(u)) /\ \A i \in 1..Len(s) : R(u)[i] = s[i]
      BY <2>2, <2>3 DEF x
    <3> QED
      BY <2>0, <2>3, <3>1, PrefixIs
  <2>6. IsPrefix(s, u)
    BY <1>6, <2>4, <2>5
  <2>7. 1 <= Len(u) /\ u[1] = x
    <3>1. Len(s) <= Len(u) /\ \A i \in 1..Len(s) : u[i] = s[i]
      BY <2>3, <2>6, PrefixIs
    <3> QED
      BY <2>3, <3>1
  <2>8. 1 \in DOMAIN u
    BY <2>7, TextTyped
  <2> QED
    BY <1>6, <2>1, <2>7, <2>8 DEF GoesOn
<1>7. ASSUME NEW t \in Strings, t # <<>>, NamesAt(t) = {}, From(t, 2) \in T
      PROVE  t \in T
  <2> SUFFICES ASSUME NEW p \in BOOLEAN, Separated(t, p), Standing(t, m) PROVE Same(t, p)
    OBVIOUS
  <2> DEFINE u == From(t, 2)
             x == t[1]
             far == FreeBehind(x, p)
             w == <<x>> \o R(u)
  <2>1. /\ x \in Symbols /\ u \in Strings /\ t = <<x>> \o u /\ Refs(t) = Refs(u)
        /\ Separated(u, far) /\ Standing(u, m)
    BY <1>7, SymbolAhead
  <2>2. Same(u, far)
    <3>1. \A q \in BOOLEAN : Separated(u, q) /\ Standing(u, m) => Same(u, q)
      BY <1>7
    <3>2. far \in BOOLEAN
      BY DEF FreeBehind
    <3> HIDE DEF Same, u, far
    <3> QED
      BY <2>1, <3>1, <3>2
  <2>3. R(t) = w /\ S(t) = <<x>> \o S(u)
    BY <1>1, <1>3, <1>7
  <2> HIDE DEF u, x
  <2>4. R(u) \in Strings
    BY <1>1, <2>1
  <2>5. /\ w \in Strings /\ w # <<>> /\ w[1] = x /\ From(w, 2) = R(u)
        /\ \A s \in Strings : IsPrefix(s, w) <=>
              s = <<>> \/ (s # <<>> /\ s[1] = x /\ IsPrefix(From(s, 2), R(u)))
        /\ NamesAt(w) # {} <=> x = "$" /\ \E n \in Macros : IsPrefix(n, R(u))
    BY <2>1, <2>4, NextSymbol
  <2>6. /\ \A s \in Strings : IsPrefix(s, t) <=>
              s = <<>> \/ (s # <<>> /\ s[1] = x /\ IsPrefix(From(s, 2), u))
        /\ NamesAt(t) # {} <=> x = "$" /\ \E n \in Macros : IsPrefix(n, u)
    BY <2>1, NextSymbol
  <2> HIDE DEF w
  <2>7. NamesAt(w) = {}
    <3> SUFFICES ASSUME x = "$", NEW n \in Macros, IsPrefix(n, R(u)) PROVE FALSE
      BY <2>5
    <3>1. IsName(n)
      BY NameTyped
    <3>2. ~far
      BY DEF FreeBehind
    <3>3. IsPrefix(n, u)
      <4> HIDE DEF IsName, far
      <4> QED
        BY <2>2, <3>1, <3>2
    <3> QED
      BY <1>7, <2>6, <3>3
  <2>8. /\ Separated(w, p) <=> Separated(R(u), far)
        /\ Refs(w) = Refs(R(u))
    <3>1. /\ Separated(w, p) <=> Separated(From(w, 2), FreeBehind(w[1], p))
          /\ Refs(w) = Refs(From(w, 2))
      BY <2>5, <2>7, SymbolAhead
    <3> QED
      BY <2>5, <3>1
  <2>9. S(w) = <<x>> \o S(R(u))
    BY <1>3, <2>5, <2>7
  <2>10. ASSUME ~p, NEW s, IsName(s), IsPrefix(s, w) PROVE IsPrefix(s, t)
    <3>1. CASE s = <<>>
      BY <2>6, <2>10, <3>1
    <3>2. CASE s # <<>>
      <4>1. s \in Strings /\ s[1] = x /\ IsPrefix(From(s, 2), R(u))
        BY <2>5, <2>10, <3>2
      <4>2. Len(s) \in Nat /\ 1 \in 1..Len(s) /\ 1 \in 0..Len(s) /\ 1 + 1 = 2
        BY <3>2, <4>1, TextTyped
      <4>3. ~far
        BY <2>10, <4>1, <4>2 DEF FreeBehind
      <4>4. /\ From(s, 2) \in Strings /\ Len(From(s, 2)) = Len(s) - 1
            /\ \A k \in 1..(Len(s) - 1) : From(s, 2)[k] = s[k + 1]
        BY <4>1, <4>2, FromAt
      <4>5. IsName(From(s, 2))
        <5> SUFFICES ASSUME NEW k \in 1..(Len(s) - 1) PROVE From(s, 2)[k] \in NameSymbols
          BY <4>4
        <5>1. k + 1 \in 1..Len(s)
          BY <4>2
        <5> QED
          BY <2>10, <4>4, <5>1
      <4>6. IsPrefix(From(s, 2), u)
        <5> HIDE DEF IsName, far
        <5> QED
          BY <2>2, <4>1, <4>3, <4>5
      <4> QED
        BY <2>6, <3>2, <4>1, <4>6
    <3> QED
      BY <3>1, <3>2
  <2>11. m \notin Refs(t) => w = t
    BY <2>1, <2>2 DEF w
  <2> HIDE DEF IsName, far
  <2> QED
    BY <2>1, <2>2, <2>3, <2>8, <2>9, <2>10, <2>11
<1>8. ASSUME NEW t \in Strings, t # <<>>, NamesAt(t) # {}, From(t, 2 + Len(Longest(t))) \in T
      PROVE  t \in T
  <2> SUFFICES ASSUME NEW p \in BOOLEAN, Separated(t, p), Standing(t, m) PROVE Same(t, p)
    OBVIOUS
  <2> DEFINE l == Longest(t)
             u == From(t, 2 + Len(l))
             w == Reference(l) \o R(u)
  <2>1. /\ l \in Macros /\ IsPrefix(Reference(l), t) /\ t = Reference(l) \o u
        /\ u \in Strings /\ ~GoesOn(u, 1) /\ Separated(u, FALSE)
        /\ (GoesOn(value[l], 1) => p)
        /\ Refs(t) = {l} \cup Refs(u)
        /\ Standing(u, m) /\ (m \in NamesAt(t) => m = l)
    BY <1>8, ReferenceAhead
  <2>2. Same(u, FALSE)
    <3>1. \A q \in BOOLEAN : Separated(u, q) /\ Standing(u, m) => Same(u, q)
      BY <1>8
    <3> HIDE DEF Same, u
    <3> QED
      BY <2>1, <3>1
  <2>3. R(u) \in Strings /\ ~GoesOn(R(u), 1)
    <3> HIDE DEF Same, u
    <3> QED
      BY <1>1, <1>6, <2>1, <2>2
  <2>4. S(t) = E[l] \o S(u)
    BY <1>3, <1>8
  <2>5. t[1] = "$" /\ l \in NamesAt(t)
    BY <1>8, <2>1, RefersAhead DEF NamesAt
  \* No name begins with the $ of a reference.
  <2>6. ASSUME NEW s, IsName(s), s # <<>> PROVE ~IsPrefix(s, t) /\ 1 \in 1..Len(s) /\ s[1] # "$"
    <3>1. 1 \in 1..Len(s)
      BY <2>6, TextTyped
    <3> QED
      BY <2>5, <2>6, <3>1, PrefixIs
  <2>7. \A s : IsName(s) /\ s = <<>> => IsPrefix(s, t)
    BY PrefixIs, TextTyped
  <2>8. CASE l = m
    <3>1. R(t) = v \o R(u)
      BY <1>1, <1>8, <2>5, <2>8
    <3> HIDE DEF u, l
    <3>2. Separated(v \o R(u), p) /\ Refs(v \o R(u)) = Refs(v) \cup Refs(R(u))
      <4>1. Separated(v, p)
        BY <1>0, SeparatedWeaker
      <4>2. Separated(R(u), FALSE)
        BY <2>2
      <4> QED
        BY <1>0, <2>3, <4>1, <4>2, SeparatedJoined
    <3>3. S(v \o R(u)) = S(v) \o S(R(u))
      BY <1>0, <1>4, <2>3
    <3>4. ASSUME ~p, NEW s, IsName(s), IsPrefix(s, v \o R(u)) PROVE IsPrefix(s, t)
      <4>1. CASE s = <<>>
        BY <2>7, <3>4, <4>1
      <4>2. CASE s # <<>>
        <5>0. v \o R(u) \in Strings
          BY <1>0, <2>3, JoinIs
        <5>1. 1 \in 1..Len(s) /\ s[1] \in NameSymbols /\ s \in Strings
          BY <2>6, <3>4, <4>2
        <5>2. Len(s) <= Len(v \o R(u)) /\ (v \o R(u))[1] = s[1]
          BY <3>4, <5>0, <5>1, PrefixIs
        <5>3. GoesOn(v \o R(u), 1)
          <6>1. 1 \in 1..Len(v \o R(u))
            BY <5>0, <5>1, <5>2, TextTyped
          <6> QED
            BY <5>0, <5>1, <5>2, <6>1, TextTyped DEF GoesOn
        <5>4. ~GoesOn(v, 1)
          BY <2>1, <2>8, <3>4 DEF v
        <5>5. CASE v = <<>>
          BY <2>3, <5>3, <5>5, EmptyJoined
        <5>6. CASE v # <<>>
          <6>1. (v \o R(u))[1] = v[1]
            BY <1>0, <2>3, <5>6, Joined
          <6>2. 1 \in DOMAIN v
            BY <1>0, <5>6, TextTyped
          <6> QED
            BY <5>1, <5>2, <5>4, <6>1, <6>2 DEF GoesOn
        <5> QED
          BY <5>5, <5>6
      <4> QED
        BY <4>1, <4>2
    <3> HIDE DEF IsName
    <3> QED
      BY <1>0, <2>1, <2>2, <2>4, <2>8, <3>1, <3>2, <3>3, <3>4
  <2>9. CASE l # m
    <3>1. m \notin NamesAt(t)
      BY <2>1, <2>9
    <3> HIDE DEF u, l
    <3>2. R(t) = w
      <4>1. R(Reference(l) \o u) = Reference(l) \o R(u)
        BY <1>2, <2>1, <3>1
      <4> QED
        BY <2>1, <4>1
    <3>3. /\ w \in Strings /\ w # <<>> /\ w[1] = "$" /\ IsPrefix(Reference(l), w)
          /\ NamesAt(w) # {} /\ Longest(w) = l
          /\ From(w, 2 + Len(l)) = R(u) /\ ~GoesOn(w, 2 + Len(l))
      BY <2>1, <2>3, NextReference
    <3> HIDE DEF w
    <3>4. /\ Separated(w, p) <=> (GoesOn(value[l], 1) => p) /\ Separated(R(u), FALSE)
          /\ Refs(w) = {l} \cup Refs(R(u))
      <4>1. /\ Separated(w, p) <=> (GoesOn(value[l], 1) => p) /\ Separated(From(w, 2 + Len(l)), FALSE)
            /\ Refs(w) = {l} \cup Refs(From(w, 2 + Len(l)))
        BY <2>1, <3>3, BehindReference
      <4> QED
        BY <3>3, <4>1
    <3>5. S(w) = E[l] \o S(R(u))
      BY <1>3, <3>3
    <3>6. ASSUME NEW s, IsName(s), IsPrefix(s, w) PROVE IsPrefix(s, t)
      <4>1. CASE s = <<>>
        BY <2>7, <3>6, <4>1
      <4>2. CASE s # <<>>
        <5>1. 1 \in 1..Len(s) /\ s[1] # "$" /\ s \in Strings
          BY <2>6, <3>6, <4>2
        <5> QED
          BY <3>3, <3>6, <5>1, PrefixIs
      <4> QED
        BY <4>1, <4>2
    <3>7. m \notin Refs(t) => w = t
      BY <2>1, <2>2 DEF w
    <3> HIDE DEF IsName
    <3> QED
      BY <2>1, <2>2, <2>4, <2>9, <3>2, <3>4, <3>5, <3>6, <3>7
  <2> QED
    BY <2>8, <2>9
<1>9. Strings \subseteq T
  <2> HIDE DEF T
  <2> QED
    BY <1>5, <1>7, <1>8, TextInduction, SMTT(60)
<1>10. ASSUME NEW t \in Strings, NEW p \in BOOLEAN, Separated(t, p), Standing(t, m)
       PROVE  R(t) \in Strings /\ Same(t, p)
  <2>1. t \in T
    BY <1>9
  <2> HIDE DEF Same
  <2> QED
    BY <1>1, <1>10, <2>1
<1> QED
  BY <1>10 DEF R, S, v

Mentions == [m \in Macros |-> {n \in Macros : Occurrences(value[m], Reference(n)) # {}}]
Below(m) == ReachableFrom(Mentions[m], Mentions, Macros)

\* The macros below a macro are more than those below a macro in its value.
LEMMA BelowGrows ==
  ASSUME Acyclic(value), NEW m \in Macros
  PROVE  /\ Below(m) \subseteq Macros /\ m \notin Below(m) /\ Cardinality(Below(m)) \in Nat
         /\ Cardinality(Below(m)) < Cardinality(Macros)
         /\ \A n \in Mentions[m] : n \in Macros /\ Cardinality(Below(n)) < Cardinality(Below(m))
<1>1. \A n \in Macros : n \notin Below(n)
  BY DEF Acyclic, Below, Mentions
<1>2. \A n \in Macros : Below(n) \subseteq Macros
  BY DEF Below, ReachableFrom
<1>3. IsFiniteSet(Macros)
  BY ResolveAssumption
<1>4. \A n \in Macros : IsFiniteSet(Below(n)) /\ Cardinality(Below(n)) \in Nat
  BY <1>2, <1>3, FS_Subset, FS_CardinalityType
<1>5. Cardinality(Below(m)) < Cardinality(Macros)
  BY <1>1, <1>2, <1>3, <1>4, FS_Subset, FS_CardinalityType
<1>6. ASSUME NEW n \in Mentions[m]
      PROVE  n \in Macros /\ Cardinality(Below(n)) < Cardinality(Below(m))
  <2>1. n \in Macros
    BY DEF Mentions
  <2>2. n \in Below(m)
    BY <2>1 DEF Below, ReachableFrom
  <2>3. Below(n) \subseteq Below(m)
    <3> SUFFICES ASSUME NEW f \in Below(n), NEW S \in SUBSET Macros,
                        Mentions[m] \subseteq S, SelfContained(S, Mentions)
                 PROVE  f \in S
      BY <1>2, <2>1, Zenon DEF Below, ReachableFrom
    <3>1. Mentions[n] \subseteq S
      BY DEF SelfContained
    <3> QED
      BY <3>1 DEF Below, ReachableFrom
  <2>4. Below(n) # Below(m)
    BY <1>1, <2>1, <2>2
  <2> QED
    BY <1>4, <2>1, <2>3, <2>4, FS_Subset
<1> QED
  BY <1>1, <1>2, <1>4, <1>5, <1>6

LEMMA RefsMentioned ==
  ASSUME NEW m \in Macros
  PROVE  Refs(value[m]) \subseteq Mentions[m]
BY DEF Refs, Refers, Mentions

(***************************************************************************)
(* Where the values are not cyclic, Expanded is what it says: each macro's *)
(* value, read with the expanded values.                                   *)
(***************************************************************************)
LEMMA ExpandedIs ==
  ASSUME "$" \notin NameSymbols, value \in [Macros -> Strings], Acyclic(value),
         \A m \in Macros : Separated(value[m], FALSE)
  PROVE  /\ Expanded \in [Macros -> Strings]
         /\ \A m \in Macros : Expanded[m] = Scan(value[m], Expanded)
<1> DEFINE N == Cardinality(Macros)
           S == [Macros -> Strings]
           bare == [m \in Macros |-> <<>>]
           Over(e) == [m \in Macros |-> Scan(value[m], e)]
           G == [p \in (1..N) \X S |-> Over(p[2])]
           Def(f) == f = [d \in 0..N |-> IF d = 0 THEN bare
                                         ELSE [m \in Macros |-> Scan(value[m], f[d - 1])]]
           expand == CHOOSE f : Def(f)
<1>1. N \in Nat
  BY ResolveAssumption, FS_CardinalityType
<1>2. bare \in S /\ \A e \in S : Over(e) \in S
  BY NothingAhead, Scanned
<1>3. Expanded = expand[N]
  BY Zenon DEF Expanded
<1> HIDE DEF N
<1>4. \E f : Def(f)
  <2>1. G \in [(1..N) \X S -> S]
    <3> HIDE DEF S, Over
    <3> QED
      BY <1>2
  <2>2. PICK f \in [0..N -> S] : IsSteps(G, bare, N, f)
    <3> HIDE DEF S, bare, G
    <3> QED
      BY <1>1, <1>2, <2>1, StepsExist
  <2>3. ASSUME NEW d \in 0..N, d # 0
        PROVE  G[<<d, f[d - 1]>>] = Over(f[d - 1])
    <3>1. d \in 1..N /\ d - 1 \in 0..N
      BY <1>1, <2>3
    <3>2. f[d - 1] \in S
      BY <2>2, <3>1
    <3>3. <<d, f[d - 1]>> \in (1..N) \X S /\ <<d, f[d - 1]>>[2] = f[d - 1]
      BY <3>1, <3>2
    <3> HIDE DEF S, Over
    <3> QED
      BY <3>3
  <2>4. Def(f)
    <3>1. f = [k \in 0..N |-> IF k = 0 THEN bare ELSE G[<<k, f[k - 1]>>]]
      BY <2>2, Zenon DEF IsSteps
    <3>2. \A k \in 0..N : (IF k = 0 THEN bare ELSE G[<<k, f[k - 1]>>])
                          = IF k = 0 THEN bare ELSE Over(f[k - 1])
      <4> HIDE DEF G, bare, Over
      <4> QED
        BY <2>3
    <3>3. f = [k \in 0..N |-> IF k = 0 THEN bare ELSE Over(f[k - 1])]
      <4> HIDE DEF G, bare, Over
      <4> QED
        BY <3>1, <3>2
    <3> QED
      BY <3>3, Zenon
  <2> QED
    BY <2>4
<1>5. Def(expand)
  <2> HIDE DEF Def
  <2> QED
    BY <1>4, Zenon
<1>6. ASSUME NEW d \in 0..N
      PROVE  expand[d] = IF d = 0 THEN bare ELSE Over(expand[d - 1])
  <2> HIDE DEF expand, bare
  <2>1. \A k \in 0..N : expand[k] = IF k = 0 THEN bare
                                    ELSE [m \in Macros |-> Scan(value[m], expand[k - 1])]
    BY <1>5, Zenon
  <2> QED
    BY <2>1
<1> HIDE DEF expand, bare, Over, Def
\* Iterated so often, the value of a macro with fewer than d macros below it stays.
<1> DEFINE C(m) == Cardinality(Below(m))
           T == {d \in Nat : d <= N =>
                   /\ expand[d] \in S
                   /\ \A m \in Macros : C(m) < d => expand[d][m] = Over(expand[d])[m]}
<1>7. 0 \in T
  <2>1. 0 \in 0..N /\ \A m \in Macros : ~(C(m) < 0)
    BY <1>1, BelowGrows
  <2>2. expand[0] = bare
    BY <1>6, <2>1
  <2> HIDE DEF S, C
  <2> QED
    BY <1>2, <2>1, <2>2
<1>8. ASSUME NEW d \in Nat, d \in T PROVE d + 1 \in T
  <2> SUFFICES ASSUME d + 1 <= N
               PROVE  /\ expand[d + 1] \in S
                      /\ \A m \in Macros : C(m) < d + 1 => expand[d + 1][m] = Over(expand[d + 1])[m]
    OBVIOUS
  <2> DEFINE e == expand[d]
             g == expand[d + 1]
  <2>1. /\ e \in S /\ \A m \in Macros : C(m) < d => e[m] = Over(e)[m]
    BY <1>1, <1>8
  <2>2. g = Over(e)
    <3>1. d + 1 \in 0..N /\ d + 1 # 0 /\ d + 1 - 1 = d
      BY <1>1
    <3> QED
      BY <1>6, <3>1
  <2> HIDE DEF e, g
  <2>3. g \in S
    <3> HIDE DEF S
    <3> QED
      BY <1>2, <2>1, <2>2
  <2>4. ASSUME NEW m \in Macros, C(m) < d + 1 PROVE g[m] = Over(g)[m]
    <3>1. ASSUME NEW n \in Refs(value[m]) PROVE e[n] = g[n]
      <4>1. n \in Mentions[m]
        BY RefsMentioned
      <4>2. n \in Macros /\ C(n) < C(m) /\ C(n) \in Nat /\ C(m) \in Nat
        BY <4>1, BelowGrows
      <4>3. C(n) < d
        <5> HIDE DEF C
        <5> QED
          BY <2>4, <4>2
      <4> QED
        BY <2>1, <2>2, <4>2, <4>3
    <3>2. value[m] \in Strings /\ Separated(value[m], FALSE)
      OBVIOUS
    <3>3. Scan(value[m], e) = Scan(value[m], g)
      BY <2>1, <2>3, <3>1, <3>2, ScanReads
    <3>4. Over(e)[m] = Scan(value[m], e) /\ Over(g)[m] = Scan(value[m], g)
      BY DEF Over
    <3> QED
      BY <2>2, <3>3, <3>4
  <2> QED
    BY <2>3, <2>4 DEF g
<1>9. Nat \subseteq T
  <2> HIDE DEF T
  <2> QED
    BY <1>7, <1>8, NumbersInduction
<1>10. /\ expand[N] \in S
       /\ \A m \in Macros : C(m) < N => expand[N][m] = Over(expand[N])[m]
  BY <1>1, <1>9
<1>11. \A m \in Macros : C(m) < N
  BY BelowGrows DEF N
<1>12. \A m \in Macros : Over(expand[N])[m] = Scan(value[m], expand[N])
  BY DEF Over
<1> QED
  BY <1>3, <1>10, <1>11, <1>12

-----------------------------------------------------------------------------
\* The list of the macros while the loop runs.
ListInv ==
  /\ order \in SetToSeqs(Macros) /\ Sorted(order)
  /\ value \in [Macros -> Values] /\ Acyclic(value)
  /\ pString \in Texts
  /\ next \in 1..Cardinality(Macros) + 1
  /\ bDone \in BOOLEAN /\ resolved \in BOOLEAN
  /\ resolved => bDone /\ next = Cardinality(Macros) + 1

(***************************************************************************)
(* What the buffer reads as; a macro of the pass that the buffer refers to *)
(* came back in the value of a later one; a pass that is done left none.   *)
(***************************************************************************)
BufferInv ==
  /\ bDoReplace
  /\ buffer1 \in Strings
  /\ Separated(buffer1, TRUE)
  /\ Scan(buffer1, Expanded) = Scan(pString, Expanded)
  /\ \A i \in 1..next - 1 :
       order[i] \in Refs(buffer1) =>
         ~bDone /\ \E j \in i + 1..next - 1 : order[i] \in Refs(value[order[j]])

GreedyInv ==
  /\ ListInv
  /\ ~isCondition /\ ReferencesStand => BufferInv

\* Where the references stand, the values read as what Expanded says.
LEMMA ValuesStand ==
  ASSUME ListInv, ReferencesStand
  PROVE  /\ "$" \notin NameSymbols /\ value \in [Macros -> Strings]
         /\ \A m \in Macros : Separated(value[m], FALSE) /\ m \notin Refs(value[m])
         /\ Expanded \in [Macros -> Strings]
         /\ \A m \in Macros : Expanded[m] = Scan(value[m], Expanded)
<1>1. /\ "$" \notin NameSymbols /\ value \in [Macros -> Strings]
      /\ \A m \in Macros : Separated(value[m], FALSE)
  BY SymbolsTyped DEF ListInv, ReferencesStand
<1>2. Acyclic(value)
  BY DEF ListInv
<1>3. ASSUME NEW m \in Macros, m \in Refs(value[m]) PROVE FALSE
  <2>1. m \in Mentions[m]
    BY <1>3, RefsMentioned
  <2>2. Cardinality(Below(m)) < Cardinality(Below(m)) /\ Cardinality(Below(m)) \in Nat
    BY <1>2, <2>1, BelowGrows
  <2> QED
    BY <2>2
<1> QED
  BY <1>1, <1>2, <1>3, ExpandedIs

(***************************************************************************)
(* No occurrence of the reference to the next macro is the beginning of    *)
(* another reference: that would be one of a longer name, which came       *)
(* before and came back too late.                                          *)
(***************************************************************************)
LEMMA NextStands ==
  ASSUME ListInv, ReferencesStand, BufferInv, next <= Len(order)
  PROVE  Standing(buffer1, order[next])
<1> DEFINE N == Cardinality(Macros)
           m == order[next]
<1>1. /\ N \in Nat /\ Len(order) = N /\ next \in 1..N
      /\ \A i \in 1..N : order[i] \in Macros
      /\ \A n \in Macros : \E i \in 1..N : order[i] = n
      /\ \A i, j \in 1..N : /\ order[i] = order[j] => i = j
                            /\ i < j => Len(order[i]) >= Len(order[j])
  BY OrderIs DEF ListInv
<1>2. m \in Macros
  BY <1>1
<1> HIDE DEF N, m
<1> SUFFICES ASSUME NEW k \in Occurrences(buffer1, Reference(m)), ~Refers(buffer1, k, m)
             PROVE  FALSE
  BY DEF Standing, m
<1> DEFINE t == From(buffer1, k)
<1>3. /\ buffer1 \in Strings /\ k \in 1..Len(buffer1) /\ IsPrefix(Reference(m), t)
  BY OccursIs DEF BufferInv
<1>4. PICK n \in Macros : Refers(buffer1, k, n)
  BY <1>2, <1>3 DEF BufferInv, Separated
<1>5. n # m
  BY <1>4
<1>6. Len(m) < Len(n) /\ IsPrefix(m, n) /\ Len(m) \in Nat /\ Len(n) \in Nat
  <2> DEFINE j == k - 1
             u == From(buffer1, j + 1)
  <2>1. j \in 0..Len(buffer1) /\ 1 \in 1..(Len(buffer1) - j) /\ j + 1 = k /\ 1 + j = k
    BY <1>3, TextTyped
  <2>2. u \in Strings /\ Len(u) = Len(buffer1) - j /\ u = t
    BY <1>3, <2>1, FromAt
  <2> HIDE DEF j
  <2>3. Refers(u, 1, n)
    <3>1. Refers(u, 1, n) <=> Refers(buffer1, 1 + j, n)
      BY <1>3, <2>1, Shifted
    <3> QED
      BY <1>4, <2>1, <3>1
  <2> HIDE DEF u, t
  <2>4. u # <<>>
    BY <2>1, <2>2, TextTyped
  <2>5. n \in NamesAt(u) /\ ~GoesOn(u, 2 + Len(n))
    <3>1. 1 \in Occurrences(u, Reference(n)) /\ ~GoesOn(u, 1 + 1 + Len(n))
      BY <2>3 DEF Refers
    <3>2. 1 + 1 + Len(n) = 2 + Len(n)
      BY NameTyped
    <3> QED
      BY <2>2, <2>4, <3>1, <3>2, OccursAhead
  <2>6. IsPrefix(Reference(n), u) /\ m \in NamesAt(u)
    BY <1>2, <1>3, <2>2, <2>5 DEF NamesAt
  <2> QED
    BY <1>2, <1>5, <2>2, <2>5, <2>6, MeantIsLongest, NameTyped
<1>7. PICK i \in 1..N : order[i] = n
  BY <1>1
<1>8. i \in 1..next - 1
  <2>1. i # next
    BY <1>5, <1>7 DEF m
  <2>2. ~(next < i)
    BY <1>1, <1>6, <1>7 DEF m
  <2> QED
    BY <1>1, <2>1, <2>2
<1>9. n \in Refs(buffer1)
  BY <1>3, <1>4 DEF Refs
<1>10. PICK j \in i + 1..next - 1 : n \in Refs(value[order[j]])
  BY <1>7, <1>8, <1>9 DEF BufferInv
<1> DEFINE l == order[j]
<1>11. /\ l \in Macros /\ l # m /\ Len(m) <= Len(l) /\ Len(l) <= Len(n) /\ Len(l) \in Nat
  <2>1. j \in 1..N /\ i < j /\ j < next
    BY <1>1, <1>8
  <2>2. l \in Macros /\ l # m /\ Len(l) >= Len(m) /\ Len(n) >= Len(l)
    BY <1>1, <1>7, <2>1 DEF m
  <2>3. Len(l) \in Nat
    BY <2>2, NameTyped
  <2> HIDE DEF l
  <2> QED
    BY <1>6, <2>2, <2>3
<1>12. Occurrences(value[l], Reference(n)) # {}
  BY <1>10 DEF Refs, Refers
<1> HIDE DEF l
<1>13. ComesLate(n)
  BY <1>2, <1>5, <1>6, <1>11, <1>12 DEF ComesLate
<1> QED
  BY <1>13 DEF ReferencesStand

LEMMA MacroKept ==
  ASSUME ListInv, ReferencesStand, BufferInv, ~isCondition, ResolveMacro
  PROVE  /\ bDoReplace' /\ buffer1' \in Strings /\ Separated(buffer1', TRUE)
         /\ Scan(buffer1', Expanded) = Scan(pString, Expanded)
         /\ \A i \in 1..next :
              order[i] \in Refs(buffer1') =>
                ~bDone' /\ \E j \in i + 1..next : order[i] \in Refs(value[order[j]])
<1> DEFINE N == Cardinality(Macros)
           m == order[next]
           t == buffer1
           u == Sys_ReplaceString(t, Reference(m), value[m])
<1>1. /\ N \in Nat /\ Len(order) = N /\ next \in 1..N
      /\ \A i \in 1..N : order[i] \in Macros
      /\ \A i, j \in 1..N : order[i] = order[j] => i = j
  BY OrderIs DEF ListInv, ResolveMacro
<1>2. m \in Macros
  BY <1>1
<1>3. /\ bDoReplace' /\ buffer1' = u
      /\ bDone' = (bDone /\ ~(Occurrences(t, Reference(m)) # {}))
  BY DEF ResolveMacro, BufferInv, Blocked
<1>4. Standing(t, m)
  BY NextStands DEF ResolveMacro
<1>5. /\ "$" \notin NameSymbols /\ value \in [Macros -> Strings]
      /\ \A n \in Macros : Separated(value[n], FALSE) /\ n \notin Refs(value[n])
      /\ Expanded \in [Macros -> Strings]
      /\ \A n \in Macros : Expanded[n] = Scan(value[n], Expanded)
  BY ValuesStand
<1>6. t \in Strings /\ Separated(t, TRUE) /\ Scan(t, Expanded) = Scan(pString, Expanded)
  BY DEF BufferInv
<1> HIDE DEF m, t
<1>7. /\ u \in Strings /\ Separated(u, TRUE) /\ Scan(u, Expanded) = Scan(t, Expanded)
      /\ Refs(u) \subseteq (Refs(t) \ {m}) \cup Refs(value[m])
      /\ m \notin Refs(t) => u = t
  <2>1. value[m] \in Strings /\ Separated(value[m], FALSE) /\ Expanded[m] = Scan(value[m], Expanded)
    BY <1>2, <1>5
  <2> HIDE DEF u
  <2> DEFINE E == Expanded
  <2>2. E \in [Macros -> Strings] /\ E[m] = Scan(value[m], E)
    BY <1>5, <2>1
  <2> HIDE DEF E
  <2>3. /\ u \in Strings /\ Separated(u, TRUE) /\ Scan(u, E) = Scan(t, E)
        /\ Refs(u) \subseteq (Refs(t) \ {m}) \cup Refs(value[m])
        /\ m \notin Refs(t) => u = t
    BY <1>2, <1>4, <1>5, <1>6, <2>1, <2>2, ReplacedReadsTheSame DEF u
  <2> QED
    BY <2>3 DEF E
<1> HIDE DEF u
<1>8. ASSUME NEW i \in 1..next, order[i] \in Refs(u)
      PROVE  ~bDone' /\ \E j \in i + 1..next : order[i] \in Refs(value[order[j]])
  <2>1. i \in 1..N /\ (i = next \/ i \in 1..next - 1)
    BY <1>1
  <2>2. CASE m \notin Refs(t)
    <3>1. order[i] \in Refs(t)
      BY <1>7, <1>8, <2>2
    <3>2. i # next
      BY <2>2, <3>1 DEF m
    <3>3. i \in 1..next - 1
      BY <2>1, <3>2
    <3>4. ~bDone /\ \E j \in i + 1..next - 1 : order[i] \in Refs(value[order[j]])
      BY <3>1, <3>3 DEF BufferInv, t
    <3>5. \A j \in i + 1..next - 1 : j \in i + 1..next
      BY <1>1, <2>1
    <3> QED
      BY <1>3, <3>4, <3>5
  <2>3. CASE m \in Refs(t)
    <3>1. ~bDone'
      BY <1>3, <2>3 DEF Refs, Refers
    <3>2. CASE order[i] \in Refs(value[m])
      <4>1. order[i] # m
        BY <1>2, <1>5, <3>2
      <4>2. i \in 1..next - 1
        BY <2>1, <4>1 DEF m
      <4>3. next \in i + 1..next
        BY <1>1, <4>2
      <4> QED
        BY <3>1, <3>2, <4>3 DEF m
    <3>3. CASE order[i] \notin Refs(value[m])
      <4>1. order[i] \in Refs(t) /\ order[i] # m
        BY <1>7, <1>8, <3>3
      <4>2. i \in 1..next - 1
        BY <2>1, <4>1 DEF m
      <4>3. \E j \in i + 1..next - 1 : order[i] \in Refs(value[order[j]])
        BY <4>1, <4>2 DEF BufferInv, t
      <4>4. \A j \in i + 1..next - 1 : j \in i + 1..next
        BY <1>1, <2>1
      <4> QED
        BY <3>1, <4>3, <4>4
    <3> QED
      BY <3>2, <3>3
  <2> QED
    BY <2>2, <2>3
<1> QED
  BY <1>3, <1>6, <1>7, <1>8 DEF t

LEMMA ListKept == ListInv /\ [ResolveNext]_resolveVars => ListInv'
<1> SUFFICES ASSUME ListInv, [ResolveNext]_resolveVars PROVE ListInv'
  OBVIOUS
<1> DEFINE N == Cardinality(Macros)
<1>1. N \in Nat /\ Len(order) = N
  BY OrderIs DEF ListInv
<1> HIDE DEF N
<1>2. /\ next \in 1..N + 1 /\ bDone \in BOOLEAN /\ resolved \in BOOLEAN
      /\ (resolved => bDone /\ next = N + 1)
  BY DEF ListInv, N
<1>3. ASSUME order' = order, value' = value, pString' = pString,
             next' \in 1..N + 1, bDone' \in BOOLEAN, resolved' \in BOOLEAN,
             resolved' => bDone' /\ next' = N + 1
      PROVE  ListInv'
  BY <1>3 DEF ListInv, N
<1>4. CASE ResolveMacro
  <2>1. /\ order' = order /\ value' = value /\ pString' = pString /\ resolved' = resolved
        /\ ~resolved /\ next <= Len(order) /\ next' = next + 1
    BY <1>4, Zenon DEF ResolveMacro
  <2>2. bDone' \in BOOLEAN
    BY <1>2, <1>4, Zenon DEF ResolveMacro
  <2> QED
    BY <1>1, <1>2, <1>3, <2>1, <2>2
<1>5. CASE EndPass
  <2>1. /\ order' = order /\ value' = value /\ pString' = pString
        /\ next > Len(order)
    BY <1>5 DEF EndPass
  <2>2. \/ bDone /\ resolved' = TRUE /\ next' = next /\ bDone' = bDone
        \/ next' = 1 /\ bDone' = TRUE /\ resolved' = FALSE
    BY <1>2, <1>5, Zenon DEF EndPass
  <2>3. next = N + 1 /\ 1 \in 1..N + 1
    BY <1>1, <1>2, <2>1
  <2>4. /\ next' \in 1..N + 1 /\ bDone' \in BOOLEAN /\ resolved' \in BOOLEAN
        /\ (resolved' => bDone' /\ next' = N + 1)
    BY <1>2, <2>2, <2>3, Zenon
  <2> QED
    BY <1>3, <2>1, <2>4
<1>6. CASE Resolved \/ UNCHANGED resolveVars
  <2>1. /\ order' = order /\ value' = value /\ pString' = pString
        /\ next' = next /\ bDone' = bDone /\ resolved' = resolved
    BY <1>6 DEF Resolved, resolveVars
  <2> QED
    BY <1>2, <1>3, <2>1
<1> QED
  BY <1>4, <1>5, <1>6 DEF ResolveNext

LEMMA GreedyKept == GreedyInv /\ [ResolveNext]_resolveVars => GreedyInv'
<1> SUFFICES ASSUME GreedyInv, [ResolveNext]_resolveVars PROVE GreedyInv'
  OBVIOUS
<1>1. ListInv /\ ListInv'
  BY ListKept DEF GreedyInv
<1>2. /\ value' = value /\ pString' = pString /\ order' = order /\ isCondition' = isCondition
  BY DEF ResolveNext, ResolveMacro, EndPass, Resolved, resolveVars
<1>3. ReferencesStand' <=> ReferencesStand
  BY <1>2 DEF ReferencesStand, Separated, Free, ComesLate
<1>4. Expanded' = Expanded
  BY <1>2, Zenon DEF Expanded
<1> SUFFICES ASSUME ~isCondition, ReferencesStand PROVE BufferInv'
  BY <1>1, <1>2, <1>3 DEF GreedyInv
<1>5. BufferInv
  BY DEF GreedyInv
<1>6. Separated(buffer1, TRUE)' <=> Separated(buffer1', TRUE)
  BY <1>2 DEF Separated
<1>7. ASSUME /\ bDoReplace' /\ buffer1' \in Strings /\ Separated(buffer1', TRUE)
             /\ Scan(buffer1', Expanded) = Scan(pString, Expanded),
             \A i \in 1..next' - 1 :
               order[i] \in Refs(buffer1') =>
                 ~bDone' /\ \E j \in i + 1..next' - 1 : order[i] \in Refs(value[order[j]])
      PROVE  BufferInv'
  <2>1. /\ bDoReplace' /\ buffer1' \in Strings' /\ Separated(buffer1, TRUE)'
        /\ Scan(buffer1', Expanded') = Scan(pString', Expanded')
    BY <1>2, <1>4, <1>6, <1>7 DEF Strings, Symbols
  <2>2. \A i \in 1..next' - 1 :
               order'[i] \in Refs(buffer1)' =>
                 ~bDone' /\ \E j \in i + 1..next' - 1 : order'[i] \in Refs(value'[order'[j]])
    BY <1>2, <1>7 DEF Refs
  <2> QED
    BY <2>1, <2>2 DEF BufferInv
<1>8. next \in Nat
  BY <1>1 DEF ListInv
<1>9. CASE ResolveMacro
  <2>1. /\ bDoReplace' /\ buffer1' \in Strings /\ Separated(buffer1', TRUE)
        /\ Scan(buffer1', Expanded) = Scan(pString, Expanded)
        /\ \A i \in 1..next :
              order[i] \in Refs(buffer1') =>
                ~bDone' /\ \E j \in i + 1..next : order[i] \in Refs(value[order[j]])
    BY <1>1, <1>5, <1>9, MacroKept
  <2>2. next' - 1 = next
    BY <1>8, <1>9 DEF ResolveMacro
  <2> QED
    BY <1>7, <2>1, <2>2
<1>10. CASE EndPass
  <2>1. buffer1' = buffer1 /\ bDoReplace'
    BY <1>5, <1>10 DEF EndPass, BufferInv
  <2>2. CASE next' = 1
    <3>1. \A i \in 1..next' - 1 : FALSE
      BY <2>2
    <3> QED
      BY <1>5, <1>7, <2>1, <3>1 DEF BufferInv
  <2>3. CASE next' = next /\ bDone' = bDone
    BY <1>5, <1>7, <2>1, <2>3 DEF BufferInv
  <2> QED
    BY <1>10, <2>2, <2>3 DEF EndPass
<1>11. CASE Resolved \/ UNCHANGED resolveVars
  <2>1. buffer1' = buffer1 /\ bDoReplace' = bDoReplace /\ next' = next /\ bDone' = bDone
    BY <1>11 DEF Resolved, resolveVars
  <2> QED
    BY <1>5, <1>7, <2>1 DEF BufferInv
<1> QED
  BY <1>9, <1>10, <1>11 DEF ResolveNext

(***************************************************************************)
(* THE LONGEST MATCH: where no replacement makes, extends or cuts off a    *)
(* reference, a string comes out as one scan of it reads it.               *)
(***************************************************************************)
THEOREM MatchIsGreedy == ResolveSpec => []GreedyMatch
<1>1. ResolveInit => GreedyInv
  <2> SUFFICES ASSUME ResolveInit PROVE GreedyInv
    OBVIOUS
  <2>1. 1 \in 1..Cardinality(Macros) + 1
    <3>1. Cardinality(Macros) \in Nat
      BY ResolveAssumption, FS_CardinalityType
    <3> QED
      BY <3>1
  <2>2. ListInv
    BY <2>1, Zenon DEF ResolveInit, ListInv
  <2>3. ASSUME ReferencesStand PROVE BufferInv
    <3>1. buffer1 = pString /\ next = 1 /\ bDoReplace /\ pString \in Strings
      BY SymbolsTyped DEF ResolveInit
    <3>2. Separated(buffer1, TRUE)
      BY <2>3, <3>1 DEF ReferencesStand
    <3>3. \A i \in 1..next - 1 : FALSE
      BY <3>1
    <3> QED
      BY <3>1, <3>2, <3>3 DEF BufferInv
  <2> QED
    BY <2>2, <2>3 DEF GreedyInv
<1>2. GreedyInv => GreedyMatch
  <2> SUFFICES ASSUME GreedyInv, resolved, ~isCondition, ReferencesStand
               PROVE  buffer1 = Scan(pString, Expanded)
    BY DEF GreedyMatch
  <2>1. ListInv /\ BufferInv
    BY DEF GreedyInv
  <2>2. /\ Cardinality(Macros) \in Nat /\ bDone /\ next - 1 = Cardinality(Macros)
        /\ \A m \in Macros : \E i \in 1..Cardinality(Macros) : order[i] = m
    BY <2>1, OrderIs DEF ListInv
  <2>3. Refs(buffer1) = {}
    <3> SUFFICES ASSUME NEW m \in Refs(buffer1) PROVE FALSE
      OBVIOUS
    <3>1. m \in Macros
      BY DEF Refs
    <3>2. PICK i \in 1..next - 1 : order[i] = m
      BY <2>2, <3>1
    <3> QED
      BY <2>1, <2>2, <3>2 DEF BufferInv
  <2>4. "$" \notin NameSymbols /\ Expanded \in [Macros -> Strings]
    BY <2>1, ValuesStand
  <2>5. Scan(buffer1, Expanded) = buffer1
    <3>1. buffer1 \in Strings /\ Separated(buffer1, TRUE)
      BY <2>1 DEF BufferInv
    <3> QED
      BY <2>3, <2>4, <3>1, ScanReads
  <2> QED
    BY <2>1, <2>5 DEF BufferInv
<1> QED
  BY <1>1, <1>2, GreedyKept, PTL DEF ResolveSpec
=============================================================================
