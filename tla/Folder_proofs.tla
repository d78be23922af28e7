---------------------------- MODULE Folder_proofs ----------------------------
(***************************************************************************)
(* A $Folder is read as it is written (FoldersReadAsWritten), for every    *)
(* tree of items, every set of files that are missing, unresolved, sources *)
(* or have a build step.                                                   *)
(*                                                                         *)
(* The items of a folder are numbered; Place says at which token an item   *)
(* begins (TreeLaid), and Told what the items before it say, in the words  *)
(* of the tree.  The invariant: the parser is at an item, and has told     *)
(* what is before it, or works on a file of one (Works); its folders, its  *)
(* unity files and the braces behind it are those of that place.  There is *)
(* a lemma for each action: it leads to a place again, or out of the text. *)
(***************************************************************************)
EXTENDS FolderScript, Iteration, SequenceTheorems, FiniteSetTheorems, TLAPS

-----------------------------------------------------------------------------
(***************************************************************************)
(* The places of a text.  Context 0 is the outermost folder, context c the *)
(* folder that is its item c; place (c, k) is item k of the context, or    *)
(* the brace behind its last item.                                         *)
(***************************************************************************)
\* The item of the outermost folder that a place is in.
Top(c, k) == IF c = 0 THEN k ELSE c

Contexts(t) == {0} \cup {i \in DOMAIN t : t[i].word \in FolderWords}
ItemsOf(t, c) == IF c = 0 THEN t ELSE t[c].inner

\* The tokens of the items, item by item.
PartsOf(t, c) ==
  IF c = 0
  THEN [i \in DOMAIN t |->
          IF t[i].word \in FolderWords
          THEN <<Lexeme(t[i].word, << >>, << >>), OpenBrace>>
                 \o Leaves(t[i].inner) \o <<CloseBrace>>
          ELSE LeafTokens(t[i])]
  ELSE [i \in DOMAIN t[c].inner |-> LeafTokens(t[c].inner[i])]

\* Where item k of a folder begins, or the brace at its end.
Place(t, c, k) ==
  (IF c = 0 THEN 0 ELSE Ends(PartsOf(t, 0))[c - 1] + 2) + Ends(PartsOf(t, c))[k - 1] + 1

\* The configuration that is active at a place.
ActiveIn(t, c, k) ==
  IF c = 0 THEN ActiveAt(t, k, << >>) ELSE ActiveAt(t[c].inner, k, ActiveAt(t, c, << >>))

\* Unity files: their number, those seen at a place, the current one, the stack.
OwnUnity(o) == IF o = "$Unity" THEN 1 ELSE 0
Number(t, o, i) == OwnUnity(o) + Cardinality({j \in 1..i : t[j].word = "$Unity"})
SeenAt(t, o, c, k) == IF c = 0 THEN Number(t, o, k - 1) ELSE Number(t, o, c)
UnityOf(t, o, c) == IF c # 0 /\ t[c].word = "$Unity" THEN Number(t, o, c) ELSE OwnUnity(o)
StackAt(t, o, c) ==
  (IF o = "$Unity" THEN <<1>> ELSE << >>)
    \o (IF c # 0 /\ t[c].word = "$Unity" THEN <<Number(t, o, c)>> ELSE << >>)

\* The folders that are open at a place.
OpenAt(t, o, c, k) ==
  LET outermost == [active |-> ActiveAt(t, Top(c, k), << >>), bUnity |-> o = "$Unity"]
  IN  IF c = 0 THEN <<outermost>>
      ELSE <<outermost, [active |-> ActiveIn(t, c, k), bUnity |-> t[c].word = "$Unity"]>>

\* What item k of a folder says, and what is told when it is reached.
Means(t, o, c, k) == ItemFacts(ItemsOf(t, c)[k], ActiveIn(t, c, k), UnityOf(t, o, c))

Precedes(d, i, c, k) == IF d = c THEN i < k ELSE Top(d, i) < Top(c, k)

Told(t, o, c, k) ==
  {UnityFile(n) : n \in 1..SeenAt(t, o, c, k)} \cup
  UNION {UNION {Means(t, o, d, i) : i \in {l \in DOMAIN ItemsOf(t, d) : Precedes(d, l, c, k)}} :
           d \in Contexts(t)}

-----------------------------------------------------------------------------
\* Texts without the lists that the code mishandles, for the braces and the facts.
Calm == ~(\E item \in AllItems : SectionUnread(item))
Clean == ~(\E item \in AllItems : SectionUnread(item) \/ MissingTwice(item))

\* The files of an item, as VPC_Keyword_AddFile lists them.
FilesOf(item) ==
  LET listed == NamesWith(item.list, {"none", "true"})
  IN IF item.word = "$DynamicFile" THEN listed ELSE CheckFiles(listed)

\* Before file j of an item: whether its section was parsed, and what was told.
AnyRead(item, j) == \E m \in 1..(j - 1) : FilesOf(item)[m] \notin Unresolved

ToldOf(item, active, unity, j) ==
  {<<f, "excluded", 0>> : f \in ToSet(NamesWith(item.list, {"false"}))}
     \cup UNION {FileFacts(FilesOf(item)[m], item, active, unity) : m \in 1..(j - 1)}

\* What is told of a file once m configurations of its section are read.
Begun(f, confs, m) ==
  {<<f, "added", 0>>} \cup StepSettings(f) \cup {<<f, "configured", confs[i]>> : i \in 1..m}

\* n folders are open for the braces before i.
Balanced(i, n) == n = 1 + BracesBefore(i, OpenBrace) - BracesBefore(i, CloseBrace)

\* The parser is at place (c, k), and has told what is before it.
AtItem(c, k) ==
  /\ pending = NothingPending
  /\ ~reading
  /\ at = Place(tree, c, k)
  /\ Clean => facts = Told(tree, outer, c, k)

\* It works on file j of that item: between two files, or in the section of one.
Works(c, k, item, j) ==
  LET start == Place(tree, c, k) + (IF item.section THEN 2 ELSE 1)
      told == Told(tree, outer, c, k)
                \cup ToldOf(item, ActiveIn(tree, c, k), UnityOf(tree, outer, c), j)
  IN /\ item.word \in FileWords
     /\ j \in 1..(Len(FilesOf(item)) + 1)
     /\ item.section => FilesOf(item) # << >>
     /\ pending = [files |-> FilesOf(item), k |-> j, start |-> start,
                   section |-> item.section, plain |-> Plain(item.list)]
     /\ \/ /\ ~reading
           /\ at = IF item.section /\ ~AnyRead(item, j) THEN start ELSE Place(tree, c, k + 1)
           /\ Clean => facts = told
        \/ /\ reading
           /\ item.section
           /\ j <= Len(FilesOf(item))
           /\ FilesOf(item)[j] \notin Unresolved
           /\ \E m \in 0..Len(item.confs) :
                /\ at = start + m
                /\ had = (m > 0)
                /\ Clean => facts = told \cup Begun(FilesOf(item)[j], item.confs, m)

\* The folders that are open, and the braces before.
Inside(c, k) ==
  /\ folders = OpenAt(tree, outer, c, k)
  /\ unitySeen = SeenAt(tree, outer, c, k)
  /\ unityStack = StackAt(tree, outer, c)
  /\ Balanced(Place(tree, c, k), Len(folders))

Here(c, k) ==
  /\ Inside(c, k)
  /\ \/ AtItem(c, k)
     \/ /\ k <= Len(ItemsOf(tree, c))
        /\ \E j \in 1..(Len(FilesOf(ItemsOf(tree, c)[k])) + 1) : Works(c, k, ItemsOf(tree, c)[k], j)

\* The outermost folder has ended.
Finished ==
  /\ folders = << >>
  /\ pending = NothingPending
  /\ ~reading
  /\ Balanced(at, 0)
  /\ Clean => facts = Meant

Spot(c, k) == c \in Contexts(tree) /\ k \in 1..(Len(ItemsOf(tree, c)) + 1)

\* The text is that of a tree.
Written == tree \in Trees /\ outer \in Outer /\ text = Tokens(tree)

FolderInv ==
  /\ Written
  /\ Calm => Finished \/ \E c, k : Spot(c, k) /\ Here(c, k)

StaysWritten == tree' = tree /\ outer' = outer /\ text' = text

-----------------------------------------------------------------------------
(***************************************************************************)
(* The file lists: what KeepAt keeps, and what the check for missing files *)
(* leaves of a list.                                                       *)
(***************************************************************************)
LEMMA AppendedTo ==
  ASSUME NEW S, NEW x \in Seq(S), NEW e \in S
  PROVE  Append(x, e) \in Seq(S) /\ ToSet(Append(x, e)) = ToSet(x) \cup {e}
<1>1. /\ Append(x, e) \in Seq(S) /\ Len(x) \in Nat
      /\ DOMAIN x = 1..Len(x) /\ DOMAIN Append(x, e) = 1..(Len(x) + 1)
      /\ \A i \in 1..Len(x) : Append(x, e)[i] = x[i]
      /\ Append(x, e)[Len(x) + 1] = e
  BY LenProperties, AppendProperties
<1> DEFINE y == Append(x, e)
<1> HIDE DEF y
<1>2. ToSet(y) \subseteq ToSet(x) \cup {e}
  <2>1. ASSUME NEW i \in 1..(Len(x) + 1) PROVE y[i] \in ToSet(x) \cup {e}
    <3>1. CASE i \in 1..Len(x)
      BY <1>1, <3>1 DEF ToSet, y
    <3>2. CASE i = Len(x) + 1
      BY <1>1, <3>2 DEF y
    <3> QED
      BY <1>1, <3>1, <3>2
  <2> QED
    BY <1>1, <2>1 DEF ToSet, y
<1>3. ToSet(x) \cup {e} \subseteq ToSet(y)
  <2>1. \A i \in 1..Len(x) : i \in 1..(Len(x) + 1)
    BY <1>1
  <2>2. Len(x) + 1 \in 1..(Len(x) + 1)
    BY <1>1
  <2> QED
    BY <1>1, <2>1, <2>2 DEF ToSet, y
<1> QED
  BY <1>1, <1>2, <1>3 DEF y

\* KeepAt keeps the elements at the positions in P and no others.
LEMMA KeptThere ==
  ASSUME NEW S, NEW s \in Seq(S), NEW P
  PROVE  KeepAt(s, P) \in Seq(S) /\ ToSet(KeepAt(s, P)) = {s[i] : i \in P \cap 1..Len(s)}
<1> DEFINE n == Len(s)
           Q == Seq(S)
           Def(f) == f = [k \in 0..n |-> IF k = 0 THEN << >>
                                         ELSE IF k \in P THEN Append(f[k - 1], s[k]) ELSE f[k - 1]]
           kept == CHOOSE f : Def(f)
           G == [p \in (1..n) \X Q |-> IF p[1] \in P THEN Append(p[2], s[p[1]]) ELSE p[2]]
<1>1. KeepAt(s, P) = kept[n]
  BY Zenon DEF KeepAt
<1>2. n \in Nat /\ \A k \in 1..n : s[k] \in S
  BY LenProperties, ElementOfSeq
<1>3. G \in [(1..n) \X Q -> Q]
  <2>1. ASSUME NEW p \in (1..n) \X Q PROVE G[p] \in Q
    <3>1. p[1] \in 1..n /\ p[2] \in Q
      OBVIOUS
    <3>2. Append(p[2], s[p[1]]) \in Q
      BY <1>2, <3>1, AppendProperties
    <3> QED
      BY <3>1, <3>2
  <2> QED
    BY <2>1
<1>4. PICK f \in [0..n -> Q] : IsSteps(G, << >>, n, f)
  <2>1. << >> \in Q
    BY EmptySeq
  <2> HIDE DEF G, Q
  <2> QED
    BY <1>2, <1>3, <2>1, StepsExist, Zenon
<1>5. Def(f)
  <2>1. ASSUME NEW k \in 1..n
        PROVE  G[<<k, f[k - 1]>>] = IF k \in P THEN Append(f[k - 1], s[k]) ELSE f[k - 1]
    <3>1. f[k - 1] \in Q
      <4>1. k - 1 \in 0..n
        BY <1>2
      <4> HIDE DEF Q
      <4> QED
        BY <1>4, <4>1
    <3> QED
      BY <3>1
  <2> HIDE DEF G
  <2>2. \A k \in 0..n : f[k] = IF k = 0 THEN << >> ELSE G[<<k, f[k - 1]>>]
    BY <1>4, Zenon DEF IsSteps
  <2>3. \A k \in 0..n : k # 0 => k \in 1..n
    BY <1>2
  <2>4. \A k \in 0..n : f[k] = IF k = 0 THEN << >>
                              ELSE IF k \in P THEN Append(f[k - 1], s[k]) ELSE f[k - 1]
    BY <2>1, <2>2, <2>3, Zenon
  <2> QED
    BY <1>4, <2>4
<1>6. Def(kept)
  BY <1>5, Zenon
<1>7. /\ kept[0] = << >>
      /\ \A k \in 1..n : kept[k] = IF k \in P THEN Append(kept[k - 1], s[k]) ELSE kept[k - 1]
  <2> HIDE DEF kept
  <2>1. \A k \in 0..n : kept[k] = IF k = 0 THEN << >>
                                  ELSE IF k \in P THEN Append(kept[k - 1], s[k]) ELSE kept[k - 1]
    BY <1>6, Zenon
  <2>2. 0 \in 0..n /\ \A k \in 1..n : k \in 0..n /\ k # 0
    BY <1>2
  <2> QED
    BY <2>1, <2>2, Zenon
<1> HIDE DEF kept, Def, G
<1> DEFINE Holds(k) == kept[k] \in Seq(S) /\ ToSet(kept[k]) = {s[i] : i \in P \cap 1..k}
           T == {k \in Nat : k <= n => Holds(k)}
<1>8. 0 \in T
  <2>1. << >> \in Seq(S) /\ ToSet(<< >>) = {}
    BY EmptySeq DEF ToSet
  <2>2. P \cap 1..0 = {}
    OBVIOUS
  <2> QED
    BY <1>7, <2>1, <2>2
<1>9. ASSUME NEW k \in Nat, k \in T PROVE k + 1 \in T
  <2> SUFFICES ASSUME k + 1 <= n PROVE Holds(k + 1)
    OBVIOUS
  <2>1. k + 1 \in 1..n /\ k + 1 - 1 = k /\ Holds(k) /\ s[k + 1] \in S
    BY <1>2, <1>9
  <2>2. kept[k + 1] = IF k + 1 \in P THEN Append(kept[k], s[k + 1]) ELSE kept[k]
    BY <1>7, <2>1
  <2>3. 1..(k + 1) = 1..k \cup {k + 1}
    OBVIOUS
  <2>4. CASE k + 1 \in P
    <3>1. /\ Append(kept[k], s[k + 1]) \in Seq(S)
          /\ ToSet(Append(kept[k], s[k + 1])) = ToSet(kept[k]) \cup {s[k + 1]}
      BY <2>1, AppendedTo
    <3>2. {s[i] : i \in P \cap 1..(k + 1)} = {s[i] : i \in P \cap 1..k} \cup {s[k + 1]}
      BY <2>3, <2>4, Zenon
    <3> QED
      BY <2>1, <2>2, <2>4, <3>1, <3>2
  <2>5. CASE k + 1 \notin P
    <3>1. P \cap 1..(k + 1) = P \cap 1..k
      BY <2>3, <2>5
    <3> QED
      BY <2>1, <2>2, <2>5, <3>1
  <2> QED
    BY <2>4, <2>5
<1>10. Holds(n)
  <2>1. Nat \subseteq T
    <3> HIDE DEF T
    <3> QED
      BY <1>8, <1>9, NumbersInduction
  <2>2. n \in T
    BY <1>2, <2>1
  <2>3. n <= n => Holds(n)
    BY <2>2, Zenon
  <2> QED
    BY <1>2, <2>3
<1> HIDE DEF T
<1> QED
  BY <1>1, <1>10

(***************************************************************************)
(* The check for missing files keeps every file that is there, and drops   *)
(* every other one when no two of them follow each other.                  *)
(***************************************************************************)
LEMMA FilesChecked ==
  ASSUME NEW S, NEW files \in Seq(S)
  PROVE  /\ CheckFiles(files) \in Seq(S)
         /\ ToSet(files) \ Missing \subseteq ToSet(CheckFiles(files))
         /\ ToSet(CheckFiles(files)) \subseteq ToSet(files)
         /\ (\A i \in 1..(Len(files) - 1) : ~(files[i] \in Missing /\ files[i + 1] \in Missing))
              => ToSet(CheckFiles(files)) \cap Missing = {}
<1> DEFINE n == Len(files)
           Def(f) == f = [k \in 0..n |-> IF k = 0 THEN FALSE
                                         ELSE k > 1 /\ files[k - 1] \in Missing /\ ~f[k - 1]]
           skipped == CHOOSE f : Def(f)
           P == {k \in DOMAIN files : skipped[k] \/ files[k] \notin Missing}
           G == [p \in (1..n) \X BOOLEAN |-> p[1] > 1 /\ files[p[1] - 1] \in Missing /\ ~p[2]]
<1>1. CheckFiles(files) = KeepAt(files, P)
  BY Zenon DEF CheckFiles
<1>2. n \in Nat /\ DOMAIN files = 1..n
  BY LenProperties
<1>3. /\ CheckFiles(files) \in Seq(S)
      /\ ToSet(CheckFiles(files)) = {files[i] : i \in P \cap 1..n}
  <2> HIDE DEF P
  <2> QED
    BY <1>1, KeptThere
<1>4. \A k \in 1..n : skipped[k] => k > 1 /\ files[k - 1] \in Missing
  <2>1. PICK f \in [0..n -> BOOLEAN] : IsSteps(G, FALSE, n, f)
    <3>1. G \in [(1..n) \X BOOLEAN -> BOOLEAN] /\ FALSE \in BOOLEAN
      OBVIOUS
    <3> HIDE DEF G
    <3> QED
      BY <1>2, <3>1, StepsExist, Zenon
  <2>2. Def(f)
    <3>1. ASSUME NEW k \in 1..n
          PROVE  G[<<k, f[k - 1]>>] = (k > 1 /\ files[k - 1] \in Missing /\ ~f[k - 1])
      <4>1. f[k - 1] \in BOOLEAN
        <5>1. k - 1 \in 0..n
          BY <1>2
        <5> QED
          BY <2>1, <5>1
      <4> QED
        BY <4>1
    <3> HIDE DEF G
    <3>2. \A k \in 0..n : f[k] = IF k = 0 THEN FALSE ELSE G[<<k, f[k - 1]>>]
      BY <2>1, Zenon DEF IsSteps
    <3>3. \A k \in 0..n : k # 0 => k \in 1..n
      BY <1>2
    <3>4. \A k \in 0..n : f[k] = IF k = 0 THEN FALSE
                                ELSE k > 1 /\ files[k - 1] \in Missing /\ ~f[k - 1]
      BY <3>1, <3>2, <3>3, Zenon
    <3> QED
      BY <2>1, <3>4, Zenon
  <2>3. Def(skipped)
    BY <2>2, Zenon
  <2> HIDE DEF skipped
  <2>4. \A k \in 0..n : skipped[k] = IF k = 0 THEN FALSE
                                     ELSE k > 1 /\ files[k - 1] \in Missing /\ ~skipped[k - 1]
    BY <2>3, Zenon
  <2>5. \A k \in 1..n : k \in 0..n /\ k # 0
    BY <1>2
  <2> QED
    BY <2>4, <2>5, Zenon
<1> HIDE DEF skipped, G, Def
<1>5. ToSet(files) \ Missing \subseteq ToSet(CheckFiles(files))
  BY <1>2, <1>3 DEF ToSet
<1>6. ToSet(CheckFiles(files)) \subseteq ToSet(files)
  BY <1>2, <1>3 DEF ToSet
<1>7. ASSUME \A i \in 1..(n - 1) : ~(files[i] \in Missing /\ files[i + 1] \in Missing)
      PROVE  ToSet(CheckFiles(files)) \cap Missing = {}
  <2>1. ASSUME NEW k \in 1..n, k \in P PROVE files[k] \notin Missing
    <3>1. CASE skipped[k]
      <4>1. k - 1 \in 1..(n - 1) /\ k - 1 + 1 = k /\ files[k - 1] \in Missing
        BY <1>2, <1>4, <3>1
      <4> QED
        BY <1>7, <4>1
    <3> QED
      BY <2>1, <3>1
  <2> QED
    BY <1>3, <2>1
<1> QED
  BY <1>3, <1>5, <1>6, <1>7

\* The names of a list are names of its entries.
LEMMA NamesTyped ==
  ASSUME NEW list, list \in Seq(ToSet(list)), NEW conditions
  PROVE  NamesWith(list, conditions) \in Seq({e.name : e \in ToSet(list)})
<1> DEFINE S == ToSet(list)
           P == {i \in DOMAIN list : list[i].cond \in conditions}
           chosen == KeepAt(list, P)
           names == [i \in DOMAIN chosen |-> chosen[i].name]
<1>1. NamesWith(list, conditions) = names
  BY DEF NamesWith
<1>2. chosen \in Seq(S)
  <2> HIDE DEF P, S
  <2> QED
    BY KeptThere DEF S
<1> HIDE DEF chosen
<1>3. /\ Len(chosen) \in Nat /\ DOMAIN chosen = 1..Len(chosen)
      /\ \A i \in 1..Len(chosen) : chosen[i] \in S
  <2> HIDE DEF S
  <2> QED
    BY <1>2, LenProperties, ElementOfSeq
<1>4. names \in [1..Len(chosen) -> {e.name : e \in S}]
  <2> HIDE DEF S
  <2> QED
    BY <1>3
<1>5. names \in Seq({e.name : e \in S})
  <2> HIDE DEF S, names
  <2> QED
    BY <1>3, <1>4, SeqDef
<1> QED
  BY <1>1, <1>5

\* What is made of the list of a $File, against the files that are there.
LEMMA FilesFound ==
  ASSUME NEW item, item.list \in Seq(ToSet(item.list)), item.word \in FileWords
  PROVE  LET files == FilesOf(item)
         IN  /\ Len(files) \in Nat /\ ToSet(files) = {files[m] : m \in 1..Len(files)}
             /\ files = << >> <=> Len(files) = 0
             /\ Existing(item) \subseteq ToSet(files)
             /\ ToSet(files) \subseteq Existing(item) \cup Missing
             /\ ~MissingTwice(item) => ToSet(files) = Existing(item)
<1> DEFINE listed == NamesWith(item.list, {"none", "true"})
           files == FilesOf(item)
           S == {e.name : e \in ToSet(item.list)}
<1>1. listed \in Seq(S)
  BY NamesTyped
<1> HIDE DEF listed, S
<1>2. /\ CheckFiles(listed) \in Seq(S)
      /\ ToSet(listed) \ Missing \subseteq ToSet(CheckFiles(listed))
      /\ ToSet(CheckFiles(listed)) \subseteq ToSet(listed)
      /\ (\A i \in 1..(Len(listed) - 1) : ~(listed[i] \in Missing /\ listed[i + 1] \in Missing))
           => ToSet(CheckFiles(listed)) \cap Missing = {}
  BY <1>1, FilesChecked
<1>3. files = IF item.word = "$DynamicFile" THEN listed ELSE CheckFiles(listed)
  BY DEF FilesOf, listed
<1>4. Existing(item) = IF item.word = "$DynamicFile" THEN ToSet(listed) ELSE ToSet(listed) \ Missing
  BY DEF Existing, listed
<1>5. MissingTwice(item) <=> /\ item.word = "$File"
                             /\ \E i \in 1..(Len(listed) - 1) :
                                  listed[i] \in Missing /\ listed[i + 1] \in Missing
  BY DEF MissingTwice, listed
<1>6. files \in Seq(S)
  BY <1>1, <1>2, <1>3
<1> HIDE DEF files
<1>7. /\ Len(files) \in Nat /\ ToSet(files) = {files[m] : m \in 1..Len(files)}
      /\ files = << >> <=> Len(files) = 0
  BY <1>6, LenProperties, EmptySeq DEF ToSet
<1>8. CASE item.word = "$DynamicFile"
  BY <1>3, <1>4, <1>7, <1>8 DEF files
<1>9. CASE item.word = "$File"
  <2>1. files = CheckFiles(listed) /\ Existing(item) = ToSet(listed) \ Missing
    BY <1>3, <1>4, <1>9
  <2>2. ~MissingTwice(item) => ToSet(files) \cap Missing = {}
    BY <1>2, <1>5, <1>9, <2>1
  <2> QED
    BY <1>2, <1>7, <2>1, <2>2 DEF files
<1> QED
  BY <1>8, <1>9 DEF FileWords

-----------------------------------------------------------------------------
(***************************************************************************)
(* The tokens: where each item of a tree lies in the text.                 *)
(***************************************************************************)
Lexemes(L, C) == [word : FileWords \cup FolderWords \cup {"$Configuration", "{", "}"},
                  list : L, conf : C]

\* The lists and configurations of an item are among L and C.
Within(item, L, C) == item.list \in L /\ \A y \in ToSet(item.confs) : <<y>> \in C

Widest(L, C) == << >> \in L /\ << >> \in C

\* The tokens of a leaf, one by one.
LEMMA LeafTokensAre ==
  ASSUME NEW L, NEW C, Widest(L, C), NEW item, IsLeaf(item), Within(item, L, C)
  PROVE  LET tokens == LeafTokens(item)
             n == Len(item.confs)
         IN  /\ n \in Nat
             /\ tokens \in Seq(Lexemes(L, C))
             /\ item.word = "$Configuration" =>
                  /\ Len(tokens) = 1
                  /\ tokens[1] = Lexeme("$Configuration", << >>, item.confs)
             /\ item.word \in FileWords =>
                  /\ Len(tokens) = IF item.section THEN n + 3 ELSE 1
                  /\ tokens[1] = Lexeme(item.word, item.list, << >>)
                  /\ item.section =>
                       /\ tokens[2] = OpenBrace
                       /\ \A m \in 1..n :
                            tokens[m + 2] = Lexeme("$Configuration", << >>, <<item.confs[m]>>)
                       /\ tokens[n + 3] = CloseBrace
<1> DEFINE S == Lexemes(L, C)
           n == Len(item.confs)
           K == Configurations(item.confs)
           tokens == LeafTokens(item)
<1>1. /\ n \in Nat /\ DOMAIN item.confs = 1..n
      /\ \A m \in 1..n : item.confs[m] \in ToSet(item.confs)
  BY LenProperties, ElementOfSeq DEF IsLeaf
<1>2. /\ K \in Seq(S) /\ Len(K) = n
      /\ \A m \in 1..n : K[m] = Lexeme("$Configuration", << >>, <<item.confs[m]>>)
  <2>1. K = [m \in 1..n |-> Lexeme("$Configuration", << >>, <<item.confs[m]>>)]
    BY <1>1 DEF Configurations
  <2>2. ASSUME NEW m \in 1..n
        PROVE  Lexeme("$Configuration", << >>, <<item.confs[m]>>) \in S
    <3>1. << >> \in L /\ <<item.confs[m]>> \in C
      BY <1>1 DEF Widest, Within
    <3> QED
      BY <3>1 DEF Lexeme, Lexemes
  <2>3. K \in [1..n -> S]
    <3> HIDE DEF S, K
    <3> QED
      BY <2>1, <2>2
  <2> HIDE DEF K, S
  <2>4. K \in Seq(S)
    BY <1>1, <2>3, SeqDef
  <2>5. Len(K) = n
    BY <1>1, <2>3, <2>4, LenProperties
  <2> QED
    BY <2>1, <2>4, <2>5
<1>3. OpenBrace \in S /\ CloseBrace \in S
  BY DEF Widest, Lexeme, Lexemes, OpenBrace, CloseBrace
<1> HIDE DEF S, K
<1>4. CASE item.word = "$Configuration"
  <2>1. tokens = K
    BY <1>4 DEF LeafTokens, K
  <2>2. n = 1
    BY <1>4 DEF IsLeaf, FileWords
  <2>3. item.confs = <<item.confs[1]>>
    BY <1>1, <2>2 DEF IsLeaf
  <2>4. item.word \notin FileWords
    BY <1>4 DEF FileWords
  <2>5. 1 \in 1..n
    BY <2>2
  <2>6. tokens[1] = Lexeme("$Configuration", << >>, item.confs)
    BY <1>2, <2>1, <2>3, <2>5, Zenon
  <2> QED
    BY <1>1, <1>2, <2>1, <2>2, <2>4, <2>6 DEF S
<1>5. CASE item.word \in FileWords
  <2> DEFINE word == Lexeme(item.word, item.list, << >>)
  <2>1. word \in S /\ item.word # "$Configuration"
    BY <1>5 DEF Widest, Within, Lexeme, Lexemes, FileWords, S
  <2>2. <<word>> \in Seq(S) /\ Len(<<word>>) = 1 /\ <<word>>[1] = word
    <3> HIDE DEF word
    <3> QED
      BY <2>1
  <2>3. CASE ~item.section
    <3>1. tokens = <<word>> \o << >>
      BY <1>5, <2>1, <2>3 DEF LeafTokens
    <3>2. tokens = <<word>>
      <4> HIDE DEF word, tokens
      <4> QED
        BY <2>2, <3>1, ConcatEmptySeq
    <3> HIDE DEF tokens, word
    <3>3. tokens \in Seq(S) /\ Len(tokens) = 1 /\ tokens[1] = word
      BY <2>2, <3>2
    <3> QED
      BY <1>1, <1>5, <2>1, <2>3, <3>3 DEF tokens, word, S
  <2>4. CASE item.section
    <3> DEFINE front == <<OpenBrace>> \o K
               body == front \o <<CloseBrace>>
    <3>1. tokens = <<word>> \o body
      BY <1>5, <2>1, <2>4 DEF LeafTokens, K
    <3>2. /\ <<OpenBrace>> \in Seq(S) /\ Len(<<OpenBrace>>) = 1 /\ <<OpenBrace>>[1] = OpenBrace
          /\ <<CloseBrace>> \in Seq(S) /\ Len(<<CloseBrace>>) = 1 /\ <<CloseBrace>>[1] = CloseBrace
      BY <1>3
    <3>3. /\ front \in Seq(S) /\ Len(front) = n + 1 /\ front[1] = OpenBrace
          /\ \A m \in 1..n : front[m + 1] = K[m]
      <4>1. /\ front \in Seq(S) /\ Len(front) = 1 + n
            /\ \A i \in 1..(1 + n) : front[i] = IF i <= 1 THEN <<OpenBrace>>[i] ELSE K[i - 1]
        BY <1>2, <3>2, ConcatProperties
      <4>2. 1 \in 1..(1 + n) /\ \A m \in 1..n : m + 1 \in 1..(1 + n) /\ ~(m + 1 <= 1) /\ m + 1 - 1 = m
        BY <1>1
      <4> HIDE DEF front
      <4> QED
        BY <1>1, <3>2, <4>1, <4>2
    <3> HIDE DEF front
    <3>4. /\ body \in Seq(S) /\ Len(body) = n + 2
          /\ \A i \in 1..(n + 1) : body[i] = front[i]
          /\ body[n + 2] = CloseBrace
      <4>1. /\ body \in Seq(S) /\ Len(body) = n + 1 + 1
            /\ \A i \in 1..(n + 1 + 1) :
                 body[i] = IF i <= n + 1 THEN front[i] ELSE <<CloseBrace>>[i - (n + 1)]
        BY <3>2, <3>3, ConcatProperties
      <4>2. /\ n + 2 \in 1..(n + 1 + 1) /\ ~(n + 2 <= n + 1) /\ n + 2 - (n + 1) = 1
            /\ \A i \in 1..(n + 1) : i \in 1..(n + 1 + 1) /\ i <= n + 1
        BY <1>1
      <4> HIDE DEF body
      <4> QED
        BY <1>1, <3>2, <4>1, <4>2
    <3> HIDE DEF body
    <3>5. /\ tokens \in Seq(S) /\ Len(tokens) = n + 3 /\ tokens[1] = word
          /\ \A i \in 1..(n + 2) : tokens[i + 1] = body[i]
      <4> DEFINE all == <<word>> \o body
      <4>1. /\ all \in Seq(S) /\ Len(all) = 1 + (n + 2)
            /\ \A i \in 1..(1 + (n + 2)) : all[i] = IF i <= 1 THEN <<word>>[i] ELSE body[i - 1]
        <5> HIDE DEF word
        <5> QED
          BY <2>2, <3>4, ConcatProperties
      <4>2. /\ 1 \in 1..(1 + (n + 2))
            /\ \A i \in 1..(n + 2) : i + 1 \in 1..(1 + (n + 2)) /\ ~(i + 1 <= 1) /\ i + 1 - 1 = i
        BY <1>1
      <4> HIDE DEF all, word, tokens
      <4>3. tokens = all
        BY <3>1 DEF all
      <4>4. 1 + (n + 2) = n + 3
        BY <1>1
      <4>5. \A i \in 1..(n + 2) : all[i + 1] = body[i]
        <5> TAKE i \in 1..(n + 2)
        <5>1. i + 1 \in 1..(1 + (n + 2)) /\ ~(i + 1 <= 1) /\ i + 1 - 1 = i
          BY <4>2
        <5>2. all[i + 1] = body[i + 1 - 1]
          BY <4>1, <5>1
        <5> QED
          BY <5>1, <5>2, Zenon
      <4>6. all[1] = word
        <5>1. 1 <= 1 /\ <<word>>[1] = word
          BY <2>2
        <5> QED
          BY <4>1, <4>2, <5>1, Zenon
      <4> QED
        BY <4>1, <4>3, <4>4, <4>5, <4>6, Zenon
    <3>6. tokens[2] = OpenBrace
      <4>1. 1 \in 1..(n + 2) /\ 1 \in 1..(n + 1)
        BY <1>1
      <4> QED
        BY <3>3, <3>4, <3>5, <4>1
    <3>7. \A m \in 1..n : tokens[m + 2] = Lexeme("$Configuration", << >>, <<item.confs[m]>>)
      <4> TAKE m \in 1..n
      <4>1. m + 1 \in 1..(n + 2) /\ m + 1 \in 1..(n + 1) /\ m + 1 + 1 = m + 2
        BY <1>1
      <4>2. tokens[m + 2] = K[m]
        <5> HIDE DEF tokens
        <5> QED
          BY <3>3, <3>4, <3>5, <4>1
      <4> QED
        BY <1>2, <4>2
    <3>8. tokens[n + 3] = CloseBrace
      <4>1. n + 2 \in 1..(n + 2) /\ n + 2 + 1 = n + 3
        BY <1>1
      <4> HIDE DEF tokens
      <4> QED
        BY <3>4, <3>5, <4>1
    <3> HIDE DEF tokens, word
    <3> QED
      BY <1>1, <1>5, <2>1, <2>4, <3>5, <3>6, <3>7, <3>8 DEF tokens, word, S
  <2> QED
    BY <2>3, <2>4
<1> QED
  BY <1>4, <1>5 DEF IsLeaf

\* A leaf that lies in b from p to before q.
LeafLies(b, p, item, q) ==
  /\ q - 1 <= Len(b)
  /\ item.word = "$Configuration" =>
       b[p] = Lexeme("$Configuration", << >>, item.confs) /\ q = p + 1
  /\ item.word \in FileWords =>
       /\ b[p] = Lexeme(item.word, item.list, << >>)
       /\ ~item.section => q = p + 1
       /\ item.section =>
            /\ b[p + 1] = OpenBrace
            /\ \A m \in 1..Len(item.confs) :
                 b[p + 1 + m] = Lexeme("$Configuration", << >>, <<item.confs[m]>>)
            /\ b[p + 2 + Len(item.confs)] = CloseBrace
            /\ q = p + 3 + Len(item.confs)

\* A leaf that lies in b is found there token by token.
LEMMA LeafPlaced ==
  ASSUME NEW L, NEW C, Widest(L, C), NEW item, IsLeaf(item), Within(item, L, C),
         NEW b, NEW o \in Nat, Lies(b, o, LeafTokens(item))
  PROVE  LeafLies(b, o + 1, item, o + Len(LeafTokens(item)) + 1)
<1> DEFINE n == Len(item.confs)
           tokens == LeafTokens(item)
<1>1. /\ n \in Nat
      /\ item.word = "$Configuration" =>
           /\ Len(tokens) = 1
           /\ tokens[1] = Lexeme("$Configuration", << >>, item.confs)
      /\ item.word \in FileWords =>
           /\ Len(tokens) = IF item.section THEN n + 3 ELSE 1
           /\ tokens[1] = Lexeme(item.word, item.list, << >>)
           /\ item.section =>
                /\ tokens[2] = OpenBrace
                /\ \A m \in 1..n :
                     tokens[m + 2] = Lexeme("$Configuration", << >>, <<item.confs[m]>>)
                /\ tokens[n + 3] = CloseBrace
  BY LeafTokensAre
<1>2. \A i \in 1..Len(tokens) : b[o + i] = tokens[i]
  BY DEF Lies
<1> HIDE DEF tokens
<1> DEFINE end == o + Len(tokens) + 1
<1>3. end - 1 <= Len(b)
  <2>1. o + Len(tokens) <= Len(b)
    BY DEF Lies, tokens
  <2>2. Len(tokens) \in Nat
    BY LeafTokensAre, LenProperties DEF tokens
  <2>3. o + Len(tokens) + 1 - 1 = o + Len(tokens)
    BY <2>2
  <2> QED
    BY <2>1, <2>3
<1> SUFFICES LeafLies(b, o + 1, item, end)
  BY DEF tokens
<1>4. CASE item.word = "$Configuration"
  <2>1. Len(tokens) = 1 /\ item.word \notin FileWords
    BY <1>1, <1>4, Zenon DEF FileWords
  <2>2. 1 \in 1..Len(tokens) /\ end = o + 1 + 1
    BY <2>1
  <2>3. b[o + 1] = tokens[1]
    BY <1>2, <2>2
  <2> HIDE DEF end
  <2> QED
    BY <1>1, <1>2, <1>4, <1>3, <2>1, <2>2, <2>3, Zenon DEF LeafLies
<1>5. CASE item.word \in FileWords /\ ~item.section
  <2>1. Len(tokens) = 1 /\ item.word # "$Configuration"
    BY <1>1, <1>5, Zenon DEF FileWords
  <2>2. 1 \in 1..Len(tokens) /\ end = o + 1 + 1
    BY <2>1
  <2>3. b[o + 1] = tokens[1]
    BY <1>2, <2>2
  <2> HIDE DEF end
  <2> QED
    BY <1>1, <1>2, <1>5, <1>3, <2>1, <2>2, <2>3, Zenon DEF LeafLies
<1>6. CASE item.word \in FileWords /\ item.section
  <2>1. Len(tokens) = n + 3 /\ item.word # "$Configuration" /\ n \in Nat
    BY <1>1, <1>6, Zenon DEF FileWords
  <2> HIDE DEF n
  <2>2. b[o + 1] = tokens[1] /\ b[o + 1 + 1] = tokens[2] /\ b[o + 1 + 2 + n] = tokens[n + 3]
    <3>1. /\ 1 \in 1..Len(tokens) /\ 2 \in 1..Len(tokens) /\ n + 3 \in 1..Len(tokens)
          /\ o + 1 + 1 = o + 2 /\ o + 1 + 2 + n = o + (n + 3)
      BY <2>1
    <3> QED
      BY <1>2, <3>1
  <2>3. \A m \in 1..n : b[o + 1 + 1 + m] = tokens[m + 2]
    <3> TAKE m \in 1..n
    <3>1. m + 2 \in 1..Len(tokens) /\ o + 1 + 1 + m = o + (m + 2)
      BY <2>1
    <3> QED
      BY <1>2, <3>1
  <2>4. end = o + 1 + 3 + n
    BY <2>1
  <2> HIDE DEF end
  <2> QED
    BY <1>1, <1>6, <1>3, <2>1, <2>2, <2>3, <2>4, Zenon DEF LeafLies, n
<1> QED
  BY <1>4, <1>5, <1>6 DEF IsLeaf

\* Where the leaves of a folder lie.
LEMMA LeavesPlaced ==
  ASSUME NEW L, NEW C, Widest(L, C), NEW items, items \in Seq(ToSet(items)),
         \A item \in ToSet(items) : IsLeaf(item) /\ Within(item, L, C)
  PROVE  LET parts == [i \in DOMAIN items |-> LeafTokens(items[i])]
             e == Ends(parts)
             n == Len(items)
         IN  /\ n \in Nat /\ DOMAIN items = 1..n
             /\ e[0] = 0 /\ \A k \in 0..n : e[k] \in Nat
             /\ Leaves(items) \in Seq(Lexemes(L, C)) /\ Len(Leaves(items)) = e[n]
             /\ \A b \in Seq(Lexemes(L, C)), o \in Nat : Lies(b, o, Leaves(items)) =>
                  \A k \in 1..n : LeafLies(b, o + e[k - 1] + 1, items[k], o + e[k] + 1)
<1> DEFINE S == Lexemes(L, C)
           n == Len(items)
           parts == [i \in DOMAIN items |-> LeafTokens(items[i])]
           e == Ends(parts)
<1>1. n \in Nat /\ DOMAIN items = 1..n /\ \A k \in 1..n : items[k] \in ToSet(items)
  BY LenProperties, ElementOfSeq
<1>2. \A k \in 1..n : /\ IsLeaf(items[k]) /\ Within(items[k], L, C)
                      /\ LeafTokens(items[k]) \in Seq(S)
  BY <1>1, LeafTokensAre
<1> HIDE DEF S
<1>3. parts \in Seq(Seq(S)) /\ Len(parts) = n /\ \A k \in 1..n : parts[k] = LeafTokens(items[k])
  <2> DEFINE Q == Seq(S)
  <2>1. parts \in [1..n -> Q] /\ \A k \in 1..n : parts[k] = LeafTokens(items[k])
    BY <1>1, <1>2
  <2> HIDE DEF Q, parts
  <2>2. parts \in Seq(Q)
    BY <1>1, <2>1, SeqDef
  <2>3. Len(parts) = n
    BY <1>1, <2>1, <2>2, LenProperties
  <2> QED
    BY <2>1, <2>2, <2>3 DEF Q
<1>4. Leaves(items) = FlattenSeq(parts)
  BY DEF Leaves
<1> HIDE DEF parts, e
<1>5. /\ e[0] = 0 /\ \A k \in 1..n : e[k] = e[k - 1] + Len(parts[k])
      /\ \A k \in 0..n : e[k] \in Nat
      /\ \A k \in 1..n : Len(parts[k]) \in Nat
  <2>1. LET x == Ends(parts)
        IN  /\ Len(parts) \in Nat
            /\ x[0] = 0 /\ \A k \in 1..Len(parts) : x[k] = x[k - 1] + Len(parts[k])
            /\ \A k \in 0..Len(parts) : x[k] \in Nat
            /\ \A k \in 1..Len(parts) : parts[k] \in Seq(S) /\ Len(parts[k]) \in Nat
    BY <1>3, EndsExist
  <2> QED
    BY <1>3, <2>1 DEF e
<1>6. Leaves(items) \in Seq(S) /\ Len(Leaves(items)) = e[n]
  <2>1. << >> \in Seq(S) /\ 0 \in Nat
    BY EmptySeq
  <2>2. FlattenSeq(parts) \in Seq(S) /\ Len(FlattenSeq(parts)) = Ends(parts)[Len(parts)]
    BY <1>3, <2>1, Flattened
  <2> QED
    BY <1>3, <1>4, <2>2 DEF e
<1>7. ASSUME NEW b \in Seq(S), NEW o \in Nat, Lies(b, o, Leaves(items)), NEW k \in 1..n
      PROVE  LeafLies(b, o + e[k - 1] + 1, items[k], o + e[k] + 1)
  <2>1. \A i \in 1..Len(parts) : Lies(b, o + Ends(parts)[i - 1], parts[i])
    BY <1>3, <1>4, <1>7, Flattened
  <2>2. Lies(b, o + e[k - 1], LeafTokens(items[k])) /\ parts[k] = LeafTokens(items[k])
    BY <1>3, <2>1 DEF e
  <2>3. k - 1 \in 0..n /\ k \in 0..n
    BY <1>1
  <2>4. e[k - 1] \in Nat /\ e[k] \in Nat /\ e[k] = e[k - 1] + Len(LeafTokens(items[k]))
    BY <1>5, <2>2, <2>3
  <2>5. o + e[k - 1] \in Nat /\ Len(LeafTokens(items[k])) \in Nat
    BY <1>5, <2>2, <2>4
  <2>6. LeafLies(b, o + e[k - 1] + 1, items[k],
                 o + e[k - 1] + Len(LeafTokens(items[k])) + 1)
    BY <1>2, <2>2, <2>5, LeafPlaced
  <2>7. o + e[k - 1] + Len(LeafTokens(items[k])) + 1 = o + e[k] + 1
    BY <2>4, <2>5
  <2> QED
    BY <2>6, <2>7
<1> QED
  BY <1>1, <1>5, <1>6, <1>7 DEF S, e, parts

\* The tokens of a folder that lies in b behind o.
LEMMA FolderTokens ==
  ASSUME NEW L, NEW C, Widest(L, C), NEW word \in FolderWords,
         NEW leaves \in Seq(Lexemes(L, C))
  PROVE  LET tokens == <<Lexeme(word, << >>, << >>), OpenBrace>> \o leaves \o <<CloseBrace>>
             n == Len(leaves)
         IN  /\ n \in Nat
             /\ tokens \in Seq(Lexemes(L, C)) /\ Len(tokens) = n + 3
             /\ \A b \in Seq(Lexemes(L, C)), o \in Nat : Lies(b, o, tokens) =>
                  /\ b[o + 1] = Lexeme(word, << >>, << >>) /\ b[o + 2] = OpenBrace
                  /\ Lies(b, o + 2, leaves) /\ b[o + n + 3] = CloseBrace
<1> DEFINE S == Lexemes(L, C)
           n == Len(leaves)
           first == Lexeme(word, << >>, << >>)
           head == <<first, OpenBrace>>
           front == head \o leaves
           last == <<CloseBrace>>
           tokens == front \o last
<1>1. first \in S /\ OpenBrace \in S /\ CloseBrace \in S
  BY DEF Widest, Lexeme, Lexemes, OpenBrace, CloseBrace, FolderWords
<1> HIDE DEF S, first
<1>2. n \in Nat /\ leaves \in Seq(S)
  BY LenProperties DEF S
<1>3. /\ head \in Seq(S) /\ Len(head) = 2 /\ head[1] = first /\ head[2] = OpenBrace
      /\ last \in Seq(S) /\ Len(last) = 1 /\ last[1] = CloseBrace
  BY <1>1
<1> HIDE DEF head, last
<1>4. /\ front \in Seq(S) /\ Len(front) = 2 + n
      /\ \A b \in Seq(S), o \in Nat : Lies(b, o, front) =>
           Lies(b, o, head) /\ Lies(b, o + 2, leaves)
  BY <1>2, <1>3, PartsLie
<1> HIDE DEF front
<1>5. /\ tokens \in Seq(S) /\ Len(tokens) = 2 + n + 1
      /\ \A b \in Seq(S), o \in Nat : Lies(b, o, tokens) =>
           Lies(b, o, front) /\ Lies(b, o + (2 + n), last)
  <2>1. tokens \in Seq(S) /\ Len(tokens) = Len(front) + Len(last)
    BY <1>3, <1>4, ConcatProperties
  <2>2. ASSUME NEW b \in Seq(S), NEW o \in Nat, Lies(b, o, tokens)
        PROVE  Lies(b, o, front) /\ Lies(b, o + Len(front), last)
    <3> HIDE DEF n
    <3> QED
      BY <1>3, <1>4, <2>2, PartsLie
  <2> HIDE DEF tokens, n
  <2> QED
    BY <1>3, <1>4, <2>1, <2>2
<1> HIDE DEF tokens
<1>6. ASSUME NEW b \in Seq(S), NEW o \in Nat, Lies(b, o, tokens)
      PROVE  /\ b[o + 1] = first /\ b[o + 2] = OpenBrace
             /\ Lies(b, o + 2, leaves) /\ b[o + n + 3] = CloseBrace
  <2>1. Lies(b, o, head) /\ Lies(b, o + 2, leaves) /\ Lies(b, o + (2 + n), last)
    BY <1>4, <1>5, <1>6
  <2>2. 1 \in 1..Len(head) /\ 2 \in 1..Len(head) /\ 1 \in 1..Len(last)
    BY <1>3
  <2>3. o + (2 + n) + 1 = o + n + 3
    BY <1>2
  <2>4. b[o + 1] = head[1] /\ b[o + 2] = head[2] /\ b[o + (2 + n) + 1] = last[1]
    BY <2>1, <2>2, Zenon DEF Lies
  <2> HIDE DEF n
  <2> QED
    BY <1>3, <2>1, <2>3, <2>4, Zenon
<1>7. Len(tokens) = n + 3
  BY <1>2, <1>5
<1> QED
  BY <1>2, <1>5, <1>6, <1>7 DEF S, tokens, front, head, last, first

WithinTree(t, L, C) ==
  \A item \in ToSet(t) :
    IF item.word \in FolderWords
    THEN \A leaf \in ToSet(item.inner) : Within(leaf, L, C) ELSE Within(item, L, C)

\* The items of a tree, its folders and the items in them.
LEMMA TreeItems ==
  ASSUME NEW t \in Trees
  PROVE  /\ Len(t) \in Nat /\ DOMAIN t = 1..Len(t) /\ \A k \in 1..Len(t) : t[k] \in ToSet(t)
         /\ \A k \in 1..Len(t) :
              \/ t[k].word \in FolderWords /\ IsFolder(t[k])
              \/ t[k].word \notin FolderWords /\ IsLeaf(t[k]) /\ t[k].inner = << >>
         /\ \A c \in Contexts(t) :
              /\ Len(ItemsOf(t, c)) \in Nat
              /\ DOMAIN ItemsOf(t, c) = 1..Len(ItemsOf(t, c))
              /\ \A k \in 1..Len(ItemsOf(t, c)) :
                   /\ ItemsOf(t, c)[k] \in ToSet(ItemsOf(t, c))
                   /\ c # 0 => IsLeaf(ItemsOf(t, c)[k])
                                 /\ ItemsOf(t, c)[k].word \notin FolderWords
<1>1. /\ t \in Seq(ToSet(t))
      /\ \A item \in ToSet(t) : IsFolder(item) \/ (IsLeaf(item) /\ item.inner = << >>)
  BY FolderAssumption
<1>2. Len(t) \in Nat /\ DOMAIN t = 1..Len(t) /\ \A k \in 1..Len(t) : t[k] \in ToSet(t)
  <2> DEFINE S == ToSet(t)
  <2>1. t \in Seq(S)
    BY <1>1
  <2> HIDE DEF S
  <2>2. Len(t) \in Nat /\ DOMAIN t = 1..Len(t) /\ \A k \in 1..Len(t) : t[k] \in S
    BY <2>1, LenProperties, ElementOfSeq
  <2> QED
    BY <2>2 DEF S
<1>3. \A item : IsFolder(item) => item.word \in FolderWords
  BY DEF IsFolder
<1>4. \A item : IsLeaf(item) => item.word \notin FolderWords
  BY DEF IsLeaf, FileWords, FolderWords
<1>5. ASSUME NEW c \in Contexts(t), c # 0
      PROVE  /\ Len(ItemsOf(t, c)) \in Nat
             /\ DOMAIN ItemsOf(t, c) = 1..Len(ItemsOf(t, c))
             /\ \A k \in 1..Len(ItemsOf(t, c)) :
                  ItemsOf(t, c)[k] \in ToSet(ItemsOf(t, c)) /\ IsLeaf(ItemsOf(t, c)[k])
  <2>1. c \in 1..Len(t) /\ t[c].word \in FolderWords /\ ItemsOf(t, c) = t[c].inner
    BY <1>2, <1>5 DEF Contexts, ItemsOf
  <2>2. IsFolder(t[c])
    BY <1>1, <1>2, <1>4, <2>1
  <2> DEFINE x == t[c].inner
             S == ToSet(x)
  <2>3. x \in Seq(S) /\ \A leaf \in S : IsLeaf(leaf)
    BY <2>2 DEF IsFolder
  <2> HIDE DEF x, S
  <2>4. Len(x) \in Nat /\ DOMAIN x = 1..Len(x) /\ \A k \in 1..Len(x) : x[k] \in S
    BY <2>3, LenProperties, ElementOfSeq
  <2> QED
    BY <2>1, <2>3, <2>4 DEF x, S
<1> QED
  BY <1>1, <1>2, <1>3, <1>4, <1>5, Zenon DEF ItemsOf

\* Where item k of a tree lies, behind e bytes.
TopLies(b, e, item, next) ==
  /\ item.word \notin FolderWords => LeafLies(b, e + 1, item, next + 1)
  /\ item.word \in FolderWords =>
       LET inner == Ends([i \in DOMAIN item.inner |-> LeafTokens(item.inner[i])])
           n == Len(item.inner)
       IN  /\ b[e + 1] = Lexeme(item.word, << >>, << >>) /\ b[e + 2] = OpenBrace
           /\ inner[0] = 0 /\ \A k \in 0..n : inner[k] \in Nat
           /\ \A k \in 1..n :
                LeafLies(b, e + 2 + inner[k - 1] + 1, item.inner[k], e + 2 + inner[k] + 1)
           /\ b[e + inner[n] + 3] = CloseBrace
           /\ next = e + inner[n] + 3

\* One item of the outermost folder.
LEMMA TopPlaced ==
  ASSUME NEW L, NEW C, Widest(L, C), NEW t \in Trees, WithinTree(t, L, C), NEW k \in 1..Len(t)
  PROVE  LET part == PartsOf(t, 0)[k]
         IN  /\ part \in Seq(Lexemes(L, C)) /\ Len(part) \in Nat
             /\ \A b \in Seq(Lexemes(L, C)), o \in Nat : Lies(b, o, part) =>
                  TopLies(b, o, t[k], o + Len(part))
<1> DEFINE S == Lexemes(L, C)
           part == PartsOf(t, 0)[k]
<1>1. k \in DOMAIN t /\ t[k] \in ToSet(t)
  BY TreeItems
<1>2. part = IF t[k].word \in FolderWords
             THEN <<Lexeme(t[k].word, << >>, << >>), OpenBrace>>
                    \o Leaves(t[k].inner) \o <<CloseBrace>>
             ELSE LeafTokens(t[k])
  BY <1>1 DEF PartsOf
<1>3. CASE t[k].word \notin FolderWords
  <2>1. IsLeaf(t[k]) /\ Within(t[k], L, C)
    BY <1>1, <1>3, TreeItems DEF WithinTree
  <2>2. part = LeafTokens(t[k])
    BY <1>2, <1>3
  <2> HIDE DEF part
  <2>3. part \in Seq(S)
    BY <2>1, <2>2, LeafTokensAre
  <2>4. Len(part) \in Nat
    BY <2>3, LenProperties
  <2>5. ASSUME NEW b \in Seq(S), NEW o \in Nat, Lies(b, o, part)
        PROVE  TopLies(b, o, t[k], o + Len(part))
    <3>1. LeafLies(b, o + 1, t[k], o + Len(part) + 1)
      BY <2>1, <2>2, <2>5, LeafPlaced
    <3> QED
      BY <1>3, <3>1 DEF TopLies
  <2> QED
    BY <2>3, <2>4, <2>5 DEF part
<1>4. CASE t[k].word \in FolderWords
  <2> DEFINE x == t[k].inner
             n == Len(x)
             inner == Ends([i \in DOMAIN x |-> LeafTokens(x[i])])
             leaves == Leaves(x)
             tokens == <<Lexeme(t[k].word, << >>, << >>), OpenBrace>> \o leaves \o <<CloseBrace>>
  <2>1. x \in Seq(ToSet(x)) /\ \A leaf \in ToSet(x) : IsLeaf(leaf) /\ Within(leaf, L, C)
    BY <1>1, <1>4, TreeItems DEF IsFolder, WithinTree
  <2>2. part = tokens
    BY <1>2, <1>4
  <2> HIDE DEF part
  <2>3. /\ n \in Nat /\ DOMAIN x = 1..n
        /\ inner[0] = 0 /\ \A j \in 0..n : inner[j] \in Nat
        /\ leaves \in Seq(S) /\ Len(leaves) = inner[n]
        /\ \A b \in Seq(S), o \in Nat : Lies(b, o, leaves) =>
             \A j \in 1..n : LeafLies(b, o + inner[j - 1] + 1, x[j], o + inner[j] + 1)
    <3> HIDE DEF x
    <3> QED
      BY <2>1, LeavesPlaced
  <2> HIDE DEF leaves
  <2>4. /\ Len(leaves) \in Nat
        /\ tokens \in Seq(S) /\ Len(tokens) = Len(leaves) + 3
        /\ \A b \in Seq(S), o \in Nat : Lies(b, o, tokens) =>
             /\ b[o + 1] = Lexeme(t[k].word, << >>, << >>) /\ b[o + 2] = OpenBrace
             /\ Lies(b, o + 2, leaves) /\ b[o + Len(leaves) + 3] = CloseBrace
    <3>1. t[k].word \in FolderWords /\ leaves \in Seq(Lexemes(L, C))
      BY <1>4, <2>3
    <3> QED
      BY <3>1, FolderTokens
  <2> HIDE DEF inner, tokens
  <2>5. part \in Seq(S) /\ Len(part) = inner[n] + 3 /\ inner[n] \in Nat
    <3>1. n \in 0..n
      BY <2>3
    <3> QED
      BY <2>2, <2>3, <2>4, <3>1, Zenon
  <2>6. ASSUME NEW b \in Seq(S), NEW o \in Nat, Lies(b, o, part)
        PROVE  TopLies(b, o, t[k], o + Len(part))
    <3>1. /\ b[o + 1] = Lexeme(t[k].word, << >>, << >>) /\ b[o + 2] = OpenBrace
          /\ Lies(b, o + 2, leaves) /\ b[o + inner[n] + 3] = CloseBrace
      BY <2>2, <2>3, <2>4, <2>6
    <3>2. \A j \in 1..n : LeafLies(b, o + 2 + inner[j - 1] + 1, x[j], o + 2 + inner[j] + 1)
      <4>1. o + 2 \in Nat
        OBVIOUS
      <4> QED
        BY <2>3, <3>1, <4>1
    <3>3. o + Len(part) = o + inner[n] + 3
      BY <2>5
    <3> QED
      BY <1>4, <2>3, <3>1, <3>2, <3>3, Zenon DEF TopLies, inner, x
  <2> QED
    BY <2>5, <2>6 DEF part
<1> QED
  BY <1>3, <1>4

(***************************************************************************)
(* The layout of a tree: where its items lie, and how one place is reached *)
(* from another.                                                           *)
(***************************************************************************)
Layout(t, b) ==
  /\ Len(b) \in Nat
  /\ \A c \in Contexts(t) :
       /\ \A k \in 1..(Len(ItemsOf(t, c)) + 1) : Place(t, c, k) \in Nat \ {0}
       /\ \A k \in 1..Len(ItemsOf(t, c)) : ItemsOf(t, c)[k].word \notin FolderWords =>
            LeafLies(b, Place(t, c, k), ItemsOf(t, c)[k], Place(t, c, k + 1))
       /\ b[Place(t, c, Len(ItemsOf(t, c)) + 1)] = CloseBrace
  /\ Place(t, 0, 1) = 1
  /\ \A c \in Contexts(t) \ {0} :
       /\ b[Place(t, 0, c)] = Lexeme(t[c].word, << >>, << >>)
       /\ b[Place(t, 0, c) + 1] = OpenBrace
       /\ Place(t, c, 1) = Place(t, 0, c) + 2
       /\ Place(t, 0, c + 1) = Place(t, c, Len(t[c].inner) + 1) + 1

\* The items of a tree follow one another in its tokens.
LEMMA TreePlaced ==
  ASSUME NEW L, NEW C, Widest(L, C), NEW t \in Trees, WithinTree(t, L, C)
  PROVE  LET e == Ends(PartsOf(t, 0))
             n == Len(t)
         IN  /\ \A k \in 0..n : e[k] \in Nat
             /\ e[0] = 0
             /\ \A k \in 1..n : TopLies(Tokens(t), e[k - 1], t[k], e[k])
             /\ Tokens(t)[e[n] + 1] = CloseBrace
             /\ Len(Tokens(t)) = e[n] + 1
<1> DEFINE S == Lexemes(L, C)
           n == Len(t)
           parts == PartsOf(t, 0)
           e == Ends(parts)
           all == FlattenSeq(parts)
           last == <<CloseBrace>>
           b == Tokens(t)
<1>1. n \in Nat /\ DOMAIN t = 1..n
  BY TreeItems
<1>2. \A k \in 1..n : /\ parts[k] \in Seq(S) /\ Len(parts[k]) \in Nat
                       /\ \A x \in Seq(S), o \in Nat : Lies(x, o, parts[k]) =>
                            TopLies(x, o, t[k], o + Len(parts[k]))
  BY TopPlaced
<1>3. b = all \o last
  BY DEF Tokens, PartsOf
<1>4. parts \in Seq(Seq(S)) /\ Len(parts) = n
  <2> DEFINE Q == Seq(S)
  <2>1. parts = [i \in 1..n |-> parts[i]]
    BY <1>1, Zenon DEF PartsOf
  <2> HIDE DEF parts
  <2>2. \A i \in 1..n : parts[i] \in Q
    BY <1>2
  <2> HIDE DEF Q
  <2>3. parts \in [1..n -> Q]
    BY <2>1, <2>2
  <2>4. parts \in Seq(Q)
    BY <1>1, <2>3, SeqDef
  <2>5. Len(parts) = n
    BY <1>1, <2>3, <2>4, LenProperties
  <2> QED
    BY <2>4, <2>5 DEF Q
<1> HIDE DEF parts, S, e
<1>5. /\ e[0] = 0 /\ \A k \in 1..n : e[k] = e[k - 1] + Len(parts[k])
      /\ \A k \in 0..n : e[k] \in Nat
  <2>1. LET x == Ends(parts)
        IN  /\ Len(parts) \in Nat
            /\ x[0] = 0 /\ \A k \in 1..Len(parts) : x[k] = x[k - 1] + Len(parts[k])
            /\ \A k \in 0..Len(parts) : x[k] \in Nat
            /\ \A k \in 1..Len(parts) : parts[k] \in Seq(S) /\ Len(parts[k]) \in Nat
    BY <1>4, EndsExist
  <2> QED
    BY <1>4, <2>1 DEF e
<1>6. all \in Seq(S) /\ Len(all) = e[n]
  <2>1. << >> \in Seq(S) /\ 0 \in Nat
    BY EmptySeq
  <2>2. all \in Seq(S) /\ Len(all) = Ends(parts)[Len(parts)]
    BY <1>4, <2>1, Flattened
  <2> QED
    BY <1>4, <2>2 DEF e
<1> HIDE DEF all
<1>7. last \in Seq(S) /\ Len(last) = 1 /\ last[1] = CloseBrace
  <2>1. CloseBrace \in S
    BY DEF Widest, Lexeme, Lexemes, CloseBrace, S
  <2> QED
    BY <2>1
<1> HIDE DEF last
<1>8. b \in Seq(S) /\ Lies(b, 0, all) /\ Lies(b, e[n], last)
  <2>1. all \o last \in Seq(S) /\ Len(all \o last) = Len(all) + Len(last)
    BY <1>6, <1>7, ConcatProperties
  <2>2. Lies(b, 0, b)
    <3>1. b \in Seq(S)
      BY <1>3, <2>1
    <3> HIDE DEF b
    <3>2. Len(b) \in Nat
      BY <3>1, LenProperties
    <3>3. 0 + Len(b) <= Len(b) /\ \A k \in 1..Len(b) : 0 + k = k
      BY <3>2
    <3> QED
      BY <3>3 DEF Lies
  <2>3. b \in Seq(S) /\ Lies(b, 0, all \o last)
    BY <1>3, <2>1, <2>2
  <2> HIDE DEF b
  <2>4. Lies(b, 0, all) /\ Lies(b, 0 + Len(all), last)
    BY <1>6, <1>7, <2>3, PartsLie
  <2>5. 0 + Len(all) = e[n]
    BY <1>1, <1>5, <1>6
  <2> QED
    BY <2>3, <2>4, <2>5
<1> HIDE DEF b
<1>9. ASSUME NEW k \in 1..n PROVE TopLies(b, e[k - 1], t[k], e[k])
  <2>1. \A j \in 1..Len(parts) : Lies(b, 0 + Ends(parts)[j - 1], parts[j])
    BY <1>4, <1>8, Flattened DEF all
  <2>2. k - 1 \in 0..n /\ e[k - 1] \in Nat /\ 0 + e[k - 1] = e[k - 1]
    BY <1>1, <1>5
  <2>3. Lies(b, e[k - 1], parts[k])
    BY <1>4, <2>1, <2>2 DEF e
  <2>4. TopLies(b, e[k - 1], t[k], e[k - 1] + Len(parts[k]))
    BY <1>2, <1>8, <2>2, <2>3
  <2> QED
    BY <1>5, <2>4
<1>10. Len(b) = e[n] + 1
  BY <1>3, <1>6, <1>7, ConcatProperties DEF b
<1>11. b[e[n] + 1] = CloseBrace
  <2>1. 1 \in 1..Len(last)
    BY <1>7
  <2> QED
    BY <1>7, <1>8, <2>1 DEF Lies
<1> QED
  BY <1>5, <1>9, <1>11, <1>10 DEF b, e, parts

\* Every item, and every brace, of a tree is at its place.
LEMMA TreeLaid ==
  ASSUME NEW t \in Trees
  PROVE  Layout(t, Tokens(t))
<1> DEFINE X == ToSet(t) \cup UNION {ToSet(item.inner) : item \in ToSet(t)}
           L == {<< >>} \cup {item.list : item \in X}
           C == {<< >>} \cup {<<y>> : y \in UNION {ToSet(item.confs) : item \in X}}
           e == Ends(PartsOf(t, 0))
           n == Len(t)
           b == Tokens(t)
           inner(c) == Ends(PartsOf(t, c))
           size(c) == Len(ItemsOf(t, c))
<1>1. Widest(L, C) /\ WithinTree(t, L, C)
  <2>1. \A item \in X : Within(item, L, C)
    BY DEF Within
  <2>2. \A item \in ToSet(t) : item \in X /\ \A leaf \in ToSet(item.inner) : leaf \in X
    OBVIOUS
  <2>3. Widest(L, C)
    BY DEF Widest
  <2> HIDE DEF X, L, C
  <2> QED
    BY <2>1, <2>2, <2>3, Zenon DEF WithinTree
<1> HIDE DEF L, C, X
<1>2. n \in Nat /\ DOMAIN t = 1..n
  BY TreeItems
<1>3. /\ \A k \in 0..n : e[k] \in Nat
      /\ e[0] = 0
      /\ \A k \in 1..n : TopLies(b, e[k - 1], t[k], e[k])
      /\ b[e[n] + 1] = CloseBrace
      /\ Len(b) = e[n] + 1
  BY <1>1, TreePlaced
<1> HIDE DEF b, e
<1>4. ASSUME NEW k \in 1..(n + 1)
      PROVE  Place(t, 0, k) = e[k - 1] + 1 /\ Place(t, 0, k) \in Nat \ {0} /\ e[k - 1] \in Nat
  <2>1. k - 1 \in 0..n
    BY <1>2
  <2>2. Place(t, 0, k) = 0 + e[k - 1] + 1
    BY DEF Place, e
  <2>3. e[k - 1] \in Nat
    BY <1>3, <2>1
  <2> QED
    BY <2>2, <2>3
<1>5. ASSUME NEW c \in Contexts(t) \ {0}
      PROVE  /\ c \in 1..n /\ size(c) \in Nat /\ size(c) = Len(t[c].inner)
             /\ Place(t, 0, c) = e[c - 1] + 1 /\ Place(t, 0, c + 1) = e[c] + 1
             /\ e[c - 1] \in Nat /\ e[c] \in Nat
             /\ b[Place(t, 0, c)] = Lexeme(t[c].word, << >>, << >>)
             /\ b[Place(t, 0, c) + 1] = OpenBrace
             /\ inner(c)[0] = 0 /\ \A k \in 0..size(c) : inner(c)[k] \in Nat
             /\ \A k \in 1..(size(c) + 1) : Place(t, c, k) = e[c - 1] + 2 + inner(c)[k - 1] + 1
             /\ \A k \in 1..size(c) :
                  LeafLies(b, e[c - 1] + 2 + inner(c)[k - 1] + 1, ItemsOf(t, c)[k],
                           e[c - 1] + 2 + inner(c)[k] + 1)
             /\ b[e[c - 1] + inner(c)[size(c)] + 3] = CloseBrace
             /\ e[c] = e[c - 1] + inner(c)[size(c)] + 3
  <2>1. c \in 1..n /\ t[c].word \in FolderWords /\ c # 0
    BY <1>2 DEF Contexts
  <2>2. size(c) \in Nat /\ ItemsOf(t, c) = t[c].inner
    BY TreeItems, <2>1 DEF ItemsOf
  <2>3. c \in 1..(n + 1) /\ c + 1 \in 1..(n + 1) /\ c + 1 - 1 = c
    BY <1>2, <2>1
  <2>4. inner(c) = Ends([i \in DOMAIN t[c].inner |-> LeafTokens(t[c].inner[i])])
    BY <2>1 DEF PartsOf
  <2> HIDE DEF inner
  <2>5. /\ b[e[c - 1] + 1] = Lexeme(t[c].word, << >>, << >>) /\ b[e[c - 1] + 2] = OpenBrace
        /\ inner(c)[0] = 0 /\ \A k \in 0..size(c) : inner(c)[k] \in Nat
        /\ \A k \in 1..size(c) :
             LeafLies(b, e[c - 1] + 2 + inner(c)[k - 1] + 1, ItemsOf(t, c)[k],
                      e[c - 1] + 2 + inner(c)[k] + 1)
        /\ b[e[c - 1] + inner(c)[size(c)] + 3] = CloseBrace
        /\ e[c] = e[c - 1] + inner(c)[size(c)] + 3
    <3>1. TopLies(b, e[c - 1], t[c], e[c])
      BY <1>3, <2>1
    <3> QED
      BY <2>1, <2>2, <2>4, <3>1, Zenon DEF TopLies
  <2>6. \A k \in 1..(size(c) + 1) : Place(t, c, k) = e[c - 1] + 2 + inner(c)[k - 1] + 1
    BY <2>1 DEF Place, e, inner
  <2>7. /\ Place(t, 0, c) = e[c - 1] + 1 /\ Place(t, 0, c + 1) = e[c] + 1
        /\ e[c - 1] \in Nat /\ e[c] \in Nat
    BY <1>4, <2>3
  <2>8. e[c - 1] + 1 + 1 = e[c - 1] + 2
    BY <2>7
  <2>9. b[Place(t, 0, c) + 1] = OpenBrace
    BY <2>5, <2>7, <2>8
  <2> QED
    BY <2>1, <2>2, <2>5, <2>6, <2>7, <2>9 DEF inner
<1> HIDE DEF inner
<1>6. ASSUME NEW c \in Contexts(t)
      PROVE  /\ \A k \in 1..(size(c) + 1) : Place(t, c, k) \in Nat \ {0}
             /\ \A k \in 1..size(c) : ItemsOf(t, c)[k].word \notin FolderWords =>
                  LeafLies(b, Place(t, c, k), ItemsOf(t, c)[k], Place(t, c, k + 1))
             /\ b[Place(t, c, size(c) + 1)] = CloseBrace
  <2>1. CASE c = 0
    <3>1. ItemsOf(t, c) = t
      BY <2>1 DEF ItemsOf
    <3>2. ASSUME NEW k \in 1..n, t[k].word \notin FolderWords
          PROVE  LeafLies(b, Place(t, 0, k), t[k], Place(t, 0, k + 1))
      <4>1. k \in 1..(n + 1) /\ k + 1 \in 1..(n + 1) /\ k + 1 - 1 = k
        BY <1>2
      <4>2. LeafLies(b, e[k - 1] + 1, t[k], e[k] + 1)
        BY <1>3, <3>2 DEF TopLies
      <4>3. Place(t, 0, k) = e[k - 1] + 1 /\ Place(t, 0, k + 1) = e[k] + 1
        BY <1>4, <4>1
      <4> QED
        BY <4>2, <4>3
    <3>3. b[Place(t, 0, n + 1)] = CloseBrace
      <4>1. n + 1 \in 1..(n + 1) /\ n + 1 - 1 = n
        BY <1>2
      <4> QED
        BY <1>3, <1>4, <4>1
    <3> QED
      BY <1>4, <2>1, <3>1, <3>2, <3>3
  <2>2. CASE c # 0
    <3> DEFINE m == size(c)
    <3>1. c \in Contexts(t) \ {0}
      BY <2>2
    <3>2. m \in Nat /\ e[c - 1] \in Nat
      BY <1>5, <3>1
    <3> HIDE DEF m
    <3>3. \A k \in 0..m : inner(c)[k] \in Nat
      BY <1>5, <3>1 DEF m
    <3>4. \A k \in 1..(m + 1) : Place(t, c, k) = e[c - 1] + 2 + inner(c)[k - 1] + 1
      BY <1>5, <3>1 DEF m
    <3>5. \A k \in 1..(m + 1) : Place(t, c, k) \in Nat \ {0}
      <4> TAKE k \in 1..(m + 1)
      <4>1. k - 1 \in 0..m
        BY <3>2
      <4>2. inner(c)[k - 1] \in Nat
        BY <3>3, <4>1
      <4> QED
        BY <3>2, <3>4, <4>2
    <3>6. ASSUME NEW k \in 1..m
          PROVE  LeafLies(b, Place(t, c, k), ItemsOf(t, c)[k], Place(t, c, k + 1))
      <4>1. k \in 1..(m + 1) /\ k + 1 \in 1..(m + 1) /\ k + 1 - 1 = k
        BY <3>2
      <4>2. LeafLies(b, e[c - 1] + 2 + inner(c)[k - 1] + 1, ItemsOf(t, c)[k],
                     e[c - 1] + 2 + inner(c)[k] + 1)
        BY <1>5, <3>1 DEF m
      <4>3. /\ Place(t, c, k) = e[c - 1] + 2 + inner(c)[k - 1] + 1
            /\ Place(t, c, k + 1) = e[c - 1] + 2 + inner(c)[k] + 1
        BY <3>4, <4>1
      <4> QED
        BY <4>2, <4>3
    <3>7. b[Place(t, c, m + 1)] = CloseBrace
      <4>1. m + 1 \in 1..(m + 1) /\ m + 1 - 1 = m /\ m \in 0..m
        BY <3>2
      <4>2. Place(t, c, m + 1) = e[c - 1] + 2 + inner(c)[m] + 1
        BY <3>4, <4>1
      <4>3. e[c - 1] + 2 + inner(c)[m] + 1 = e[c - 1] + inner(c)[m] + 3
        BY <3>2, <3>3, <4>1
      <4>4. b[e[c - 1] + inner(c)[m] + 3] = CloseBrace
        BY <1>5, <3>1 DEF m
      <4> QED
        BY <4>2, <4>3, <4>4
    <3> QED
      BY <3>5, <3>6, <3>7 DEF m
  <2> QED
    BY <2>1, <2>2
<1>7. Place(t, 0, 1) = 1
  <2>1. 1 \in 1..(n + 1) /\ 1 - 1 = 0
    BY <1>2
  <2> QED
    BY <1>3, <1>4, <2>1
<1>8. ASSUME NEW c \in Contexts(t) \ {0}
      PROVE  /\ b[Place(t, 0, c)] = Lexeme(t[c].word, << >>, << >>)
             /\ b[Place(t, 0, c) + 1] = OpenBrace
             /\ Place(t, c, 1) = Place(t, 0, c) + 2
             /\ Place(t, 0, c + 1) = Place(t, c, Len(t[c].inner) + 1) + 1
  <2> DEFINE m == size(c)
  <2>1. m \in Nat /\ e[c - 1] \in Nat /\ m = Len(t[c].inner)
    BY <1>5
  <2> HIDE DEF m
  <2>2. 1 \in 1..(m + 1) /\ 1 - 1 = 0 /\ m + 1 \in 1..(m + 1) /\ m + 1 - 1 = m /\ m \in 0..m
    BY <2>1
  <2>3. /\ Place(t, c, 1) = e[c - 1] + 2 + inner(c)[0] + 1
        /\ Place(t, c, m + 1) = e[c - 1] + 2 + inner(c)[m] + 1
        /\ inner(c)[m] \in Nat
    BY <1>5, <2>2 DEF m
  <2>4. inner(c)[0] = 0
    BY <1>5
  <2>5. Place(t, 0, c) = e[c - 1] + 1 /\ Place(t, 0, c + 1) = e[c] + 1
        /\ e[c] = e[c - 1] + inner(c)[m] + 3
    BY <1>5 DEF m
  <2>6. Place(t, c, 1) = Place(t, 0, c) + 2
    BY <2>1, <2>3, <2>4, <2>5
  <2>7. Place(t, 0, c + 1) = Place(t, c, m + 1) + 1
    BY <2>1, <2>3, <2>5
  <2> QED
    BY <1>5, <2>1, <2>6, <2>7
<1>9. Len(b) \in Nat
  <2>1. n \in 0..n
    BY <1>2
  <2> QED
    BY <1>3, <2>1
<1> QED
  BY <1>6, <1>7, <1>8, <1>9 DEF Layout, b

-----------------------------------------------------------------------------
(***************************************************************************)
(* What is told of a place, and of the next one.                           *)
(***************************************************************************)
\* The active configuration at the next item.
LEMMA ActiveNext ==
  ASSUME NEW items, NEW inherited
  PROVE  /\ ActiveAt(items, 1, inherited) = inherited
         /\ \A k \in Nat \ {0} : ActiveAt(items, k + 1, inherited) =
              IF items[k].word = "$Configuration" THEN items[k].confs
              ELSE ActiveAt(items, k, inherited)
<1> DEFINE before(k) == {j \in 1..(k - 1) : items[j].word = "$Configuration"}
           last(k) == CHOOSE j \in before(k) : \A l \in before(k) : l <= j
<1>1. \A k : ActiveAt(items, k, inherited) =
               IF before(k) = {} THEN inherited ELSE items[last(k)].confs
  BY DEF ActiveAt
<1>2. before(1) = {}
  OBVIOUS
<1>3. ASSUME NEW k \in Nat \ {0}, items[k].word = "$Configuration"
      PROVE  before(k + 1) # {} /\ last(k + 1) = k
  <2>1. k \in before(k + 1) /\ \A l \in before(k + 1) : l \in Nat /\ l <= k
    BY <1>3
  <2> DEFINE X == before(k + 1)
  <2> HIDE DEF X
  <2>2. \E j \in X : \A l \in X : l <= j
    BY <2>1 DEF X
  <2>3. (CHOOSE j \in X : \A l \in X : l <= j) \in X
        /\ \A l \in X : l <= (CHOOSE j \in X : \A l2 \in X : l2 <= j)
    BY <2>2
  <2>4. (CHOOSE j \in X : \A l \in X : l <= j) = k
    BY <2>1, <2>3 DEF X
  <2> QED
    BY <2>1, <2>4 DEF X
<1>4. ASSUME NEW k \in Nat \ {0}, items[k].word # "$Configuration"
      PROVE  before(k + 1) = before(k)
  <2>1. 1..(k + 1 - 1) = 1..(k - 1) \cup {k}
    OBVIOUS
  <2> QED
    BY <1>4, <2>1
<1>5. ASSUME NEW k \in Nat \ {0}, items[k].word # "$Configuration"
      PROVE  last(k + 1) = last(k)
  BY <1>4, <1>5
<1> HIDE DEF before, last
<1> QED
  BY <1>1, <1>2, <1>3, <1>4, <1>5, Zenon

\* The unity files that are numbered up to an item.
LEMMA NumberNext ==
  ASSUME NEW t, NEW o
  PROVE  /\ Number(t, o, 0) = OwnUnity(o)
         /\ \A i \in Nat : Number(t, o, i) \in Nat /\ OwnUnity(o) <= Number(t, o, i)
         /\ \A i \in Nat : Number(t, o, i + 1) =
              IF t[i + 1].word = "$Unity" THEN Number(t, o, i) + 1 ELSE Number(t, o, i)
<1> DEFINE unity(i) == {j \in 1..i : t[j].word = "$Unity"}
<1>1. \A i \in Nat : IsFiniteSet(unity(i)) /\ Cardinality(unity(i)) \in Nat
  <2> TAKE i \in Nat
  <2>1. IsFiniteSet(1..i)
    BY FS_Interval
  <2>2. unity(i) \subseteq 1..i
    OBVIOUS
  <2> HIDE DEF unity
  <2> QED
    BY <2>1, <2>2, FS_Subset, FS_CardinalityType
<1>2. \A i : Number(t, o, i) = OwnUnity(o) + Cardinality(unity(i))
  BY DEF Number
<1>3. OwnUnity(o) \in Nat
  BY DEF OwnUnity
<1>4. unity(0) = {} /\ Cardinality({}) = 0
  BY FS_EmptySet
<1>5. ASSUME NEW i \in Nat, t[i + 1].word = "$Unity"
      PROVE  Cardinality(unity(i + 1)) = Cardinality(unity(i)) + 1
  <2>1. unity(i + 1) = unity(i) \cup {i + 1} /\ i + 1 \notin unity(i)
    <3>1. 1..(i + 1) = 1..i \cup {i + 1}
      OBVIOUS
    <3> QED
      BY <1>5, <3>1
  <2> HIDE DEF unity
  <2> QED
    BY <1>1, <2>1, FS_AddElement
<1>6. ASSUME NEW i \in Nat, t[i + 1].word # "$Unity"
      PROVE  unity(i + 1) = unity(i)
  <2>1. 1..(i + 1) = 1..i \cup {i + 1}
    OBVIOUS
  <2> QED
    BY <1>6, <2>1
<1> HIDE DEF unity
<1>7. \A i \in Nat : Number(t, o, i) \in Nat /\ OwnUnity(o) <= Number(t, o, i)
  BY <1>1, <1>2, <1>3
<1>8. Number(t, o, 0) = OwnUnity(o)
  BY <1>2, <1>3, <1>4
<1>9. ASSUME NEW i \in Nat
      PROVE  Number(t, o, i + 1) =
               IF t[i + 1].word = "$Unity" THEN Number(t, o, i) + 1 ELSE Number(t, o, i)
  <2>1. i + 1 \in Nat
    OBVIOUS
  <2>2. CASE t[i + 1].word = "$Unity"
    BY <1>1, <1>2, <1>3, <1>5, <2>1, <2>2
  <2>3. CASE t[i + 1].word # "$Unity"
    BY <1>2, <1>6, <2>3
  <2> QED
    BY <2>2, <2>3
<1> QED
  BY <1>7, <1>8, <1>9

\* What is told of a place: a unity file, or what an item before says.
LEMMA ToldThere ==
  ASSUME NEW t, NEW o, NEW c, NEW k, NEW x
  PROVE  x \in Told(t, o, c, k) <=>
           \/ \E n \in 1..SeenAt(t, o, c, k) : x = UnityFile(n)
           \/ \E d \in Contexts(t) : \E i \in DOMAIN ItemsOf(t, d) :
                Precedes(d, i, c, k) /\ x \in Means(t, o, d, i)
<1> DEFINE items(d) == {l \in DOMAIN ItemsOf(t, d) : Precedes(d, l, c, k)}
           told(d) == UNION {Means(t, o, d, i) : i \in items(d)}
           files == {UnityFile(n) : n \in 1..SeenAt(t, o, c, k)}
<1>1. Told(t, o, c, k) = files \cup UNION {told(d) : d \in Contexts(t)}
  BY DEF Told
<1>2. x \in files <=> \E n \in 1..SeenAt(t, o, c, k) : x = UnityFile(n)
  OBVIOUS
<1>3. \A d : x \in told(d) <=> \E i \in DOMAIN ItemsOf(t, d) :
                                Precedes(d, i, c, k) /\ x \in Means(t, o, d, i)
  BY Zenon
<1> HIDE DEF told, files
<1>4. x \in UNION {told(d) : d \in Contexts(t)} <=> \E d \in Contexts(t) : x \in told(d)
  BY Zenon
<1> QED
  BY <1>1, <1>2, <1>3, <1>4, Zenon

\* What is told when the next item is reached: a leaf, into a folder, out of it.
LEMMA ToldNext ==
  ASSUME NEW t \in Trees, NEW o, NEW c \in Contexts(t), NEW k \in 1..Len(ItemsOf(t, c)),
         ItemsOf(t, c)[k].word \notin FolderWords
  PROVE  /\ SeenAt(t, o, c, k + 1) = SeenAt(t, o, c, k)
         /\ Told(t, o, c, k + 1) = Told(t, o, c, k) \cup Means(t, o, c, k)
<1>1. c \in Nat /\ DOMAIN ItemsOf(t, c) = 1..Len(ItemsOf(t, c)) /\ Len(ItemsOf(t, c)) \in Nat
  BY TreeItems DEF Contexts
<1>2. \A d \in Contexts(t) : d \in Nat /\ DOMAIN ItemsOf(t, d) \subseteq Nat
  BY TreeItems DEF Contexts
<1>3. SeenAt(t, o, c, k + 1) = SeenAt(t, o, c, k)
  <2>1. CASE c = 0
    <3>1. k - 1 \in Nat /\ k - 1 + 1 = k /\ k + 1 - 1 = k
      BY <1>1
    <3>2. t[k].word # "$Unity"
      BY <2>1 DEF ItemsOf, FolderWords
    <3>3. Number(t, o, k) = Number(t, o, k - 1)
      <4> DEFINE i == k - 1
      <4>1. i \in Nat /\ t[i + 1].word # "$Unity" /\ i + 1 = k
        BY <3>1, <3>2
      <4> HIDE DEF i
      <4>2. Number(t, o, i + 1) = Number(t, o, i)
        BY <4>1, NumberNext
      <4> QED
        BY <4>1, <4>2 DEF i
    <3> QED
      BY <2>1, <3>1, <3>3 DEF SeenAt
  <2>2. CASE c # 0
    BY <2>2 DEF SeenAt
  <2> QED
    BY <2>1, <2>2
<1>4. ASSUME NEW d \in Contexts(t), NEW i \in DOMAIN ItemsOf(t, d)
      PROVE  Precedes(d, i, c, k + 1) <=> Precedes(d, i, c, k) \/ (d = c /\ i = k)
  <2>1. d \in Nat /\ i \in Nat /\ k \in Nat
    BY <1>1, <1>2
  <2>2. CASE d = c
    BY <2>1, <2>2 DEF Precedes
  <2>3. CASE d # c /\ c = 0
    <3>1. d # k
      BY <2>3 DEF Contexts, ItemsOf
    <3> QED
      BY <2>1, <2>3, <3>1 DEF Precedes, Top
  <2>4. CASE d # c /\ c # 0
    BY <2>4 DEF Precedes, Top
  <2> QED
    BY <2>2, <2>3, <2>4
<1>5. ASSUME NEW x
      PROVE  x \in Told(t, o, c, k + 1) <=> x \in Told(t, o, c, k) \/ x \in Means(t, o, c, k)
  <2>1. k \in DOMAIN ItemsOf(t, c)
    BY <1>1
  <2> QED
    BY <1>3, <1>4, <2>1, ToldThere, Zenon
<1> QED
  BY <1>3, <1>5

\* Into a folder: its unity file is told.
LEMMA ToldInside ==
  ASSUME NEW t \in Trees, NEW o, NEW c \in Contexts(t) \ {0}
  PROVE  Told(t, o, c, 1) =
           Told(t, o, 0, c) \cup IF t[c].word = "$Unity" THEN {UnityFile(Number(t, o, c))} ELSE {}
<1>1. c \in 1..Len(t) /\ c \in Nat /\ c - 1 \in Nat /\ c - 1 + 1 = c
  BY TreeItems DEF Contexts
<1>2. \A d \in Contexts(t) : d \in Nat /\ DOMAIN ItemsOf(t, d) \subseteq Nat \ {0}
  BY TreeItems DEF Contexts
<1>3. ASSUME NEW d \in Contexts(t), NEW i \in DOMAIN ItemsOf(t, d)
      PROVE  Precedes(d, i, c, 1) <=> Precedes(d, i, 0, c)
  <2>1. d \in Nat /\ i \in Nat \ {0} /\ c # 0
    BY <1>2
  <2> QED
    BY <1>1, <2>1 DEF Precedes, Top
<1>4. /\ SeenAt(t, o, c, 1) = Number(t, o, c) /\ SeenAt(t, o, 0, c) = Number(t, o, c - 1)
      /\ Number(t, o, c - 1) \in Nat /\ Number(t, o, c) \in Nat
      /\ Number(t, o, c) = IF t[c].word = "$Unity" THEN Number(t, o, c - 1) + 1
                           ELSE Number(t, o, c - 1)
  <2> DEFINE i == c - 1
  <2>1. i \in Nat /\ i + 1 = c /\ c \in Nat
    BY <1>1
  <2> HIDE DEF i
  <2>2. /\ Number(t, o, i) \in Nat /\ Number(t, o, c) \in Nat
        /\ Number(t, o, c) = IF t[c].word = "$Unity" THEN Number(t, o, i) + 1 ELSE Number(t, o, i)
    BY <2>1, NumberNext
  <2> QED
    BY <2>2 DEF SeenAt, i
<1> DEFINE new == IF t[c].word = "$Unity" THEN {UnityFile(Number(t, o, c))} ELSE {}
<1>5. {UnityFile(n) : n \in 1..SeenAt(t, o, c, 1)} = {UnityFile(n) : n \in 1..SeenAt(t, o, 0, c)} \cup new
  <2>1. CASE t[c].word = "$Unity"
    <3>1. 1..Number(t, o, c) = 1..Number(t, o, c - 1) \cup {Number(t, o, c)}
      BY <1>4, <2>1
    <3> QED
      BY <1>4, <2>1, <3>1
  <2>2. CASE t[c].word # "$Unity"
    BY <1>4, <2>2
  <2> QED
    BY <2>1, <2>2
<1> HIDE DEF new
<1>6. ASSUME NEW x
      PROVE  x \in Told(t, o, c, 1) <=> x \in Told(t, o, 0, c) \/ x \in new
  <2>1. (\E n \in 1..SeenAt(t, o, c, 1) : x = UnityFile(n))
          <=> (\E n \in 1..SeenAt(t, o, 0, c) : x = UnityFile(n)) \/ x \in new
    BY <1>5
  <2> QED
    BY <1>3, <2>1, ToldThere, Zenon
<1> QED
  BY <1>6 DEF new

\* Out of a folder: nothing is told.
LEMMA ToldOutside ==
  ASSUME NEW t \in Trees, NEW o, NEW c \in Contexts(t) \ {0}
  PROVE  Told(t, o, 0, c + 1) = Told(t, o, c, Len(t[c].inner) + 1)
<1> DEFINE n == Len(t[c].inner)
<1>1. /\ c \in Nat /\ c # 0 /\ ItemsOf(t, c) = t[c].inner /\ n \in Nat
      /\ DOMAIN ItemsOf(t, c) = 1..n
  <2>1. c \in Nat /\ ItemsOf(t, c) = t[c].inner
    BY TreeItems DEF Contexts, ItemsOf
  <2> QED
    BY <2>1, TreeItems
<1>2. \A d \in Contexts(t) : d \in Nat /\ DOMAIN ItemsOf(t, d) \subseteq Nat \ {0}
  BY TreeItems DEF Contexts
<1>3. Means(t, o, 0, c) = {}
  <2>1. t[c].word \notin FileWords
    BY TreeItems DEF Contexts, FolderWords, FileWords
  <2> QED
    BY <2>1 DEF Means, ItemFacts, ItemsOf
<1>4. ASSUME NEW d \in Contexts(t), NEW i \in DOMAIN ItemsOf(t, d)
      PROVE  Precedes(d, i, 0, c + 1) <=> Precedes(d, i, c, n + 1) \/ (d = 0 /\ i = c)
  <2>1. d \in Nat /\ i \in Nat \ {0}
    BY <1>2
  <2>2. CASE d = 0
    BY <1>1, <2>1, <2>2 DEF Precedes, Top
  <2>3. CASE d = c
    BY <1>1, <2>1, <2>3 DEF Precedes, Top
  <2>4. CASE d # 0 /\ d # c
    BY <1>1, <2>1, <2>4 DEF Precedes, Top
  <2> QED
    BY <2>2, <2>3, <2>4
<1>5. SeenAt(t, o, 0, c + 1) = SeenAt(t, o, c, n + 1)
  <2>1. c + 1 - 1 = c
    BY <1>1
  <2> QED
    BY <1>1, <2>1 DEF SeenAt
<1>6. ASSUME NEW x
      PROVE  x \in Told(t, o, 0, c + 1) <=> x \in Told(t, o, c, n + 1)
  <2>1. x \notin Means(t, o, 0, c)
    BY <1>3
  <2> HIDE DEF n
  <2> QED
    BY <1>4, <1>5, <2>1, ToldThere, Zenon
<1> QED
  BY <1>6

\* At the first item there is the unity file of the outermost folder.
LEMMA ToldFirst ==
  ASSUME NEW t \in Trees, NEW o
  PROVE  Told(t, o, 0, 1) = IF o = "$Unity" THEN {UnityFile(1)} ELSE {}
<1>1. ASSUME NEW d \in Contexts(t), NEW i \in DOMAIN ItemsOf(t, d)
      PROVE  ~Precedes(d, i, 0, 1)
  <2>1. d \in Nat /\ i \in Nat \ {0}
    BY TreeItems DEF Contexts
  <2> QED
    BY <2>1 DEF Precedes, Top
<1>2. SeenAt(t, o, 0, 1) = OwnUnity(o)
  <2>1. 1 - 1 = 0
    OBVIOUS
  <2> QED
    BY <2>1, NumberNext DEF SeenAt
<1>3. {UnityFile(n) : n \in 1..OwnUnity(o)} = IF o = "$Unity" THEN {UnityFile(1)} ELSE {}
  <2>1. CASE o = "$Unity"
    <3>1. 1..OwnUnity(o) = {1}
      BY <2>1 DEF OwnUnity
    <3> QED
      BY <2>1, <3>1
  <2>2. CASE o # "$Unity"
    <3>1. 1..OwnUnity(o) = {}
      BY <2>2 DEF OwnUnity
    <3> QED
      BY <2>2, <3>1
  <2> QED
    BY <2>1, <2>2
<1>4. ASSUME NEW x
      PROVE  x \in Told(t, o, 0, 1) <=> x \in {UnityFile(n) : n \in 1..OwnUnity(o)}
  BY <1>1, <1>2, ToldThere, Zenon
<1> QED
  BY <1>3, <1>4

-----------------------------------------------------------------------------
(***************************************************************************)
(* Past the last item everything is told, and past the last file of an     *)
(* item what the item says.                                                *)
(***************************************************************************)
LEMMA MeantIsTold ==
  ASSUME tree \in Trees
  PROVE  Meant = Told(tree, outer, 0, Len(tree) + 1)
<1> DEFINE n == Len(tree)
           unity == OwnUnity(outer)
           active(i) == ActiveAt(tree, i, << >>)
           files == {UnityFile(m) : m \in 1..Number(tree, outer, n)}
           ofFolder(i) == IF tree[i].word = "$Unity" THEN Number(tree, outer, i) ELSE unity
           top == UNION {ItemFacts(tree[i], active(i), unity) : i \in DOMAIN tree}
           inner(i) == ItemsFacts(tree[i].inner, active(i), ofFolder(i))
<1>1. Meant = files \cup top \cup UNION {inner(i) : i \in DOMAIN tree}
  BY DEF Meant, Number, OwnUnity, ItemsFacts
<1>2. /\ n \in Nat /\ DOMAIN tree = 1..n
      /\ \A i \in 1..n : \/ tree[i].word \in FolderWords
                         \/ tree[i].word \notin FolderWords /\ tree[i].inner = << >>
  BY TreeItems
<1>3. 0 \in Contexts(tree) /\ \A d \in Contexts(tree) : d = 0 \/ (d # 0 /\ d \in DOMAIN tree)
  BY <1>2 DEF Contexts
<1>4. ASSUME NEW d \in Contexts(tree), NEW i \in DOMAIN ItemsOf(tree, d)
      PROVE  Precedes(d, i, 0, n + 1)
  <2>1. i \in 1..Len(ItemsOf(tree, d)) /\ Len(ItemsOf(tree, d)) \in Nat
    BY <1>4, TreeItems
  <2>2. CASE d = 0
    BY <1>2, <2>1, <2>2 DEF Precedes, ItemsOf
  <2>3. CASE d # 0
    BY <1>2, <1>3, <2>3 DEF Precedes, Top
  <2> QED
    BY <2>2, <2>3
<1>5. SeenAt(tree, outer, 0, n + 1) = Number(tree, outer, n)
  <2>1. n + 1 - 1 = n
    BY <1>2
  <2> QED
    BY <2>1 DEF SeenAt
<1>6. \A i : Means(tree, outer, 0, i) = ItemFacts(tree[i], active(i), unity)
  BY DEF Means, ItemsOf, ActiveIn, UnityOf
<1>7. \A d, i : d # 0 => Means(tree, outer, d, i) =
        ItemFacts(tree[d].inner[i], ActiveAt(tree[d].inner, i, active(d)), ofFolder(d))
  BY DEF Means, ItemsOf, ActiveIn, UnityOf
<1>8. ASSUME NEW x
      PROVE  x \in Meant <=> x \in Told(tree, outer, 0, n + 1)
  <2>1. x \in top <=> \E i \in DOMAIN tree : x \in Means(tree, outer, 0, i)
    BY <1>6
  <2>2. ASSUME NEW d \in DOMAIN tree
        PROVE  x \in inner(d) <=> /\ d \in Contexts(tree)
                                  /\ \E i \in DOMAIN ItemsOf(tree, d) : x \in Means(tree, outer, d, i)
    <3>1. d # 0 /\ ItemsOf(tree, d) = tree[d].inner
      BY <1>2 DEF ItemsOf
    <3>2. x \in inner(d) <=> \E i \in DOMAIN tree[d].inner : x \in Means(tree, outer, d, i)
      <4>1. inner(d) = UNION {ItemFacts(tree[d].inner[i], ActiveAt(tree[d].inner, i, active(d)),
                                        ofFolder(d)) : i \in DOMAIN tree[d].inner}
        BY DEF ItemsFacts
      <4> HIDE DEF inner, active, ofFolder
      <4> QED
        BY <1>7, <3>1, <4>1
    <3>3. CASE tree[d].word \in FolderWords
      BY <3>1, <3>2, <3>3 DEF Contexts
    <3>4. CASE tree[d].word \notin FolderWords
      <4>1. DOMAIN tree[d].inner = {}
        BY <1>2, <3>4
      <4>2. d \notin Contexts(tree)
        BY <3>1, <3>4 DEF Contexts
      <4> QED
        BY <3>2, <4>1, <4>2
    <3> QED
      BY <3>3, <3>4
  <2>3. x \in files <=> \E m \in 1..Number(tree, outer, n) : x = UnityFile(m)
    OBVIOUS
  <2>4. x \in UNION {inner(i) : i \in DOMAIN tree} <=> \E i \in DOMAIN tree : x \in inner(i)
    OBVIOUS
  <2>5. ItemsOf(tree, 0) = tree
    BY DEF ItemsOf
  <2> HIDE DEF files, top, inner, n
  <2>6. x \in Told(tree, outer, 0, n + 1) <=>
          \/ x \in files
          \/ \E d \in Contexts(tree) : \E i \in DOMAIN ItemsOf(tree, d) : x \in Means(tree, outer, d, i)
    BY <1>4, <1>5, <2>3, ToldThere, Zenon
  <2>7. (\E d \in Contexts(tree) : \E i \in DOMAIN ItemsOf(tree, d) : x \in Means(tree, outer, d, i))
          <=> \/ x \in top
              \/ \E d \in DOMAIN tree : x \in inner(d)
    <3>1. \A d \in DOMAIN tree : d # 0
      BY <1>2
    <3> QED
      BY <1>3, <2>1, <2>2, <2>5, <3>1, Zenon
  <2> QED
    BY <1>1, <2>4, <2>6, <2>7, Zenon
<1> QED
  BY <1>8

-----------------------------------------------------------------------------
(***************************************************************************)
(* One $File: what is told of the files before one of its list.            *)
(***************************************************************************)
LEMMA ToldOfNext ==
  ASSUME NEW item, NEW active, NEW unity
  PROVE  /\ ToldOf(item, active, unity, 1) =
              {<<f, "excluded", 0>> : f \in ToSet(NamesWith(item.list, {"false"}))}
         /\ ~AnyRead(item, 1)
         /\ \A j \in Nat \ {0} :
              /\ ToldOf(item, active, unity, j + 1) =
                   ToldOf(item, active, unity, j) \cup FileFacts(FilesOf(item)[j], item, active, unity)
              /\ AnyRead(item, j + 1) <=> AnyRead(item, j) \/ FilesOf(item)[j] \notin Unresolved
<1> DEFINE excluded == {<<f, "excluded", 0>> : f \in ToSet(NamesWith(item.list, {"false"}))}
           F(m) == FileFacts(FilesOf(item)[m], item, active, unity)
<1>1. \A j : ToldOf(item, active, unity, j) = excluded \cup UNION {F(m) : m \in 1..(j - 1)}
  BY DEF ToldOf
<1> HIDE DEF excluded, F
<1>2. 1..(1 - 1) = {}
  OBVIOUS
<1>3. ToldOf(item, active, unity, 1) = excluded /\ ~AnyRead(item, 1)
  BY <1>1, <1>2 DEF AnyRead
<1>4. ASSUME NEW j \in Nat \ {0}
      PROVE  /\ ToldOf(item, active, unity, j + 1) = ToldOf(item, active, unity, j) \cup F(j)
             /\ AnyRead(item, j + 1) <=> AnyRead(item, j) \/ FilesOf(item)[j] \notin Unresolved
  <2>1. 1..(j + 1 - 1) = 1..(j - 1) \cup {j}
    OBVIOUS
  <2>2. UNION {F(m) : m \in 1..(j - 1) \cup {j}} = (UNION {F(m) : m \in 1..(j - 1)}) \cup F(j)
    BY Zenon
  <2>3. ToldOf(item, active, unity, j + 1) = ToldOf(item, active, unity, j) \cup F(j)
    BY <1>1, <2>1, <2>2
  <2>4. AnyRead(item, j + 1) <=> AnyRead(item, j) \/ FilesOf(item)[j] \notin Unresolved
    BY <2>1 DEF AnyRead
  <2> QED
    BY <2>3, <2>4
<1> QED
  BY <1>3, <1>4 DEF excluded, F

\* When all files of the list are done, the item has been told.
LEMMA ItemTold ==
  ASSUME NEW item, IsLeaf(item), item.word \in FileWords, ~MissingTwice(item),
         NEW active, NEW unity
  PROVE  ItemFacts(item, active, unity) =
           IF item.section /\ FilesOf(item) = << >> THEN {}
           ELSE ToldOf(item, active, unity, Len(FilesOf(item)) + 1)
<1> DEFINE files == FilesOf(item)
           excluded == {<<f, "excluded", 0>> : f \in ToSet(NamesWith(item.list, {"false"}))}
           F(f) == FileFacts(f, item, active, unity)
<1>1. /\ Len(files) \in Nat /\ ToSet(files) = {files[m] : m \in 1..Len(files)}
      /\ files = << >> <=> Len(files) = 0
      /\ Existing(item) = ToSet(files)
  BY FilesFound DEF IsLeaf
<1> HIDE DEF files
<1>2. Existing(item) = {} <=> files = << >>
  <2>1. ToSet(files) = {} <=> Len(files) = 0
    <3>1. CASE Len(files) = 0
      <4>1. 1..Len(files) = {}
        BY <3>1
      <4> QED
        BY <1>1, <3>1, <4>1
    <3>2. CASE Len(files) # 0
      <4>1. 1 \in 1..Len(files)
        BY <1>1, <3>2
      <4> QED
        BY <1>1, <3>2, <4>1
    <3> QED
      BY <3>1, <3>2
  <2> QED
    BY <1>1, <2>1
<1>3. ItemFacts(item, active, unity) =
        IF files = << >> /\ item.section THEN {}
        ELSE excluded \cup UNION {F(f) : f \in ToSet(files)}
  BY <1>1, <1>2 DEF ItemFacts
<1>4. ToldOf(item, active, unity, Len(files) + 1) = excluded \cup UNION {F(files[m]) : m \in 1..Len(files)}
  <2>1. Len(files) + 1 - 1 = Len(files)
    BY <1>1
  <2> QED
    BY <2>1 DEF ToldOf, files
<1> HIDE DEF excluded, F
<1>5. UNION {F(f) : f \in ToSet(files)} = UNION {F(files[m]) : m \in 1..Len(files)}
  <2> DEFINE X == 1..Len(files)
             Y == ToSet(files)
  <2>1. Y = {files[m] : m \in X}
    BY <1>1
  <2> HIDE DEF X, Y
  <2>2. UNION {F(f) : f \in Y} = UNION {F(files[m]) : m \in X}
    BY <2>1
  <2> QED
    BY <2>2 DEF X, Y
<1> QED
  BY <1>3, <1>4, <1>5 DEF files

\* A section is parsed for one of the files at least.
LEMMA SectionRead ==
  ASSUME NEW item, IsLeaf(item), item.word \in FileWords, ~SectionUnread(item),
         item.section, FilesOf(item) # << >>
  PROVE  AnyRead(item, Len(FilesOf(item)) + 1)
<1> DEFINE files == FilesOf(item)
<1>1. /\ Len(files) \in Nat /\ ToSet(files) = {files[m] : m \in 1..Len(files)}
      /\ files = << >> <=> Len(files) = 0
      /\ Existing(item) \subseteq ToSet(files)
      /\ ToSet(files) \subseteq Existing(item) \cup Missing
  BY FilesFound DEF IsLeaf
<1> HIDE DEF files
<1>2. \E f \in ToSet(files) : f \notin Unresolved
  <2>1. CASE Existing(item) # {}
    <3>1. ~(Existing(item) \subseteq Unresolved)
      BY <2>1 DEF SectionUnread
    <3> QED
      BY <1>1, <3>1
  <2>2. CASE Existing(item) = {}
    <3>1. 1 \in 1..Len(files)
      BY <1>1 DEF files
    <3>2. files[1] \in ToSet(files) /\ files[1] \in Missing
      BY <1>1, <2>2, <3>1
    <3> QED
      BY <3>2, FolderAssumption
  <2> QED
    BY <2>1, <2>2
<1>3. PICK m \in 1..Len(files) : files[m] \notin Unresolved
  BY <1>1, <1>2
<1>4. Len(files) + 1 - 1 = Len(files)
  BY <1>1
<1> QED
  BY <1>3, <1>4 DEF AnyRead, files

-----------------------------------------------------------------------------
(***************************************************************************)
(* The braces before a place are those of the folders that are open.       *)
(***************************************************************************)
LEMMA NoBrace ==
  ASSUME NEW word, word \notin {"{", "}"}, NEW list, NEW conf
  PROVE  Lexeme(word, list, conf) # OpenBrace /\ Lexeme(word, list, conf) # CloseBrace
<1>1. Lexeme(word, list, conf).word = word /\ OpenBrace.word = "{" /\ CloseBrace.word = "}"
  BY DEF Lexeme, OpenBrace, CloseBrace
<1> QED
  BY <1>1

LEMMA BracesDiffer == OpenBrace # CloseBrace
<1>1. OpenBrace.word = "{" /\ CloseBrace.word = "}"
  BY DEF Lexeme, OpenBrace, CloseBrace
<1> QED
  BY <1>1

\* The braces before the next position, and before one with no brace on the way.
LEMMA BracesNext ==
  ASSUME NEW brace, NEW p \in Nat \ {0}
  PROVE  /\ BracesBefore(p, brace) \in Nat
         /\ BracesBefore(p + 1, brace) =
              BracesBefore(p, brace) + (IF text[p] = brace THEN 1 ELSE 0)
         /\ BracesBefore(1, brace) = 0
         /\ \A q \in Nat : p <= q /\ (\A j \in p..(q - 1) : text[j] # brace)
              => BracesBefore(q, brace) = BracesBefore(p, brace)
<1> DEFINE before(i) == {j \in 1..(i - 1) : text[j] = brace}
<1>1. \A i : BracesBefore(i, brace) = Cardinality(before(i))
  BY DEF BracesBefore
<1>2. IsFiniteSet(before(p)) /\ Cardinality(before(p)) \in Nat
  <2>1. IsFiniteSet(1..(p - 1)) /\ before(p) \subseteq 1..(p - 1)
    BY FS_Interval
  <2> HIDE DEF before
  <2> QED
    BY <2>1, FS_Subset, FS_CardinalityType
<1>3. 1..(p + 1 - 1) = 1..(p - 1) \cup {p} /\ p \notin 1..(p - 1)
  OBVIOUS
<1>4. BracesBefore(p + 1, brace) = BracesBefore(p, brace) + (IF text[p] = brace THEN 1 ELSE 0)
  <2>1. CASE text[p] = brace
    <3>1. before(p + 1) = before(p) \cup {p} /\ p \notin before(p)
      BY <1>3, <2>1
    <3> HIDE DEF before
    <3>2. Cardinality(before(p + 1)) = Cardinality(before(p)) + 1
      BY <1>2, <3>1, FS_AddElement
    <3> QED
      BY <1>1, <2>1, <3>2
  <2>2. CASE text[p] # brace
    <3>1. before(p + 1) = before(p)
      BY <1>3, <2>2
    <3> HIDE DEF before
    <3> QED
      BY <1>1, <1>2, <2>2, <3>1
  <2> QED
    BY <2>1, <2>2
<1>5. BracesBefore(1, brace) = 0
  <2>1. before(1) = {}
    OBVIOUS
  <2> QED
    BY <1>1, <2>1, FS_EmptySet
<1>6. ASSUME NEW q \in Nat, p <= q, \A j \in p..(q - 1) : text[j] # brace
      PROVE  BracesBefore(q, brace) = BracesBefore(p, brace)
  <2>1. 1..(q - 1) = 1..(p - 1) \cup p..(q - 1)
    BY <1>6
  <2>2. before(q) = before(p)
    BY <1>6, <2>1
  <2> HIDE DEF before
  <2> QED
    BY <1>1, <2>2
<1>7. BracesBefore(p, brace) \in Nat
  BY <1>1, <1>2
<1> QED
  BY <1>4, <1>5, <1>6, <1>7

\* The balance of the braces over a leaf, into a folder and out of it.
LEMMA BalanceOverLeaf ==
  ASSUME NEW item, IsLeaf(item), NEW p \in Nat \ {0}, NEW q, LeafLies(text, p, item, q),
         NEW n, Balanced(p, n)
  PROVE  Balanced(q, n)
<1> DEFINE opened(i) == BracesBefore(i, OpenBrace)
           closed(i) == BracesBefore(i, CloseBrace)
           m == Len(item.confs)
<1>1. n = 1 + opened(p) - closed(p)
  BY DEF Balanced
<1>2. m \in Nat
  BY LenProperties DEF IsLeaf
<1>3. CASE item.word = "$Configuration" \/ (item.word \in FileWords /\ ~item.section)
  <2>1. /\ text[p] \in {Lexeme("$Configuration", << >>, item.confs),
                         Lexeme(item.word, item.list, << >>)}
        /\ q = p + 1
    BY <1>3, Zenon DEF LeafLies
  <2>2. text[p] # OpenBrace /\ text[p] # CloseBrace
    <3>1. item.word \notin {"{", "}"} /\ "$Configuration" \notin {"{", "}"}
      BY <1>3 DEF FileWords
    <3> QED
      BY <2>1, <3>1, NoBrace, Zenon
  <2>3. opened(q) = opened(p) + 0 /\ closed(q) = closed(p) + 0
    BY <2>1, <2>2, BracesNext
  <2>4. opened(p) \in Nat /\ closed(p) \in Nat
    BY BracesNext
  <2> HIDE DEF opened, closed
  <2>5. n = 1 + opened(q) - closed(q)
    BY <1>1, <2>3, <2>4
  <2> QED
    BY <2>5 DEF Balanced, opened, closed
<1>4. CASE item.word \in FileWords /\ item.section
  <2>1. /\ text[p] = Lexeme(item.word, item.list, << >>)
        /\ text[p + 1] = OpenBrace
        /\ \A i \in 1..m : text[p + 1 + i] = Lexeme("$Configuration", << >>, <<item.confs[i]>>)
        /\ text[p + 2 + m] = CloseBrace
        /\ q = p + 3 + m
    BY <1>4 DEF LeafLies
  <2> HIDE DEF m
  <2>2. text[p] # OpenBrace /\ text[p] # CloseBrace
    <3>1. item.word \notin {"{", "}"}
      BY <1>4 DEF FileWords
    <3> QED
      BY <2>1, <3>1, NoBrace, Zenon
  <2> DEFINE r == p + 2
             s == p + 2 + m
  <2>3. \A j \in r..(s - 1) : text[j] # OpenBrace /\ text[j] # CloseBrace
    <3> TAKE j \in r..(s - 1)
    <3> DEFINE i == j - (p + 1)
    <3>1. i \in 1..m /\ p + 1 + i = j
      BY <1>2
    <3> HIDE DEF i
    <3>2. text[j] = Lexeme("$Configuration", << >>, <<item.confs[i]>>)
      BY <2>1, <3>1
    <3> QED
      BY <3>2, NoBrace
  <2>4. p + 1 \in Nat \ {0} /\ p + 2 \in Nat \ {0} /\ p + 2 + m \in Nat \ {0} /\ p + 2 <= p + 2 + m
        /\ p + 1 + 1 = p + 2 /\ p + 2 + m + 1 = q
    BY <1>2, <2>1
  <2>5. OpenBrace # CloseBrace
    BY BracesDiffer
  <2>6. opened(p) \in Nat /\ closed(p) \in Nat /\ opened(p + 1) \in Nat /\ closed(p + 1) \in Nat
    BY <2>4, BracesNext
  <2>7. opened(p + 1) = opened(p) + 0 /\ closed(p + 1) = closed(p) + 0
    BY <2>2, BracesNext
  <2>8. opened(p + 2) = opened(p + 1) + 1 /\ closed(p + 2) = closed(p + 1) + 0
    BY <2>1, <2>4, <2>5, BracesNext
  <2>9. opened(p + 2 + m) = opened(p + 2) /\ closed(p + 2 + m) = closed(p + 2)
    <3>1. r \in Nat \ {0} /\ s \in Nat /\ r <= s
      BY <2>4
    <3> HIDE DEF r, s
    <3>2. BracesBefore(s, OpenBrace) = BracesBefore(r, OpenBrace)
      <4>1. \A j \in r..(s - 1) : text[j] # OpenBrace
        BY <2>3, Zenon
      <4> QED
        BY <3>1, <4>1, BracesNext
    <3>3. BracesBefore(s, CloseBrace) = BracesBefore(r, CloseBrace)
      <4>1. \A j \in r..(s - 1) : text[j] # CloseBrace
        BY <2>3, Zenon
      <4> QED
        BY <3>1, <4>1, BracesNext
    <3> QED
      BY <3>2, <3>3 DEF r, s
  <2>10. opened(q) = opened(p + 2 + m) + 0 /\ closed(q) = closed(p + 2 + m) + 1
    BY <2>1, <2>4, <2>5, BracesNext
  <2> HIDE DEF opened, closed
  <2>11. n = 1 + opened(q) - closed(q)
    BY <1>1, <2>6, <2>7, <2>8, <2>9, <2>10
  <2> QED
    BY <2>11 DEF Balanced, opened, closed
<1> QED
  BY <1>3, <1>4 DEF IsLeaf

\* Past the opening brace there is one folder more.
LEMMA BalanceIntoFolder ==
  ASSUME NEW p \in Nat \ {0}, NEW word \in FolderWords,
         text[p] = Lexeme(word, << >>, << >>), text[p + 1] = OpenBrace,
         NEW n, Balanced(p, n)
  PROVE  Balanced(p + 2, n + 1)
<1> DEFINE opened(i) == BracesBefore(i, OpenBrace)
           closed(i) == BracesBefore(i, CloseBrace)
<1>1. text[p] # OpenBrace /\ text[p] # CloseBrace
  BY NoBrace DEF FolderWords
<1>2. p + 1 \in Nat \ {0} /\ p + 1 + 1 = p + 2
  OBVIOUS
<1>3. opened(p) \in Nat /\ closed(p) \in Nat /\ n = 1 + opened(p) - closed(p)
  BY BracesNext DEF Balanced
<1>4. opened(p + 1) = opened(p) + 0 /\ closed(p + 1) = closed(p) + 0
  BY <1>1, BracesNext
<1>5. opened(p + 2) = opened(p + 1) + 1 /\ closed(p + 2) = closed(p + 1) + 0
  BY <1>2, BracesNext, BracesDiffer
<1> HIDE DEF opened, closed
<1>6. n + 1 = 1 + opened(p + 2) - closed(p + 2)
  BY <1>3, <1>4, <1>5
<1> QED
  BY <1>6 DEF Balanced, opened, closed

\* Past the closing brace there is one folder less.
LEMMA BalanceOutOfFolder ==
  ASSUME NEW p \in Nat \ {0}, text[p] = CloseBrace, NEW n, Balanced(p, n)
  PROVE  Balanced(p + 1, n - 1)
<1> DEFINE opened(i) == BracesBefore(i, OpenBrace)
           closed(i) == BracesBefore(i, CloseBrace)
<1>1. opened(p) \in Nat /\ closed(p) \in Nat /\ n = 1 + opened(p) - closed(p)
  BY BracesNext DEF Balanced
<1>2. opened(p + 1) = opened(p) + 0 /\ closed(p + 1) = closed(p) + 1
  BY BracesNext, BracesDiffer
<1> HIDE DEF opened, closed
<1>3. n - 1 = 1 + opened(p + 1) - closed(p + 1)
  BY <1>1, <1>2
<1> QED
  BY <1>3 DEF Balanced, opened, closed

-----------------------------------------------------------------------------
(***************************************************************************)
(* What is there at a place: the folders that are open, the token.         *)
(***************************************************************************)
LEMMA WrittenStays ==
  ASSUME StaysWritten
  PROVE  /\ Calm' <=> Calm
         /\ Clean' <=> Clean
         /\ Written' <=> Written
         /\ \A c, k : Spot(c, k)' <=> Spot(c, k)
         /\ \A i, n : Balanced(i, n)' <=> Balanced(i, n)
<1>1. (Calm' <=> Calm) /\ (Clean' <=> Clean)
  BY DEF StaysWritten, Calm, Clean, AllItems
<1>2. Written' <=> Written
  BY DEF StaysWritten, Written
<1>3. \A c, k : Spot(c, k)' <=> Spot(c, k)
  BY DEF StaysWritten, Spot
<1>4. \A i, n : Balanced(i, n)' <=> Balanced(i, n)
  BY DEF StaysWritten, Balanced, BracesBefore
<1> QED
  BY <1>1, <1>2, <1>3, <1>4

\* The folder that is innermost, with its settings and whether it is a $Unity.
LEMMA OpenAtEnds ==
  ASSUME NEW t, NEW o, NEW c, NEW k
  PROVE  LET open == OpenAt(t, o, c, k)
         IN  /\ open # << >>
             /\ Len(open) = IF c = 0 THEN 1 ELSE 2
             /\ Last(open).active = ActiveIn(t, c, k)
             /\ Last(open).bUnity = ((IF c = 0 THEN o ELSE t[c].word) = "$Unity")
<1> DEFINE outermost == [active |-> ActiveAt(t, Top(c, k), << >>), bUnity |-> o = "$Unity"]
           inner == [active |-> ActiveIn(t, c, k), bUnity |-> t[c].word = "$Unity"]
           open == OpenAt(t, o, c, k)
<1>1. CASE c = 0
  <2>1. open = <<outermost>>
    BY <1>1 DEF OpenAt
  <2>2. outermost.active = ActiveIn(t, c, k) /\ outermost.bUnity = (o = "$Unity")
    BY <1>1 DEF Top, ActiveIn
  <2> HIDE DEF outermost, open
  <2>3. open # << >> /\ Len(open) = 1 /\ Last(open) = outermost
    BY <2>1 DEF Last
  <2> QED
    BY <1>1, <2>2, <2>3, Zenon DEF open
<1>2. CASE c # 0
  <2>1. open = <<outermost, inner>>
    BY <1>2 DEF OpenAt
  <2>2. inner.active = ActiveIn(t, c, k) /\ inner.bUnity = (t[c].word = "$Unity")
    OBVIOUS
  <2> HIDE DEF outermost, open, inner
  <2>3. open # << >> /\ Len(open) = 2 /\ Last(open) = inner
    BY <2>1 DEF Last
  <2> QED
    BY <1>2, <2>2, <2>3, Zenon DEF open
<1> QED
  BY <1>1, <1>2

\* The unity file of the innermost $Unity, if there is one.
LEMMA StackAtEnds ==
  ASSUME NEW t \in Trees, NEW o, NEW c \in Contexts(t)
  PROVE  LET stack == StackAt(t, o, c)
         IN  /\ stack = << >> <=> UnityOf(t, o, c) = 0
             /\ stack # << >> => Last(stack) = UnityOf(t, o, c)
<1> DEFINE stack == StackAt(t, o, c)
           own == IF o = "$Unity" THEN <<1>> ELSE << >>
           number == Number(t, o, c)
<1>1. own = << >> \/ own = <<1>>
  OBVIOUS
<1>2. CASE c # 0 /\ t[c].word = "$Unity"
  <2>1. stack = own \o <<number>> /\ UnityOf(t, o, c) = number
    BY <1>2 DEF StackAt, UnityOf
  <2>2. c - 1 \in Nat /\ c - 1 + 1 = c
    BY <1>2, TreeItems DEF Contexts
  <2>3. number = Number(t, o, c - 1) + 1 /\ Number(t, o, c - 1) \in Nat
    BY <1>2, <2>2, NumberNext
  <2>4. number \in Nat /\ number # 0
    BY <2>3
  <2>5. stack = own \o <<number>>
    BY <2>1
  <2> HIDE DEF stack, own, number
  <2>6. stack # << >> /\ Last(stack) = number
    <3>1. own \in Seq(Nat) /\ <<number>> \in Seq(Nat) /\ Len(<<number>>) = 1 /\ <<number>>[1] = number
      <4>1. << >> \in Seq(Nat) /\ <<1>> \in Seq(Nat)
        BY EmptySeq
      <4>2. own \in Seq(Nat)
        BY <1>1, <4>1
      <4>3. <<number>> \in Seq(Nat) /\ Len(<<number>>) = 1 /\ <<number>>[1] = number
        BY <2>4
      <4> QED
        BY <4>2, <4>3
    <3>2. Len(own) \in Nat
      BY <3>1, LenProperties
    <3>3. /\ stack \in Seq(Nat) /\ Len(stack) = Len(own) + 1
          /\ \A i \in 1..(Len(own) + 1) :
               stack[i] = IF i <= Len(own) THEN own[i] ELSE <<number>>[i - Len(own)]
      BY <2>5, <3>1, ConcatProperties
    <3>4. stack[Len(stack)] = number
      BY <3>1, <3>2, <3>3
    <3>5. stack # << >>
      <4>1. Len(stack) # 0
        BY <3>2, <3>3
      <4> QED
        BY <4>1, EmptySeq
    <3> QED
      BY <3>4, <3>5 DEF Last
  <2> QED
    BY <2>1, <2>4, <2>6 DEF stack
<1>3. CASE ~(c # 0 /\ t[c].word = "$Unity")
  <2>1. stack = own \o << >> /\ UnityOf(t, o, c) = OwnUnity(o)
    BY <1>3 DEF StackAt, UnityOf
  <2>2. OwnUnity(o) = IF o = "$Unity" THEN 1 ELSE 0
    BY DEF OwnUnity
  <2>3. CASE o = "$Unity"
    <3>1. stack = <<1>> /\ UnityOf(t, o, c) = 1
      BY <2>1, <2>2, <2>3
    <3> HIDE DEF stack
    <3> QED
      BY <3>1 DEF Last, stack
  <2>4. CASE o # "$Unity"
    <3>1. stack = << >> /\ UnityOf(t, o, c) = 0
      BY <2>1, <2>2, <2>4
    <3> QED
      BY <3>1
  <2> QED
    BY <2>3, <2>4
<1> QED
  BY <1>2, <1>3

\* What stands in the text at item k of n items, from p to before q.
Stands(c, k, n, item, p, q) ==
  /\ n \in Nat /\ p \in Nat \ {0} /\ Len(text) \in Nat
  /\ text[p] # OpenBrace
  /\ k = n + 1 => text[p] = CloseBrace
  /\ k <= n =>
       /\ k \in 1..n /\ Spot(c, k + 1)
       /\ text[p].word = item.word
       /\ item \in AllItems
       /\ item.word \in FolderWords =>
            /\ c = 0 /\ k \in Contexts(tree) \ {0} /\ item = tree[k]
            /\ text[p] = Lexeme(item.word, << >>, << >>)
            /\ text[p + 1] = OpenBrace
       /\ item.word \notin FolderWords => IsLeaf(item) /\ LeafLies(text, p, item, q)

LEMMA ItemStands ==
  ASSUME Written, NEW c, NEW k, Spot(c, k)
  PROVE  Stands(c, k, Len(ItemsOf(tree, c)), ItemsOf(tree, c)[k], Place(tree, c, k),
                Place(tree, c, k + 1))
<1> DEFINE n == Len(ItemsOf(tree, c))
           item == ItemsOf(tree, c)[k]
           p == Place(tree, c, k)
<1> DEFINE q == Place(tree, c, k + 1)
<1> SUFFICES Stands(c, k, n, item, p, q)
  OBVIOUS
<1>1. tree \in Trees /\ Layout(tree, text) /\ c \in Contexts(tree) /\ k \in 1..(n + 1)
  BY TreeLaid DEF Written, Spot
<1>2. n \in Nat
  BY <1>1, TreeItems
<1>3. p \in Nat \ {0} /\ Len(text) \in Nat
  BY <1>1 DEF Layout
<1>4. CASE k = n + 1
  <2>1. text[p] = CloseBrace
    BY <1>1, <1>4 DEF Layout
  <2> HIDE DEF p, n, item, q
  <2>2. ~(k <= n)
    BY <1>2, <1>4
  <2> QED
    BY <1>2, <1>3, <1>4, <2>1, <2>2, BracesDiffer, Zenon DEF Stands
<1>5. CASE k <= n
  <2>1. k \in 1..n /\ k + 1 \in 1..(n + 1) /\ k # n + 1
    BY <1>1, <1>2, <1>5
  <2>2. Spot(c, k + 1)
    BY <1>1, <2>1 DEF Spot
  <2>3. item \in AllItems
    <3>1. item \in ToSet(ItemsOf(tree, c))
      BY <1>1, <2>1, TreeItems
    <3>2. CASE c = 0
      BY <3>1, <3>2 DEF ItemsOf, AllItems
    <3>3. CASE c # 0
      <4>1. c \in DOMAIN tree
        BY <1>1, <3>3 DEF Contexts
      <4> QED
        BY <3>1, <3>3, <4>1 DEF ItemsOf, AllItems
    <3> QED
      BY <3>2, <3>3
  <2>4. CASE item.word \in FolderWords
    <3>1. c = 0
      BY <1>1, <2>1, <2>4, TreeItems
    <3>2. item = tree[k] /\ n = Len(tree)
      BY <3>1 DEF ItemsOf
    <3>3. k \in DOMAIN tree /\ k # 0
      BY <1>1, <2>1, <3>2, TreeItems
    <3>4. k \in Contexts(tree) \ {0}
      BY <2>4, <3>2, <3>3 DEF Contexts
    <3>5. text[p] = Lexeme(item.word, << >>, << >>) /\ text[p + 1] = OpenBrace
      BY <1>1, <3>1, <3>2, <3>4 DEF Layout
    <3>6. text[p].word = item.word /\ text[p] # OpenBrace
      <4>1. item.word \notin {"{", "}"}
        BY <2>4 DEF FolderWords
      <4> DEFINE word == item.word
      <4>2. text[p] = Lexeme(word, << >>, << >>)
        BY <3>5
      <4> HIDE DEF word, p
      <4>3. text[p].word = word
        BY <4>2 DEF Lexeme
      <4> QED
        BY <4>1, <4>2, <4>3, NoBrace, Zenon DEF word
    <3> HIDE DEF p, n, item, q
    <3> QED
      BY <1>2, <1>3, <2>1, <2>2, <2>3, <2>4, <3>1, <3>2, <3>4, <3>5, <3>6, Zenon DEF Stands
  <2>5. CASE item.word \notin FolderWords
    <3>1. LeafLies(text, p, item, q)
      BY <1>1, <2>1, <2>5 DEF Layout
    <3>2. IsLeaf(item)
      <4>1. CASE c = 0
        BY <1>1, <2>1, <2>5, <4>1, TreeItems DEF ItemsOf
      <4>2. CASE c # 0
        BY <1>1, <2>1, <4>2, TreeItems
      <4> QED
        BY <4>1, <4>2
    <3>3. text[p].word = item.word /\ text[p] # OpenBrace
      <4>1. item.word \in FileWords \/ item.word = "$Configuration"
        BY <3>2 DEF IsLeaf
      <4>2. \E list, conf : text[p] = Lexeme(item.word, list, conf)
        BY <3>1, <4>1, Zenon DEF LeafLies
      <4>3. item.word \notin {"{", "}"}
        BY <4>1 DEF FileWords
      <4> DEFINE word == item.word
      <4>4. PICK list, conf : text[p] = Lexeme(word, list, conf)
        BY <4>2
      <4>5. word \notin {"{", "}"}
        BY <4>3
      <4> HIDE DEF word, p
      <4>6. text[p].word = word
        BY <4>4 DEF Lexeme
      <4>7. text[p] # OpenBrace
        BY <4>4, <4>5, NoBrace
      <4>8. text[p].word = item.word
        BY <4>6, Zenon DEF word
      <4> QED
        BY <4>7, <4>8, Zenon DEF p
    <3> HIDE DEF p, n, item, q
    <3> QED
      BY <1>2, <1>3, <2>1, <2>2, <2>3, <2>5, <3>1, <3>2, <3>3, Zenon DEF Stands
  <2> QED
    BY <2>4, <2>5
<1> QED
  <2>1. k = n + 1 \/ k <= n
    BY <1>1, <1>2
  <2> QED
    BY <2>1, <1>4, <1>5

-----------------------------------------------------------------------------
(***************************************************************************)
(* From one item to the next.                                              *)
(***************************************************************************)
\* The settings of the innermost folder change at a $Configuration only.
LEMMA OpenAtNext ==
  ASSUME NEW t \in Trees, NEW o, NEW c \in Contexts(t), NEW k \in 1..Len(ItemsOf(t, c))
  PROVE  LET item == ItemsOf(t, c)[k]
             open == OpenAt(t, o, c, k)
         IN  OpenAt(t, o, c, k + 1) =
               IF item.word = "$Configuration"
               THEN [open EXCEPT ![Len(open)].active = item.confs]
               ELSE open
<1> DEFINE item == ItemsOf(t, c)[k]
           active(i) == ActiveAt(t, Top(c, i), << >>)
           outermost(i) == [active |-> active(i), bUnity |-> o = "$Unity"]
           inner(i) == [active |-> ActiveIn(t, c, i), bUnity |-> t[c].word = "$Unity"]
           open == OpenAt(t, o, c, k)
           next == OpenAt(t, o, c, k + 1)
<1>1. k \in Nat \ {0}
  BY TreeItems
<1>2. CASE c = 0
  <2>1. active(k) = ActiveAt(t, k, << >>) /\ active(k + 1) = ActiveAt(t, k + 1, << >>)
    BY <1>2 DEF Top
  <2>2. active(k + 1) = IF item.word = "$Configuration" THEN item.confs ELSE active(k)
    <3>1. item = t[k]
      BY <1>2 DEF ItemsOf
    <3>2. ActiveAt(t, k + 1, << >>) =
            IF t[k].word = "$Configuration" THEN t[k].confs ELSE ActiveAt(t, k, << >>)
      BY <1>1, ActiveNext
    <3> QED
      BY <2>1, <3>1, <3>2
  <2>3. open = <<outermost(k)>> /\ next = <<outermost(k + 1)>>
    BY <1>2 DEF OpenAt
  <2>4. /\ outermost(k).bUnity = outermost(k + 1).bUnity
        /\ outermost(k + 1) = [outermost(k) EXCEPT !.active = active(k + 1)]
    OBVIOUS
  <2>5. outermost(k + 1) = outermost(k) \/ item.word = "$Configuration"
    BY <2>2
  <2> HIDE DEF open, next, outermost, active, item
  <2>6. Len(open) = 1 /\ open = [i \in {1} |-> outermost(k)] /\ next = [i \in {1} |-> outermost(k + 1)]
    BY <2>3
  <2>7. CASE item.word = "$Configuration"
    <3>1. outermost(k + 1) = [outermost(k) EXCEPT !.active = item.confs]
      BY <2>2, <2>4, <2>7
    <3>2. next = [open EXCEPT ![Len(open)].active = item.confs]
      BY <2>6, <3>1
    <3> QED
      BY <2>7, <3>2, Zenon DEF item, open, next
  <2>8. CASE item.word # "$Configuration"
    <3>1. next = open
      BY <2>3, <2>5, <2>8
    <3> QED
      BY <2>8, <3>1, Zenon DEF item, open, next
  <2> QED
    BY <2>7, <2>8
<1>3. CASE c # 0
  <2>1. active(k) = active(k + 1)
    BY <1>3 DEF Top
  <2>2. ActiveIn(t, c, k + 1) =
          IF item.word = "$Configuration" THEN item.confs ELSE ActiveIn(t, c, k)
    BY <1>1, <1>3, ActiveNext DEF ItemsOf, ActiveIn
  <2>3. open = <<outermost(k), inner(k)>> /\ next = <<outermost(k + 1), inner(k + 1)>>
    BY <1>3 DEF OpenAt
  <2>4. outermost(k + 1) = outermost(k)
    BY <2>1
  <2>5. inner(k + 1) = [inner(k) EXCEPT !.active = ActiveIn(t, c, k + 1)]
    OBVIOUS
  <2>6. inner(k + 1) = inner(k) \/ item.word = "$Configuration"
    BY <2>2
  <2> HIDE DEF open, next, outermost, inner, active, item
  <2>7. /\ Len(open) = 2
        /\ open = [i \in {1, 2} |-> IF i = 1 THEN outermost(k) ELSE inner(k)]
        /\ next = [i \in {1, 2} |-> IF i = 1 THEN outermost(k) ELSE inner(k + 1)]
    BY <2>3, <2>4
  <2>8. CASE item.word = "$Configuration"
    <3>1. inner(k + 1) = [inner(k) EXCEPT !.active = item.confs]
      BY <2>2, <2>5, <2>8
    <3>2. next = [open EXCEPT ![2].active = item.confs]
      BY <2>7, <3>1
    <3>3. next = [open EXCEPT ![Len(open)].active = item.confs]
      BY <2>7, <3>2
    <3> QED
      BY <2>8, <3>3, Zenon DEF item, open, next
  <2>9. CASE item.word # "$Configuration"
    <3>1. next = open
      BY <2>3, <2>4, <2>6, <2>9
    <3> QED
      BY <2>9, <3>1, Zenon DEF item, open, next
  <2> QED
    BY <2>8, <2>9
<1> QED
  BY <1>2, <1>3

\* So does what is said of the folders, while they stay.
LEMMA InsideStays ==
  ASSUME StaysWritten, UNCHANGED <<folders, unitySeen, unityStack>>, NEW c, NEW k, Inside(c, k)
  PROVE  Inside(c, k)'
<1>1. \A i, n : Balanced(i, n)' <=> Balanced(i, n)
  BY WrittenStays
<1>2. Balanced(Place(tree, c, k), Len(folders))
  BY DEF Inside
<1>3. Balanced(Place(tree, c, k), Len(folders))'
  BY <1>1, <1>2 DEF StaysWritten
<1> QED
  BY <1>3 DEF Inside, StaysWritten

\* Once a leaf is read, the parser is at the next item.
LEMMA LeafDone ==
  ASSUME Written, StaysWritten, NEW c, NEW k, Spot(c, k), k <= Len(ItemsOf(tree, c)),
         ItemsOf(tree, c)[k].word \notin FolderWords, Inside(c, k),
         unitySeen' = unitySeen, unityStack' = unityStack,
         folders' = OpenAt(tree, outer, c, k + 1),
         pending' = NothingPending, ~reading', at' = Place(tree, c, k + 1),
         Clean => facts' = Told(tree, outer, c, k) \cup Means(tree, outer, c, k)
  PROVE  Spot(c, k + 1)' /\ Here(c, k + 1)'
<1> DEFINE item == ItemsOf(tree, c)[k]
           p == Place(tree, c, k)
           q == Place(tree, c, k + 1)
<1>1. /\ tree \in Trees /\ c \in Contexts(tree) /\ k \in 1..Len(ItemsOf(tree, c))
      /\ p \in Nat \ {0} /\ Spot(c, k + 1) /\ IsLeaf(item) /\ LeafLies(text, p, item, q)
  BY ItemStands DEF Stands, Spot, Written
<1>2. Spot(c, k + 1)'
  BY <1>1, WrittenStays
<1>3. Len(folders') = Len(folders)
  <2>1. folders = OpenAt(tree, outer, c, k)
    BY DEF Inside
  <2> QED
    BY <2>1, OpenAtEnds
<1>4. Balanced(Place(tree, c, k + 1), Len(folders))'
  <2>1. Balanced(p, Len(folders))
    BY DEF Inside
  <2>2. Balanced(q, Len(folders))
    BY <1>1, <2>1, BalanceOverLeaf
  <2>3. \A i, n : Balanced(i, n)' <=> Balanced(i, n)
    BY WrittenStays
  <2>4. Place(tree, c, k + 1)' = q
    BY DEF StaysWritten
  <2> HIDE DEF q
  <2> QED
    BY <1>3, <2>2, <2>3, <2>4
<1>5. /\ SeenAt(tree, outer, c, k + 1) = SeenAt(tree, outer, c, k)
      /\ Told(tree, outer, c, k + 1) = Told(tree, outer, c, k) \cup Means(tree, outer, c, k)
  BY <1>1, ToldNext
<1>6. Inside(c, k + 1)'
  <2>1. /\ OpenAt(tree, outer, c, k + 1)' = OpenAt(tree, outer, c, k + 1)
        /\ SeenAt(tree, outer, c, k + 1)' = SeenAt(tree, outer, c, k + 1)
        /\ StackAt(tree, outer, c)' = StackAt(tree, outer, c)
    BY DEF StaysWritten
  <2> QED
    BY <1>4, <1>5, <2>1 DEF Inside
<1>7. AtItem(c, k + 1)'
  <2>1. Clean' => Clean
    BY WrittenStays
  <2> QED
    BY <1>5, <2>1 DEF AtItem, StaysWritten, NothingPending
<1> QED
  BY <1>2, <1>6, <1>7 DEF Here

\* While the files of an item are worked on, the parser is still in that item.
LEMMA WorkGoesOn ==
  ASSUME Written, StaysWritten, UNCHANGED <<folders, unitySeen, unityStack>>,
         NEW c, NEW k, Spot(c, k), k <= Len(ItemsOf(tree, c)), Inside(c, k),
         NEW j, Works(c, k, ItemsOf(tree, c)[k], j)'
  PROVE  Spot(c, k)' /\ Here(c, k)'
<1>1. Spot(c, k)' /\ Inside(c, k)'
  BY InsideStays, WrittenStays
<1>2. (k <= Len(ItemsOf(tree, c)))'
  BY DEF StaysWritten
<1>3. (j \in 1..(Len(FilesOf(ItemsOf(tree, c)[k])) + 1))'
  BY DEF Works
<1> QED
  BY <1>1, <1>2, <1>3 DEF Here

\* What an action finds when no file is worked on, and when one is.
LEMMA Found ==
  ASSUME NEW c, NEW k, Here(c, k)
  PROVE  /\ pending = NothingPending => AtItem(c, k)
         /\ pending # NothingPending =>
              /\ k <= Len(ItemsOf(tree, c))
              /\ \E j \in 1..(Len(FilesOf(ItemsOf(tree, c)[k])) + 1) :
                   Works(c, k, ItemsOf(tree, c)[k], j)
         /\ reading => pending # NothingPending
<1>1. ASSUME NEW j \in 1..(Len(FilesOf(ItemsOf(tree, c)[k])) + 1),
             Works(c, k, ItemsOf(tree, c)[k], j)
      PROVE  pending # NothingPending
  <2>1. pending.k = j /\ j # 0
    BY <1>1 DEF Works
  <2>2. NothingPending.k = 0
    BY DEF NothingPending
  <2> QED
    BY <2>1, <2>2
<1>2. AtItem(c, k) => pending = NothingPending /\ ~reading
  BY DEF AtItem
<1> QED
  BY <1>1, <1>2 DEF Here

-----------------------------------------------------------------------------
(***************************************************************************)
(* The parser starts at the first item, and the actions find a place.      *)
(***************************************************************************)
LEMMA FolderStarts ==
  ASSUME FolderInit
  PROVE  FolderInv
<1>1. Written
  BY DEF FolderInit, Written
<1>2. tree \in Trees /\ 0 \in Contexts(tree) /\ Layout(tree, text)
  BY <1>1, TreeLaid DEF Written, Contexts
<1>3. Spot(0, 1)
  <2>1. Len(ItemsOf(tree, 0)) \in Nat
    BY <1>2, TreeItems
  <2> QED
    BY <1>2, <2>1 DEF Spot
<1>4. Place(tree, 0, 1) = 1
  BY <1>2 DEF Layout
<1>5. folders = OpenAt(tree, outer, 0, 1) /\ Len(folders) = 1
  <2>1. ActiveAt(tree, Top(0, 1), << >>) = << >>
    BY ActiveNext DEF Top
  <2>2. folders = OpenAt(tree, outer, 0, 1)
    BY <2>1 DEF FolderInit, OpenAt
  <2> QED
    BY <2>2, OpenAtEnds
<1>6. unitySeen = SeenAt(tree, outer, 0, 1)
  <2>1. SeenAt(tree, outer, 0, 1) = Number(tree, outer, 0)
    BY DEF SeenAt
  <2>2. Number(tree, outer, 0) = OwnUnity(outer)
    BY NumberNext
  <2> QED
    BY <2>1, <2>2 DEF FolderInit, OwnUnity
<1>7. unityStack = StackAt(tree, outer, 0)
  BY DEF FolderInit, StackAt
<1>8. Balanced(Place(tree, 0, 1), Len(folders))
  <2>1. BracesBefore(1, OpenBrace) = 0 /\ BracesBefore(1, CloseBrace) = 0
    BY BracesNext
  <2>2. Balanced(1, 1)
    BY <2>1 DEF Balanced
  <2> QED
    BY <1>4, <1>5, <2>2
<1>9. AtItem(0, 1)
  <2>1. facts = Told(tree, outer, 0, 1)
    BY <1>2, ToldFirst DEF FolderInit
  <2> QED
    BY <1>4, <2>1, Zenon DEF AtItem, FolderInit
<1> QED
  BY <1>1, <1>3, <1>5, <1>6, <1>7, <1>8, <1>9 DEF Inside, Here, FolderInv

\* Where a step may lead.
Arrives == \E c, k : Spot(c, k) /\ Here(c, k)

\* An action that starts at an item.
LEMMA KeywordFound ==
  ASSUME Written, NEW c, NEW k, Spot(c, k), Here(c, k),
         NEW words, Keyword(words)
  PROVE  LET n == Len(ItemsOf(tree, c))
             item == ItemsOf(tree, c)[k]
         IN  /\ AtItem(c, k) /\ Inside(c, k)
             /\ at = Place(tree, c, k) /\ at \in Nat \ {0}
             /\ "}" \notin words => k <= n /\ item.word \in words
             /\ words = {"}"} => k = n + 1
<1> DEFINE n == Len(ItemsOf(tree, c))
           item == ItemsOf(tree, c)[k]
<1>1. AtItem(c, k) /\ Inside(c, k)
  BY Found DEF Keyword, Here
<1>2. Stands(c, k, n, item, at, Place(tree, c, k + 1)) /\ at = Place(tree, c, k)
  BY <1>1, ItemStands DEF AtItem
<1>3. n \in Nat /\ k \in 1..(n + 1) /\ at \in Nat \ {0}
  BY <1>2 DEF Stands, Spot
<1>4. text[at].word \in words
  BY DEF Keyword
<1>5. CloseBrace.word = "}"
  BY DEF CloseBrace, Lexeme
<1>6. k = n + 1 => text[at] = CloseBrace
  BY <1>2 DEF Stands
<1>7. k <= n => text[at].word = item.word /\ item.word # "}"
  <2>1. ASSUME k <= n PROVE text[at].word = item.word /\ item.word # "}"
    <3>1. text[at].word = item.word /\ (item.word \notin FolderWords => IsLeaf(item))
      BY <1>2, <2>1 DEF Stands
    <3>2. item.word \in FolderWords \/ item.word \in FileWords \/ item.word = "$Configuration"
      BY <3>1 DEF IsLeaf
    <3> QED
      BY <3>1, <3>2 DEF FolderWords, FileWords
  <2> QED
    BY <2>1
<1>8. k = n + 1 \/ k <= n
  BY <1>3
<1> SUFFICES /\ AtItem(c, k) /\ Inside(c, k)
             /\ at = Place(tree, c, k) /\ at \in Nat \ {0}
             /\ "}" \notin words => k <= n /\ item.word \in words
             /\ words = {"}"} => k = n + 1
  OBVIOUS
<1> HIDE DEF n, item
<1>9. "}" \notin words => k <= n /\ item.word \in words
  BY <1>4, <1>5, <1>6, <1>7, <1>8
<1>10. words = {"}"} => k = n + 1
  <2>1. ASSUME words = {"}"}, k <= n PROVE FALSE
    <3>1. text[at].word = "}"
      BY <1>4, <2>1
    <3> QED
      BY <1>7, <2>1, <3>1
  <2> QED
    BY <1>8, <2>1
<1> QED
  BY <1>1, <1>2, <1>3, <1>9, <1>10, Zenon

\* An item of files: its tokens, and where it ends.
LEMMA FilesStand ==
  ASSUME Written, NEW c, NEW k, Spot(c, k), k <= Len(ItemsOf(tree, c)),
         ItemsOf(tree, c)[k].word \in FileWords
  PROVE  LET item == ItemsOf(tree, c)[k]
             p == Place(tree, c, k)
             q == Place(tree, c, k + 1)
         IN  /\ IsLeaf(item) /\ item \in AllItems /\ item.section \in BOOLEAN
             /\ item.word \notin FolderWords
             /\ c \in Contexts(tree) /\ k \in 1..Len(ItemsOf(tree, c))
             /\ p \in Nat \ {0} /\ Len(text) \in Nat /\ Len(item.confs) \in Nat
             /\ text[p] = Lexeme(item.word, item.list, << >>)
             /\ item.section <=> text[p + 1] = OpenBrace
             /\ ~item.section => q = p + 1
             /\ item.section =>
                  /\ \A m \in 1..Len(item.confs) :
                       text[p + 1 + m] = Lexeme("$Configuration", << >>, <<item.confs[m]>>)
                  /\ text[p + 2 + Len(item.confs)] = CloseBrace
                  /\ q = p + 3 + Len(item.confs)
                  /\ p + 2 + Len(item.confs) <= Len(text)
<1> DEFINE item == ItemsOf(tree, c)[k]
           p == Place(tree, c, k)
           q == Place(tree, c, k + 1)
           n == Len(item.confs)
<1>1. item.word \notin FolderWords
  BY DEF FileWords, FolderWords
<1>2. /\ IsLeaf(item) /\ item \in AllItems /\ LeafLies(text, p, item, q)
      /\ p \in Nat \ {0} /\ Len(text) \in Nat
      /\ Spot(c, k + 1) /\ k \in 1..Len(ItemsOf(tree, c))
  BY <1>1, ItemStands DEF Stands
<1>3. item.section \in BOOLEAN /\ n \in Nat
  BY <1>2, LenProperties DEF IsLeaf
<1>4. text[q] # OpenBrace
  <2>1. Spot(c, k + 1)
    BY <1>2
  <2> QED
    BY <2>1, ItemStands DEF Stands
<1>5. c \in Contexts(tree)
  BY DEF Spot
<1>6. /\ q - 1 <= Len(text)
      /\ text[p] = Lexeme(item.word, item.list, << >>)
      /\ ~item.section => q = p + 1
      /\ item.section =>
           /\ text[p + 1] = OpenBrace
           /\ \A m \in 1..n :
                text[p + 1 + m] = Lexeme("$Configuration", << >>, <<item.confs[m]>>)
           /\ text[p + 2 + n] = CloseBrace
           /\ q = p + 3 + n
  BY <1>2, Zenon DEF LeafLies
<1> HIDE DEF p, q, n, item
<1>7. item.section => p + 2 + n <= Len(text)
  <2>1. ASSUME item.section PROVE p + 2 + n <= Len(text)
    <3>1. q = p + 3 + n
      BY <1>6, <2>1
    <3> QED
      BY <1>2, <1>3, <1>6, <3>1
  <2> QED
    BY <2>1
<1>8. item.section <=> text[p + 1] = OpenBrace
  BY <1>4, <1>6
<1> QED
  BY <1>1, <1>2, <1>3, <1>5, <1>6, <1>7, <1>8, Zenon DEF p, q, n, item

-----------------------------------------------------------------------------
(***************************************************************************)
(* Each action leads from a place to a place.                              *)
(***************************************************************************)
\* The position after a section that is skipped.
LEMMA SectionSkipped ==
  ASSUME NEW p \in Nat \ {0}, NEW n \in Nat, Len(text) \in Nat, p + 2 + n <= Len(text),
         text[p + 1] = OpenBrace, text[p + 2 + n] = CloseBrace,
         \A m \in 1..n : \E conf : text[p + 1 + m] = Lexeme("$Configuration", << >>, conf)
  PROVE  AfterSection(p + 1) = p + 3 + n
<1> DEFINE Ending(j) == text[j] = CloseBrace /\ \A l \in (p + 1)..(j - 1) : text[l] # CloseBrace
           end == p + 2 + n
           chosen == CHOOSE j \in (p + 1)..Len(text) : Ending(j)
<1>1. end \in (p + 1)..Len(text)
  OBVIOUS
<1>2. \A l \in (p + 1)..(end - 1) : text[l] # CloseBrace
  <2> TAKE l \in (p + 1)..(end - 1)
  <2>1. l = p + 1 \/ l - (p + 1) \in 1..n
    OBVIOUS
  <2>2. CASE l = p + 1
    BY <2>2, BracesDiffer
  <2>3. CASE l - (p + 1) \in 1..n
    <3> DEFINE m == l - (p + 1)
    <3>1. m \in 1..n /\ p + 1 + m = l
      BY <2>3
    <3>2. PICK conf : text[p + 1 + m] = Lexeme("$Configuration", << >>, conf)
      BY <3>1
    <3>3. Lexeme("$Configuration", << >>, conf) # CloseBrace
      BY NoBrace
    <3> QED
      BY <3>1, <3>2, <3>3
  <2> QED
    BY <2>1, <2>2, <2>3
<1>3. Ending(end)
  BY <1>2
<1>4. chosen \in (p + 1)..Len(text) /\ Ending(chosen)
  BY <1>1, <1>3
<1> HIDE DEF chosen
<1>5. chosen = end
  <2>1. ~(chosen < end)
    <3>1. ASSUME chosen < end PROVE FALSE
      <4>1. chosen \in (p + 1)..(end - 1)
        BY <1>4, <3>1
      <4> QED
        BY <1>2, <1>4, <4>1
    <3> QED
      BY <3>1
  <2>2. ~(end < chosen)
    <3>1. ASSUME end < chosen PROVE FALSE
      <4>1. end \in (p + 1)..(chosen - 1)
        BY <1>4, <3>1
      <4> QED
        BY <1>3, <1>4, <4>1
    <3> QED
      BY <3>1
  <2> QED
    BY <1>4, <2>1, <2>2
<1>6. AfterSection(p + 1) = 1 + chosen
  BY DEF AfterSection, chosen
<1> QED
  BY <1>5, <1>6

\* VPC_Keyword_AddFile: the parser skips the item, or works on its first file.
LEMMA AddFilesArrives ==
  ASSUME Written, NEW c, NEW k, Spot(c, k), Here(c, k), AddFiles
  PROVE  StaysWritten /\ Arrives'
<1> DEFINE item == ItemsOf(tree, c)[k]
           p == Place(tree, c, k)
           q == Place(tree, c, k + 1)
           n == Len(item.confs)
           token == text[at]
           active == ActiveIn(tree, c, k)
           unity == UnityOf(tree, outer, c)
           listed == NamesWith(token.list, {"none", "true"})
           files == IF token.word = "$DynamicFile" THEN listed ELSE CheckFiles(listed)
           section == text[at + 1] = OpenBrace
           start == IF section THEN at + 2 ELSE at + 1
<1>1. /\ AtItem(c, k) /\ Inside(c, k) /\ at = p
      /\ k <= Len(ItemsOf(tree, c)) /\ item.word \in FileWords
  <2>1. Keyword(FileWords) /\ "}" \notin FileWords
    BY DEF AddFiles, FileWords
  <2> QED
    BY <2>1, KeywordFound
<1>2. /\ IsLeaf(item) /\ item \in AllItems /\ item.section \in BOOLEAN
      /\ item.word \notin FolderWords
      /\ c \in Contexts(tree) /\ k \in 1..Len(ItemsOf(tree, c))
      /\ p \in Nat \ {0} /\ Len(text) \in Nat /\ n \in Nat
      /\ text[p] = Lexeme(item.word, item.list, << >>)
      /\ item.section <=> text[p + 1] = OpenBrace
      /\ ~item.section => q = p + 1
      /\ item.section =>
           /\ \A m \in 1..n :
                text[p + 1 + m] = Lexeme("$Configuration", << >>, <<item.confs[m]>>)
           /\ text[p + 2 + n] = CloseBrace
           /\ q = p + 3 + n
           /\ p + 2 + n <= Len(text)
  BY <1>1, FilesStand
<1>3. StaysWritten /\ UNCHANGED <<folders, unitySeen, unityStack>> /\ reading' = reading
  BY DEF AddFiles, StaysWritten
<1>4. token.word = item.word /\ token.list = item.list
  BY <1>1, <1>2 DEF Lexeme
<1>5. files = FilesOf(item)
  BY <1>4 DEF FilesOf
<1>6. section <=> item.section
  BY <1>1, <1>2
<1>7. pending = NothingPending /\ ~reading /\ (Clean => facts = Told(tree, outer, c, k))
  BY <1>1 DEF AtItem
<1>8. CASE FilesOf(item) = << >> /\ item.section
  <2>1. at' = AfterSection(at + 1) /\ UNCHANGED <<pending, facts>>
    BY <1>5, <1>6, <1>8 DEF AddFiles
  <2>2. at' = q
    <3>1. AfterSection(p + 1) = p + 3 + n
      <4>1. \A m \in 1..n : \E conf : text[p + 1 + m] = Lexeme("$Configuration", << >>, conf)
        BY <1>2, <1>8
      <4>2. text[p + 1] = OpenBrace /\ text[p + 2 + n] = CloseBrace /\ p + 2 + n <= Len(text)
        BY <1>2, <1>8
      <4> HIDE DEF p, n
      <4> QED
        BY <1>2, <4>1, <4>2, SectionSkipped
    <3> QED
      BY <1>1, <1>2, <1>8, <2>1, <3>1
  <2>3. Clean => facts' = Told(tree, outer, c, k) \cup Means(tree, outer, c, k)
    <3>1. ASSUME Clean PROVE facts' = Told(tree, outer, c, k) \cup Means(tree, outer, c, k)
      <4>1. ~MissingTwice(item)
        BY <1>2, <3>1 DEF Clean
      <4>2. ItemFacts(item, active, unity) = {}
        BY <1>1, <1>2, <1>8, <4>1, ItemTold
      <4>3. Means(tree, outer, c, k) = {}
        BY <4>2 DEF Means
      <4> QED
        BY <1>7, <2>1, <3>1, <4>3
    <3> QED
      BY <3>1
  <2>4. folders' = OpenAt(tree, outer, c, k + 1)
    <3>1. OpenAt(tree, outer, c, k + 1) = OpenAt(tree, outer, c, k)
      <4>1. item.word # "$Configuration" /\ tree \in Trees
        BY <1>1 DEF FileWords, Written
      <4> QED
        BY <1>2, <4>1, OpenAtNext
    <3> QED
      BY <1>1, <1>3, <3>1 DEF Inside
  <2>5. pending' = NothingPending /\ ~reading'
    BY <1>3, <1>7, <2>1
  <2>6. Spot(c, k + 1)' /\ Here(c, k + 1)'
    BY <1>1, <1>2, <1>3, <2>2, <2>3, <2>4, <2>5, LeafDone
  <2> QED
    BY <1>3, <2>6 DEF Arrives
<1>9. CASE ~(FilesOf(item) = << >> /\ item.section)
  <2> DEFINE out == {<<f, "excluded", 0>> : f \in ToSet(NamesWith(item.list, {"false"}))}
  <2>1. /\ facts' = facts \cup out
        /\ pending' = [files |-> FilesOf(item), k |-> 1, start |-> start, section |-> section,
                       plain |-> Plain(item.list)]
        /\ at' = start
    BY <1>4, <1>5, <1>6, <1>9 DEF AddFiles
  <2>2. /\ start = p + (IF item.section THEN 2 ELSE 1)
        /\ start = IF item.section THEN start ELSE q
    BY <1>1, <1>2, <1>6
  <2>3. section = item.section
    BY <1>2, <1>6
  <2>4. /\ ToldOf(item, active, unity, 1) = out
        /\ ~AnyRead(item, 1)
    BY ToldOfNext
  <2>5. Clean' => Clean
    BY <1>3, WrittenStays
  <2>6. 1 \in 1..(Len(FilesOf(item)) + 1)
    <3>1. Len(FilesOf(item)) \in Nat
      BY <1>1, <1>2, FilesFound DEF IsLeaf
    <3> QED
      BY <3>1
  <2>7. Works(c, k, item, 1)'
    <3>1. Clean' => facts' = Told(tree, outer, c, k) \cup ToldOf(item, active, unity, 1)
      BY <1>7, <2>1, <2>4, <2>5
    <3>2. ~reading'
      BY <1>3, <1>7
    <3>3. /\ pending' = [files |-> FilesOf(item), k |-> 1, start |-> start,
                         section |-> item.section, plain |-> Plain(item.list)]
          /\ at' = IF item.section /\ ~AnyRead(item, 1) THEN start ELSE q
      BY <2>1, <2>2, <2>3, <2>4
    <3>4. item.section => FilesOf(item) # << >>
      BY <1>9
    <3> HIDE DEF start
    <3> QED
      BY <1>1, <1>3, <2>2, <2>6, <3>1, <3>2, <3>3, <3>4 DEF Works, StaysWritten
  <2> QED
    BY <1>1, <1>3, <2>7, WorkGoesOn DEF Arrives
<1> QED
  BY <1>8, <1>9

\* What is pending for the j-th file of item k.
Pending(c, k, j) ==
  LET item == ItemsOf(tree, c)[k]
  IN [files |-> FilesOf(item), k |-> j,
      start |-> Place(tree, c, k) + (IF item.section THEN 2 ELSE 1),
      section |-> item.section, plain |-> Plain(item.list)]

\* When a file is done, the next one of the item is at hand.
LEMMA FileDone ==
  ASSUME Written, StaysWritten, UNCHANGED <<folders, unitySeen, unityStack>>,
         NEW c, NEW k, Spot(c, k), Inside(c, k), k <= Len(ItemsOf(tree, c)),
         NEW item, item = ItemsOf(tree, c)[k], item.word \in FileWords,
         NEW j \in 1..Len(FilesOf(item)),
         pending = Pending(c, k, j), pending' = NextFile, ~reading',
         item.section => FilesOf(item) # << >>,
         at' = IF item.section /\ ~AnyRead(item, j + 1) THEN Place(tree, c, k) + 2
               ELSE Place(tree, c, k + 1),
         Clean => facts' = Told(tree, outer, c, k)
                      \cup ToldOf(item, ActiveIn(tree, c, k), UnityOf(tree, outer, c), j)
                      \cup FileFacts(FilesOf(item)[j], item, ActiveIn(tree, c, k),
                                     UnityOf(tree, outer, c))
  PROVE  Arrives'
<1> DEFINE active == ActiveIn(tree, c, k)
           unity == UnityOf(tree, outer, c)
           start == Place(tree, c, k) + (IF item.section THEN 2 ELSE 1)
<1>1. IsLeaf(item) /\ item.section \in BOOLEAN
  BY FilesStand
<1>2. Len(FilesOf(item)) \in Nat
  BY <1>1, FilesFound DEF IsLeaf
<1>3. /\ j \in Nat \ {0}
      /\ j + 1 \in 1..(Len(FilesOf(item)) + 1)
  BY <1>2
<1>4. ToldOf(item, active, unity, j + 1) =
        ToldOf(item, active, unity, j) \cup FileFacts(FilesOf(item)[j], item, active, unity)
  BY <1>3, ToldOfNext
<1>5. pending' = [files |-> FilesOf(item), k |-> j + 1, start |-> start,
                  section |-> item.section, plain |-> Plain(item.list)]
  BY DEF Pending, NextFile
<1>6. Clean' => facts' = Told(tree, outer, c, k) \cup ToldOf(item, active, unity, j + 1)
  BY <1>4, WrittenStays
<1>7. at' = IF item.section /\ ~AnyRead(item, j + 1) THEN start ELSE Place(tree, c, k + 1)
  OBVIOUS
<1> HIDE DEF start
<1>8. Works(c, k, ItemsOf(tree, c)[k], j + 1)'
  BY <1>3, <1>5, <1>6, <1>7 DEF Works, StaysWritten, start
<1> QED
  BY <1>8, WorkGoesOn DEF Arrives

\* What an action finds that works on a file.
LEMMA FileFound ==
  ASSUME Written, NEW c, NEW k, Spot(c, k), Here(c, k), pending # NothingPending
  PROVE  LET item == ItemsOf(tree, c)[k]
             active == ActiveIn(tree, c, k)
             unity == UnityOf(tree, outer, c)
         IN  /\ Inside(c, k) /\ k <= Len(ItemsOf(tree, c)) /\ item.word \in FileWords
             /\ Last(folders).active = active
             /\ unityStack = << >> <=> unity = 0
             /\ unityStack # << >> => Last(unityStack) = unity
             /\ Len(FilesOf(item)) \in Nat
             /\ item.section => FilesOf(item) # << >>
             /\ \E j \in 1..(Len(FilesOf(item)) + 1) :
                  /\ Works(c, k, item, j)
                  /\ pending = Pending(c, k, j)
                  /\ pending.section = item.section /\ pending.plain = Plain(item.list)
                  /\ pending.k = j /\ pending.files = FilesOf(item)
                  /\ TheFile = FilesOf(item)[j]
<1> DEFINE item == ItemsOf(tree, c)[k]
           files == FilesOf(item)
           start == Place(tree, c, k) + (IF item.section THEN 2 ELSE 1)
<1>1. k <= Len(ItemsOf(tree, c)) /\ Inside(c, k)
  BY Found DEF Here
<1>2. PICK j \in 1..(Len(files) + 1) : Works(c, k, item, j)
  BY Found
<1>3. item.word \in FileWords /\ (item.section => files # << >>)
  BY <1>2 DEF Works
<1>4. Len(files) \in Nat
  <2>1. IsLeaf(item)
    BY <1>1, <1>3, FilesStand
  <2> QED
    BY <1>3, <2>1, FilesFound DEF IsLeaf
<1>5. pending = [files |-> files, k |-> j, start |-> start, section |-> item.section,
                 plain |-> Plain(item.list)]
  BY <1>2 DEF Works
<1> HIDE DEF files, start
<1>6. /\ pending.section = item.section /\ pending.plain = Plain(item.list)
      /\ pending.k = j /\ pending.files = files
  BY <1>5
<1>7. TheFile = files[j]
  BY <1>6 DEF TheFile
<1>8. pending = Pending(c, k, j)
  BY <1>5 DEF Pending, files, start
<1>9. Last(folders).active = ActiveIn(tree, c, k)
  BY <1>1, OpenAtEnds DEF Inside
<1>10. /\ unityStack = << >> <=> UnityOf(tree, outer, c) = 0
       /\ unityStack # << >> => Last(unityStack) = UnityOf(tree, outer, c)
  <2>1. unityStack = StackAt(tree, outer, c) /\ tree \in Trees /\ c \in Contexts(tree)
    BY <1>1 DEF Inside, Written, Spot
  <2> QED
    BY <2>1, StackAtEnds
<1> QED
  BY <1>1, <1>2, <1>3, <1>4, <1>6, <1>7, <1>8, <1>9, <1>10 DEF files

\* An unresolved file: nothing is told, and its section stays unread.
LEMMA SkipUnresolvedArrives ==
  ASSUME Written, NEW c, NEW k, Spot(c, k), Here(c, k), SkipUnresolved
  PROVE  StaysWritten /\ Arrives'
<1> DEFINE item == ItemsOf(tree, c)[k]
           active == ActiveIn(tree, c, k)
           unity == UnityOf(tree, outer, c)
           start == Place(tree, c, k) + (IF item.section THEN 2 ELSE 1)
           told(j) == Told(tree, outer, c, k) \cup ToldOf(item, active, unity, j)
<1>1. pending # NothingPending /\ ~reading /\ pending.k <= Len(pending.files)
  BY DEF SkipUnresolved, Work
<1>2. /\ Inside(c, k) /\ k <= Len(ItemsOf(tree, c)) /\ item.word \in FileWords
      /\ Len(FilesOf(item)) \in Nat /\ (item.section => FilesOf(item) # << >>)
  BY <1>1, FileFound
<1>3. PICK j \in 1..(Len(FilesOf(item)) + 1) :
        /\ Works(c, k, item, j) /\ pending = Pending(c, k, j)
        /\ pending.k = j /\ pending.files = FilesOf(item) /\ TheFile = FilesOf(item)[j]
  BY <1>1, FileFound
<1>4. j \in 1..Len(FilesOf(item)) /\ j \in Nat \ {0}
  BY <1>1, <1>2, <1>3
<1>5. /\ at = IF item.section /\ ~AnyRead(item, j) THEN start ELSE Place(tree, c, k + 1)
      /\ Clean => facts = told(j)
  BY <1>1, <1>3 DEF Works
<1>6. StaysWritten /\ UNCHANGED <<at, folders, unitySeen, unityStack, reading, facts>>
  BY DEF SkipUnresolved, StaysWritten
<1>7. pending' = NextFile /\ ~reading' /\ TheFile \in Unresolved
  BY <1>1 DEF SkipUnresolved
<1>8. FileFacts(FilesOf(item)[j], item, active, unity) = {}
  BY <1>3, <1>7 DEF FileFacts
<1>9. AnyRead(item, j + 1) <=> AnyRead(item, j)
  BY <1>3, <1>4, <1>7, ToldOfNext
<1>10. at' = IF item.section /\ ~AnyRead(item, j + 1) THEN Place(tree, c, k) + 2
             ELSE Place(tree, c, k + 1)
  BY <1>5, <1>6, <1>9
<1>11. Clean => facts' = told(j) \cup FileFacts(FilesOf(item)[j], item, active, unity)
  BY <1>5, <1>6, <1>8
<1>12. Arrives'
  BY <1>2, <1>3, <1>4, <1>6, <1>7, <1>10, <1>11, FileDone
<1> QED
  BY <1>6, <1>12

\* A file that goes into the unity file of its own folder.
LEMMA ExcludeForUnityArrives ==
  ASSUME Written, NEW c, NEW k, Spot(c, k), Here(c, k), ExcludeForUnity
  PROVE  StaysWritten /\ Arrives'
<1> DEFINE item == ItemsOf(tree, c)[k]
           active == ActiveIn(tree, c, k)
           unity == UnityOf(tree, outer, c)
           start == Place(tree, c, k) + (IF item.section THEN 2 ELSE 1)
           told(j) == Told(tree, outer, c, k) \cup ToldOf(item, active, unity, j)
<1>1. pending # NothingPending /\ ~reading /\ pending.k <= Len(pending.files)
  BY DEF ExcludeForUnity, Work
<1>2. /\ Inside(c, k) /\ k <= Len(ItemsOf(tree, c)) /\ item.word \in FileWords
      /\ Len(FilesOf(item)) \in Nat
      /\ unityStack = << >> <=> unity = 0
      /\ unityStack # << >> => Last(unityStack) = unity
  BY <1>1, FileFound
<1>3. PICK j \in 1..(Len(FilesOf(item)) + 1) :
        /\ Works(c, k, item, j) /\ pending = Pending(c, k, j)
        /\ pending.section = item.section /\ pending.plain = Plain(item.list)
        /\ pending.k = j /\ pending.files = FilesOf(item) /\ TheFile = FilesOf(item)[j]
  BY <1>1, FileFound
<1>4. j \in 1..Len(FilesOf(item))
  BY <1>1, <1>2, <1>3
<1>5. /\ unity # 0 /\ Last(unityStack) = unity
      /\ TheFile \in Source /\ TheFile \notin Unresolved /\ ~item.section /\ Plain(item.list)
  BY <1>2, <1>3 DEF ExcludeForUnity, InUnity
<1>6. /\ at = Place(tree, c, k + 1)
      /\ Clean => facts = told(j)
  BY <1>1, <1>3, <1>5 DEF Works
<1>7. /\ StaysWritten /\ UNCHANGED <<at, folders, unitySeen, unityStack, reading>>
      /\ pending' = NextFile
      /\ facts' = facts \cup {<<TheFile, "added", 0>>, <<TheFile, "excluded", 0>>,
                              <<TheFile, "unity", Last(unityStack)>>}
  BY DEF ExcludeForUnity, StaysWritten
<1>8. FileFacts(FilesOf(item)[j], item, active, unity) =
        {<<TheFile, "added", 0>>, <<TheFile, "excluded", 0>>, <<TheFile, "unity", Last(unityStack)>>}
  BY <1>3, <1>5 DEF FileFacts
<1>9. Clean => facts' = told(j) \cup FileFacts(FilesOf(item)[j], item, active, unity)
  BY <1>6, <1>7, <1>8
<1>10. at' = IF item.section /\ ~AnyRead(item, j + 1) THEN Place(tree, c, k) + 2
             ELSE Place(tree, c, k + 1)
  BY <1>5, <1>6, <1>7
<1>11. Arrives'
  BY <1>1, <1>2, <1>3, <1>4, <1>5, <1>7, <1>9, <1>10, FileDone
<1> QED
  BY <1>7, <1>11

\* A file that is built: its section is begun, or it has its settings.
LEMMA AddFileArrives ==
  ASSUME Written, NEW c, NEW k, Spot(c, k), Here(c, k), AddFile
  PROVE  StaysWritten /\ Arrives'
<1> DEFINE item == ItemsOf(tree, c)[k]
           active == ActiveIn(tree, c, k)
           unity == UnityOf(tree, outer, c)
           start == Place(tree, c, k) + (IF item.section THEN 2 ELSE 1)
           told(j) == Told(tree, outer, c, k) \cup ToldOf(item, active, unity, j)
<1>1. pending # NothingPending /\ ~reading /\ pending.k <= Len(pending.files)
  BY DEF AddFile, Work
<1>2. /\ Inside(c, k) /\ k <= Len(ItemsOf(tree, c)) /\ item.word \in FileWords
      /\ Last(folders).active = active
      /\ Len(FilesOf(item)) \in Nat
      /\ unityStack = << >> <=> unity = 0
      /\ item.section => FilesOf(item) # << >>
  BY <1>1, FileFound
<1>3. PICK j \in 1..(Len(FilesOf(item)) + 1) :
        /\ Works(c, k, item, j) /\ pending = Pending(c, k, j)
        /\ pending.section = item.section /\ pending.plain = Plain(item.list)
        /\ pending.k = j /\ pending.files = FilesOf(item) /\ TheFile = FilesOf(item)[j]
  BY <1>1, FileFound
<1>4. j \in 1..Len(FilesOf(item))
  BY <1>1, <1>2, <1>3
<1>5. /\ IsLeaf(item) /\ item.section \in BOOLEAN /\ Len(item.confs) \in Nat
      /\ ~item.section => Place(tree, c, k + 1) = Place(tree, c, k) + 1
  BY <1>2, FilesStand
<1>6. /\ at = IF item.section /\ ~AnyRead(item, j) THEN start ELSE Place(tree, c, k + 1)
      /\ Clean => facts = told(j)
  BY <1>1, <1>3 DEF Works
<1>7. /\ StaysWritten /\ UNCHANGED <<folders, unitySeen, unityStack>>
      /\ facts' = facts \cup {<<TheFile, "added", 0>>} \cup StepSettings(TheFile)
                        \cup IF pending.section THEN {}
                             ELSE FolderSettings(TheFile, TheFile \in Stepped)
      /\ reading' = pending.section
      /\ had' = (TheFile \in Stepped /\ ~pending.section)
      /\ at' = IF pending.section \/ TheFile \in Stepped THEN pending.start ELSE at
      /\ pending' = IF pending.section THEN pending ELSE NextFile
      /\ TheFile \notin Unresolved
  BY DEF AddFile, StaysWritten
<1>8. pending.start = start
  BY <1>3 DEF Pending
<1>9. ~(unity # 0 /\ TheFile \in Source /\ ~item.section /\ Plain(item.list))
  BY <1>2, <1>3 DEF AddFile, InUnity
<1>10. CASE item.section
  <2>1. Begun(TheFile, item.confs, 0) = {<<TheFile, "added", 0>>} \cup StepSettings(TheFile)
    <3>1. 1..0 = {}
      OBVIOUS
    <3> QED
      BY <3>1 DEF Begun
  <2>2. reading' /\ had' = FALSE /\ at' = start /\ pending' = pending
    BY <1>3, <1>7, <1>8, <1>10
  <2>3. facts' = facts \cup Begun(TheFile, item.confs, 0)
    BY <1>3, <1>7, <1>10, <2>1
  <2>4. 0 \in 0..Len(item.confs) /\ start + 0 = start /\ (0 > 0) = FALSE
    <3>1. Place(tree, c, k) \in Nat \ {0}
      BY <1>2, FilesStand
    <3> QED
      BY <1>5, <3>1
  <2>5. Clean' => facts' = told(j) \cup Begun(FilesOf(item)[j], item.confs, 0)
    BY <1>3, <1>6, <1>7, <2>3, WrittenStays
  <2>6. pending' = [files |-> FilesOf(item), k |-> j, start |-> start,
                    section |-> item.section, plain |-> Plain(item.list)]
    BY <1>3, <2>2 DEF Pending
  <2>7. FilesOf(item)[j] \notin Unresolved /\ FilesOf(item) # << >>
    BY <1>2, <1>3, <1>7, <1>10
  <2>8. j \in 1..(Len(FilesOf(item)) + 1) /\ j <= Len(FilesOf(item))
    BY <1>4
  <2>9. \E m \in 0..Len(item.confs) :
          /\ at' = start + m
          /\ had' = (m > 0)
          /\ Clean' => facts' = told(j) \cup Begun(FilesOf(item)[j], item.confs, m)
    <3>1. had' = (0 > 0)
      BY <2>2, <2>4
    <3> HIDE DEF start, told
    <3> QED
      BY <2>2, <2>4, <2>5, <3>1
  <2> HIDE DEF start
  <2>10. Works(c, k, item, j)'
    BY <1>2, <1>7, <1>10, <2>2, <2>6, <2>7, <2>8, <2>9 DEF Works, StaysWritten, start
  <2> QED
    BY <1>2, <1>7, <2>10, WorkGoesOn DEF Arrives
<1>11. CASE ~item.section
  <2>1. at' = Place(tree, c, k + 1)
    BY <1>3, <1>5, <1>6, <1>7, <1>8, <1>11
  <2>2. item.confs = << >>
    <3>1. item.word # "$Configuration"
      BY <1>2 DEF FileWords
    <3> QED
      BY <1>5, <1>11, <3>1 DEF IsLeaf
  <2>3. Configured(TheFile, item.confs) = {}
    BY <2>2 DEF Configured, ToSet
  <2>4. FileFacts(FilesOf(item)[j], item, active, unity) =
          {<<TheFile, "added", 0>>} \cup StepSettings(TheFile)
             \cup (IF TheFile \in Stepped THEN {} ELSE Configured(TheFile, active))
    BY <1>3, <1>7, <1>9, <1>11, <2>2, <2>3 DEF FileFacts
  <2>5. FolderSettings(TheFile, TheFile \in Stepped) =
          IF TheFile \in Stepped THEN {} ELSE Configured(TheFile, active)
    BY <1>2 DEF FolderSettings
  <2>6. Clean => facts' = told(j) \cup FileFacts(FilesOf(item)[j], item, active, unity)
    BY <1>3, <1>6, <1>7, <1>11, <2>4, <2>5
  <2>7. ~reading' /\ pending' = NextFile
    BY <1>3, <1>7, <1>11
  <2>8. at' = IF item.section /\ ~AnyRead(item, j + 1) THEN Place(tree, c, k) + 2
              ELSE Place(tree, c, k + 1)
    BY <1>11, <2>1
  <2>9. Arrives'
    BY <1>2, <1>3, <1>4, <1>7, <1>11, <2>6, <2>7, <2>8, FileDone
  <2> QED
    BY <1>7, <2>9
<1> QED
  BY <1>5, <1>10, <1>11

\* What an action finds that reads the section of a file.
LEMMA SectionFound ==
  ASSUME Written, NEW c, NEW k, Spot(c, k), Here(c, k), reading
  PROVE  LET item == ItemsOf(tree, c)[k]
             start == Place(tree, c, k) + 2
             told(j) == Told(tree, outer, c, k)
                          \cup ToldOf(item, ActiveIn(tree, c, k), UnityOf(tree, outer, c), j)
         IN  /\ Inside(c, k) /\ k <= Len(ItemsOf(tree, c)) /\ item.word \in FileWords
             /\ item.section = TRUE /\ Len(item.confs) \in Nat /\ start \in Nat
             /\ Place(tree, c, k + 1) = start + Len(item.confs) + 1
             /\ Last(folders).active = ActiveIn(tree, c, k)
             /\ FilesOf(item) # << >>
             /\ \E j \in 1..Len(FilesOf(item)) : \E m \in 0..Len(item.confs) :
                  /\ pending = Pending(c, k, j)
                  /\ pending = [files |-> FilesOf(item), k |-> j, start |-> start,
                                section |-> TRUE, plain |-> Plain(item.list)]
                  /\ j \in Nat \ {0}
                  /\ TheFile = FilesOf(item)[j] /\ TheFile \notin Unresolved
                  /\ at = start + m
                  /\ had = (m > 0)
                  /\ Clean => facts = told(j) \cup Begun(TheFile, item.confs, m)
                  /\ m < Len(item.confs) =>
                       text[at] = Lexeme("$Configuration", << >>, <<item.confs[m + 1]>>)
                  /\ m = Len(item.confs) => text[at] = CloseBrace
<1> DEFINE item == ItemsOf(tree, c)[k]
           p == Place(tree, c, k)
           q == Place(tree, c, k + 1)
           n == Len(item.confs)
           start == p + 2
           files == FilesOf(item)
           told(j) == Told(tree, outer, c, k)
                        \cup ToldOf(item, ActiveIn(tree, c, k), UnityOf(tree, outer, c), j)
<1>1. pending # NothingPending
  BY Found
<1>2. /\ Inside(c, k) /\ k <= Len(ItemsOf(tree, c)) /\ item.word \in FileWords
      /\ Last(folders).active = ActiveIn(tree, c, k)
      /\ Len(files) \in Nat
      /\ item.section => files # << >>
  BY <1>1, FileFound
<1>3. PICK j \in 1..(Len(files) + 1) :
        Works(c, k, item, j) /\ pending = Pending(c, k, j) /\ TheFile = files[j]
  BY <1>1, FileFound
<1>4. /\ item.section /\ j <= Len(files) /\ files[j] \notin Unresolved
  BY <1>3 DEF Works
<1>5. PICK m \in 0..n :
        /\ at = p + (IF item.section THEN 2 ELSE 1) + m
        /\ had = (m > 0)
        /\ Clean => facts = told(j) \cup Begun(files[j], item.confs, m)
  BY <1>3 DEF Works
<1>6. /\ p \in Nat \ {0} /\ n \in Nat /\ item.section \in BOOLEAN
      /\ \A i \in 1..n : text[p + 1 + i] = Lexeme("$Configuration", << >>, <<item.confs[i]>>)
      /\ text[p + 2 + n] = CloseBrace
      /\ q = p + 3 + n
  BY <1>2, <1>4, FilesStand
<1>7. item.section = TRUE
  BY <1>4, <1>6
<1>8. at = start + m
  BY <1>5, <1>7
<1>9. m < n => text[at] = Lexeme("$Configuration", << >>, <<item.confs[m + 1]>>)
  <2>1. ASSUME m < n PROVE text[at] = Lexeme("$Configuration", << >>, <<item.confs[m + 1]>>)
    <3>1. m + 1 \in 1..n /\ at = p + 1 + (m + 1)
      BY <1>6, <1>8, <2>1
    <3> QED
      BY <1>6, <3>1
  <2> QED
    BY <2>1
<1>10. m = n => text[at] = CloseBrace
  BY <1>6, <1>8
<1>11. start \in Nat /\ q = start + n + 1
  BY <1>6
<1>12. j \in 1..Len(files) /\ j \in Nat \ {0}
  BY <1>2, <1>4
<1>13. pending = [files |-> files, k |-> j, start |-> start, section |-> TRUE,
                  plain |-> Plain(item.list)]
  BY <1>3, <1>7 DEF Pending
<1>14. Clean => facts = told(j) \cup Begun(TheFile, item.confs, m)
  BY <1>3, <1>5
<1>15. TheFile = files[j] /\ TheFile \notin Unresolved
  BY <1>3, <1>4
<1>16. had = (m > 0)
  BY <1>5
<1> HIDE DEF n, start, files, told, q
<1>17. \E jj \in 1..Len(files) : \E mm \in 0..n :
         /\ pending = Pending(c, k, jj)
         /\ pending = [files |-> files, k |-> jj, start |-> start, section |-> TRUE,
                       plain |-> Plain(item.list)]
         /\ jj \in Nat \ {0}
         /\ TheFile = files[jj] /\ TheFile \notin Unresolved
         /\ at = start + mm
         /\ had = (mm > 0)
         /\ Clean => facts = told(jj) \cup Begun(TheFile, item.confs, mm)
         /\ mm < n => text[at] = Lexeme("$Configuration", << >>, <<item.confs[mm + 1]>>)
         /\ mm = n => text[at] = CloseBrace
  BY <1>3, <1>8, <1>9, <1>10, <1>12, <1>13, <1>14, <1>15, <1>16, Zenon
<1> QED
  BY <1>2, <1>4, <1>6, <1>7, <1>11, <1>17, Zenon DEF n, start, files, told, q

\* A configuration of the section.
LEMMA ReadConfigurationArrives ==
  ASSUME Written, NEW c, NEW k, Spot(c, k), Here(c, k), ReadConfiguration
  PROVE  StaysWritten /\ Arrives'
<1> DEFINE item == ItemsOf(tree, c)[k]
           start == Place(tree, c, k) + 2
           n == Len(item.confs)
           told(j) == Told(tree, outer, c, k)
                        \cup ToldOf(item, ActiveIn(tree, c, k), UnityOf(tree, outer, c), j)
<1>1. reading
  BY DEF ReadConfiguration
<1>2. /\ Inside(c, k) /\ k <= Len(ItemsOf(tree, c)) /\ item.word \in FileWords
      /\ item.section = TRUE /\ n \in Nat /\ start \in Nat
      /\ FilesOf(item) # << >>
  BY <1>1, SectionFound
<1>3. PICK j \in 1..Len(FilesOf(item)), m \in 0..n :
        /\ pending = Pending(c, k, j)
        /\ pending = [files |-> FilesOf(item), k |-> j, start |-> start,
                      section |-> TRUE, plain |-> Plain(item.list)]
        /\ TheFile = FilesOf(item)[j] /\ TheFile \notin Unresolved
        /\ at = start + m
        /\ Clean => facts = told(j) \cup Begun(TheFile, item.confs, m)
        /\ m < n => text[at] = Lexeme("$Configuration", << >>, <<item.confs[m + 1]>>)
        /\ m = n => text[at] = CloseBrace
  BY <1>1, SectionFound
<1>4. /\ StaysWritten /\ UNCHANGED <<folders, unitySeen, unityStack, pending>>
      /\ reading' /\ had' = TRUE /\ at' = at + 1
      /\ facts' = facts \cup Configured(TheFile, text[at].conf)
  BY DEF ReadConfiguration, StaysWritten
<1>5. m < n
  <2>1. text[at].word = "$Configuration"
    BY DEF ReadConfiguration
  <2>2. CloseBrace.word = "}"
    BY DEF CloseBrace, Lexeme
  <2>3. m # n
    BY <1>3, <2>1, <2>2
  <2> QED
    BY <1>2, <2>3
<1>6. Configured(TheFile, text[at].conf) = {<<TheFile, "configured", item.confs[m + 1]>>}
  <2> DEFINE conf == item.confs[m + 1]
  <2>1. text[at] = Lexeme("$Configuration", << >>, <<conf>>)
    BY <1>3, <1>5
  <2> HIDE DEF conf
  <2>2. text[at].conf = <<conf>>
    BY <2>1 DEF Lexeme
  <2>3. ToSet(<<conf>>) = {conf}
    BY DEF ToSet
  <2> QED
    BY <2>2, <2>3 DEF Configured, conf
<1>7. Begun(TheFile, item.confs, m) \cup {<<TheFile, "configured", item.confs[m + 1]>>}
        = Begun(TheFile, item.confs, m + 1)
  <2>1. 1..(m + 1) = (1..m) \cup {m + 1}
    BY <1>2
  <2>2. {<<TheFile, "configured", item.confs[i]>> : i \in 1..(m + 1)} =
          {<<TheFile, "configured", item.confs[i]>> : i \in 1..m}
             \cup {<<TheFile, "configured", item.confs[m + 1]>>}
    BY <2>1
  <2> QED
    BY <2>2 DEF Begun
<1>8. m + 1 \in 0..n /\ at' = start + (m + 1) /\ (m + 1 > 0) = TRUE
  BY <1>2, <1>3, <1>4, <1>5
<1>9. Clean' => facts' = told(j) \cup Begun(FilesOf(item)[j], item.confs, m + 1)
  BY <1>3, <1>4, <1>6, <1>7, WrittenStays
<1>10. \E i \in 0..n :
         /\ at' = start + i
         /\ had' = (i > 0)
         /\ Clean' => facts' = told(j) \cup Begun(FilesOf(item)[j], item.confs, i)
  <2>1. had' = (m + 1 > 0)
    BY <1>4, <1>8
  <2> HIDE DEF start, told, n
  <2> QED
    BY <1>8, <1>9, <2>1
<1>11. /\ j \in 1..(Len(FilesOf(item)) + 1) /\ j <= Len(FilesOf(item))
       /\ FilesOf(item)[j] \notin Unresolved
  <2>1. Len(FilesOf(item)) \in Nat
    BY <1>1, Found, FileFound
  <2> QED
    BY <1>3, <2>1
<1>12. start = Place(tree, c, k) + (IF item.section THEN 2 ELSE 1)
  BY <1>2
<1>13. pending' = [files |-> FilesOf(item), k |-> j, start |-> start,
                   section |-> item.section, plain |-> Plain(item.list)]
  BY <1>2, <1>3, <1>4
<1> HIDE DEF start, n
<1>14. Works(c, k, item, j)'
  BY <1>2, <1>4, <1>10, <1>11, <1>12, <1>13 DEF Works, StaysWritten, n
<1> QED
  BY <1>2, <1>4, <1>14, WorkGoesOn DEF Arrives

\* The end of the section: the file has its settings, and no others.
LEMMA EndSectionArrives ==
  ASSUME Written, NEW c, NEW k, Spot(c, k), Here(c, k), EndSection
  PROVE  StaysWritten /\ Arrives'
<1> DEFINE item == ItemsOf(tree, c)[k]
           active == ActiveIn(tree, c, k)
           unity == UnityOf(tree, outer, c)
           start == Place(tree, c, k) + 2
           n == Len(item.confs)
           told(j) == Told(tree, outer, c, k) \cup ToldOf(item, active, unity, j)
<1>1. reading
  BY DEF EndSection
<1>2. /\ Inside(c, k) /\ k <= Len(ItemsOf(tree, c)) /\ item.word \in FileWords
      /\ item.section = TRUE /\ n \in Nat /\ start \in Nat
      /\ Place(tree, c, k + 1) = start + n + 1
      /\ Last(folders).active = active
      /\ FilesOf(item) # << >>
  BY <1>1, SectionFound
<1>3. PICK j \in 1..Len(FilesOf(item)), m \in 0..n :
        /\ pending = Pending(c, k, j)
        /\ j \in Nat \ {0}
        /\ TheFile = FilesOf(item)[j] /\ TheFile \notin Unresolved
        /\ at = start + m
        /\ had = (m > 0)
        /\ Clean => facts = told(j) \cup Begun(TheFile, item.confs, m)
        /\ m < n => text[at] = Lexeme("$Configuration", << >>, <<item.confs[m + 1]>>)
        /\ m = n => text[at] = CloseBrace
  BY <1>1, SectionFound
<1>4. /\ StaysWritten /\ UNCHANGED <<folders, unitySeen, unityStack>>
      /\ ~reading' /\ pending' = NextFile /\ at' = at + 1
      /\ facts' = facts \cup FolderSettings(TheFile, had)
  BY DEF EndSection, StaysWritten
<1>5. m = n
  <2>1. text[at] = CloseBrace
    BY DEF EndSection
  <2>2. ASSUME m < n PROVE FALSE
    <3>1. text[at] = Lexeme("$Configuration", << >>, <<item.confs[m + 1]>>)
      BY <1>3, <2>2
    <3>2. Lexeme("$Configuration", << >>, <<item.confs[m + 1]>>) # CloseBrace
      BY NoBrace
    <3> QED
      BY <2>1, <3>1, <3>2
  <2> QED
    BY <1>2, <2>2
<1>6. IsLeaf(item) /\ item.confs \in Seq(ToSet(item.confs))
  BY <1>2, FilesStand DEF IsLeaf
<1>7. Begun(TheFile, item.confs, n) \cup FolderSettings(TheFile, had)
        = FileFacts(FilesOf(item)[j], item, active, unity)
  <2> DEFINE f == FilesOf(item)[j]
             confs == item.confs
  <2>1. f = TheFile /\ f \notin Unresolved
    BY <1>3
  <2>2. FileFacts(f, item, active, unity) =
          {<<f, "added", 0>>} \cup StepSettings(f) \cup Configured(f, confs)
             \cup (IF confs # << >> THEN {} ELSE Configured(f, active))
    BY <1>2, <2>1 DEF FileFacts
  <2>3. FolderSettings(TheFile, had) = IF n > 0 THEN {} ELSE Configured(f, active)
    BY <1>2, <1>3, <1>5, <2>1 DEF FolderSettings
  <2>4. n > 0 <=> confs # << >>
    <3>1. n = 0 <=> confs = << >>
      BY <1>6, EmptySeq
    <3> QED
      BY <1>2, <3>1
  <2>5. Begun(TheFile, confs, n) = {<<f, "added", 0>>} \cup StepSettings(f) \cup Configured(f, confs)
    <3>1. ToSet(confs) = {confs[i] : i \in 1..n}
      <4>1. DOMAIN confs = 1..n
        BY <1>6, LenProperties
      <4> QED
        BY <4>1 DEF ToSet
    <3>2. Configured(f, confs) = {<<f, "configured", confs[i]>> : i \in 1..n}
      BY <3>1 DEF Configured
    <3> QED
      BY <2>1, <3>2 DEF Begun
  <2> HIDE DEF f, confs, n
  <2>6. Begun(TheFile, confs, n) \cup FolderSettings(TheFile, had) = FileFacts(f, item, active, unity)
    BY <2>2, <2>3, <2>4, <2>5
  <2> QED
    BY <2>6 DEF f, confs
<1>8. Clean => facts' = told(j) \cup FileFacts(FilesOf(item)[j], item, active, unity)
  <2>1. Clean => facts = told(j) \cup Begun(TheFile, item.confs, n)
    BY <1>3, <1>5
  <2> HIDE DEF told, n
  <2> QED
    BY <1>4, <1>7, <2>1
<1>9. AnyRead(item, j + 1)
  BY <1>3, ToldOfNext
<1>10. at' = IF item.section /\ ~AnyRead(item, j + 1) THEN Place(tree, c, k) + 2
             ELSE Place(tree, c, k + 1)
  BY <1>2, <1>3, <1>4, <1>5, <1>9
<1>11. Arrives'
  BY <1>2, <1>3, <1>4, <1>8, <1>10, FileDone
<1> QED
  BY <1>4, <1>11

\* The last file is done: the parser is behind the item, if a section was read.
LEMMA EndFilesArrives ==
  ASSUME Written, Calm, NEW c, NEW k, Spot(c, k), Here(c, k), EndFiles
  PROVE  StaysWritten /\ Arrives'
<1> DEFINE item == ItemsOf(tree, c)[k]
           active == ActiveIn(tree, c, k)
           unity == UnityOf(tree, outer, c)
           start == Place(tree, c, k) + (IF item.section THEN 2 ELSE 1)
           told(j) == Told(tree, outer, c, k) \cup ToldOf(item, active, unity, j)
           l == Len(FilesOf(item))
<1>1. pending # NothingPending /\ pending.k > Len(pending.files)
  BY DEF EndFiles
<1>2. /\ Inside(c, k) /\ k <= Len(ItemsOf(tree, c)) /\ item.word \in FileWords
      /\ l \in Nat /\ (item.section => FilesOf(item) # << >>)
  BY <1>1, FileFound
<1>3. PICK j \in 1..(l + 1) :
        Works(c, k, item, j) /\ pending.k = j /\ pending.files = FilesOf(item)
  BY <1>1, FileFound
<1>4. j = l + 1 /\ ~(j <= l)
  BY <1>1, <1>2, <1>3
<1>5. /\ ~reading
      /\ at = IF item.section /\ ~AnyRead(item, l + 1) THEN start ELSE Place(tree, c, k + 1)
      /\ Clean => facts = told(l + 1)
  BY <1>3, <1>4 DEF Works
<1>6. /\ IsLeaf(item) /\ item \in AllItems /\ item.word \notin FolderWords
      /\ c \in Contexts(tree) /\ k \in 1..Len(ItemsOf(tree, c))
  BY <1>2, FilesStand
<1>7. /\ StaysWritten /\ UNCHANGED <<at, folders, unitySeen, unityStack, reading, facts>>
      /\ pending' = NothingPending
  BY DEF EndFiles, StaysWritten
<1>8. item.section => AnyRead(item, l + 1)
  <2>1. ~SectionUnread(item)
    BY <1>6 DEF Calm
  <2> QED
    BY <1>2, <1>6, <2>1, SectionRead
<1>9. at' = Place(tree, c, k + 1)
  BY <1>5, <1>7, <1>8
<1>10. Clean => facts' = Told(tree, outer, c, k) \cup Means(tree, outer, c, k)
  <2>1. ASSUME Clean PROVE Means(tree, outer, c, k) = ToldOf(item, active, unity, l + 1)
    <3>1. ~MissingTwice(item)
      BY <1>6, <2>1 DEF Clean
    <3> QED
      BY <1>2, <1>6, <3>1, ItemTold DEF Means
  <2> QED
    BY <1>5, <1>7, <2>1
<1>11. folders' = OpenAt(tree, outer, c, k + 1)
  <2>1. item.word # "$Configuration" /\ tree \in Trees
    BY <1>2 DEF FileWords, Written
  <2>2. OpenAt(tree, outer, c, k + 1) = OpenAt(tree, outer, c, k)
    BY <1>6, <2>1, OpenAtNext
  <2> QED
    BY <1>2, <1>7, <2>2 DEF Inside
<1>12. ~reading'
  BY <1>5, <1>7
<1>13. Spot(c, k + 1)' /\ Here(c, k + 1)'
  BY <1>2, <1>6, <1>7, <1>9, <1>10, <1>11, <1>12, LeafDone
<1> QED
  BY <1>7, <1>13 DEF Arrives

\* A configuration of the folder: the files that follow get it.
LEMMA FolderConfigurationArrives ==
  ASSUME Written, NEW c, NEW k, Spot(c, k), Here(c, k), FolderConfiguration
  PROVE  StaysWritten /\ Arrives'
<1> DEFINE item == ItemsOf(tree, c)[k]
           p == Place(tree, c, k)
           q == Place(tree, c, k + 1)
<1>1. /\ AtItem(c, k) /\ Inside(c, k) /\ at = p
      /\ k <= Len(ItemsOf(tree, c)) /\ item.word = "$Configuration"
  <2>1. Keyword({"$Configuration"}) /\ "}" \notin {"$Configuration"}
    BY DEF FolderConfiguration
  <2> QED
    BY <2>1, KeywordFound
<1>2. item.word \notin FolderWords /\ item.word \notin FileWords
  BY <1>1 DEF FolderWords, FileWords
<1>3. LeafLies(text, p, item, q) /\ k \in 1..Len(ItemsOf(tree, c))
  BY <1>1, <1>2, ItemStands DEF Stands
<1>4. text[p] = Lexeme("$Configuration", << >>, item.confs) /\ q = p + 1
  BY <1>1, <1>3, Zenon DEF LeafLies
<1>5. text[at].conf = item.confs
  BY <1>1, <1>4 DEF Lexeme
<1>6. /\ StaysWritten /\ UNCHANGED <<unitySeen, unityStack, pending, reading, facts>>
      /\ folders' = [folders EXCEPT ![Len(folders)].active = text[at].conf]
      /\ at' = at + 1
  BY DEF FolderConfiguration, StaysWritten
<1>7. folders' = OpenAt(tree, outer, c, k + 1)
  <2>1. folders = OpenAt(tree, outer, c, k)
    BY <1>1 DEF Inside
  <2>2. tree \in Trees /\ c \in Contexts(tree)
    BY DEF Written, Spot
  <2> DEFINE open == OpenAt(tree, outer, c, k)
  <2>3. OpenAt(tree, outer, c, k + 1) = [open EXCEPT ![Len(open)].active = item.confs]
    BY <1>1, <1>3, <2>2, OpenAtNext
  <2>4. folders' = [folders EXCEPT ![Len(folders)].active = item.confs]
    BY <1>5, <1>6
  <2> HIDE DEF open, item
  <2> QED
    BY <2>1, <2>3, <2>4 DEF open
<1>8. Means(tree, outer, c, k) = {}
  BY <1>2 DEF Means, ItemFacts
<1>9. /\ at' = q /\ pending' = NothingPending /\ ~reading'
      /\ Clean => facts' = Told(tree, outer, c, k) \cup Means(tree, outer, c, k)
  BY <1>1, <1>4, <1>6, <1>8 DEF AtItem
<1>10. Spot(c, k + 1)' /\ Here(c, k + 1)'
  BY <1>1, <1>2, <1>6, <1>7, <1>9, LeafDone
<1> QED
  BY <1>6, <1>10 DEF Arrives

\* The second element.
LEMMA AppendPair ==
  ASSUME NEW a, NEW b
  PROVE  Append(<<a>>, b) = <<a, b>>
<1> DEFINE S == {a, b}
           s == Append(<<a>>, b)
           t == <<a, b>>
<1>1. /\ <<a>> \in Seq(S) /\ Len(<<a>>) = 1 /\ <<a>>[1] = a
      /\ t \in Seq(S) /\ Len(t) = 2 /\ t[1] = a /\ t[2] = b
  OBVIOUS
<1>2. s \in Seq(S) /\ Len(s) = 2 /\ s[1] = a /\ s[2] = b
  BY <1>1, AppendProperties
<1> HIDE DEF s, t, S
<1>3. \A i \in 1..Len(s) : s[i] = t[i]
  <2>1. \A i \in 1..2 : i = 1 \/ i = 2
    OBVIOUS
  <2> QED
    BY <1>1, <1>2, <2>1
<1>4. s = t
  BY <1>1, <1>2, <1>3, SeqEqual
<1> QED
  BY <1>4 DEF s, t

\* A folder begins, with the configuration of its parent at that item.
LEMMA OpenFolderArrives ==
  ASSUME Written, NEW c, NEW k, Spot(c, k), Here(c, k), OpenFolder
  PROVE  StaysWritten /\ Arrives'
<1> DEFINE item == tree[k]
           p == Place(tree, 0, k)
           bUnity == item.word = "$Unity"
           number == Number(tree, outer, k)
<1>1. /\ AtItem(c, k) /\ Inside(c, k) /\ at = Place(tree, c, k)
      /\ k <= Len(ItemsOf(tree, c)) /\ ItemsOf(tree, c)[k].word \in FolderWords
  <2>1. Keyword(FolderWords) /\ "}" \notin FolderWords
    BY DEF OpenFolder, FolderWords
  <2> QED
    BY <2>1, KeywordFound
<1>2. /\ c = 0 /\ k \in Contexts(tree) \ {0} /\ ItemsOf(tree, c)[k] = item
      /\ text[at] = Lexeme(item.word, << >>, << >>)
      /\ text[at + 1] = OpenBrace
      /\ at \in Nat \ {0}
  BY <1>1, ItemStands DEF Stands
<1>3. tree \in Trees /\ Layout(tree, text) /\ item.word \in FolderWords /\ at = p
  BY <1>1, <1>2, TreeLaid DEF Written
<1>4. ItemsOf(tree, k) = item.inner /\ Len(ItemsOf(tree, k)) \in Nat /\ k \in Nat \ {0}
  BY <1>2, <1>3, TreeItems DEF ItemsOf, Contexts
<1>5. Spot(k, 1)
  BY <1>2, <1>4 DEF Spot
<1>6. (text[at].word = "$Unity") = bUnity
  BY <1>2 DEF Lexeme
<1>7. /\ StaysWritten /\ UNCHANGED <<pending, reading>>
      /\ folders' = Append(folders, [active |-> Last(folders).active, bUnity |-> bUnity])
      /\ unitySeen' = IF bUnity THEN unitySeen + 1 ELSE unitySeen
      /\ unityStack' = IF bUnity THEN Append(unityStack, unitySeen') ELSE unityStack
      /\ facts' = IF bUnity THEN facts \cup {UnityFile(unitySeen')} ELSE facts
      /\ at' = at + 2
  BY <1>6 DEF OpenFolder, StaysWritten
<1>8. at' = Place(tree, k, 1)
  BY <1>2, <1>3, <1>7 DEF Layout
<1>9. number = (IF bUnity THEN unitySeen + 1 ELSE unitySeen) /\ unitySeen' = number
  <2>1. unitySeen = Number(tree, outer, k - 1)
    BY <1>1, <1>2 DEF Inside, SeenAt
  <2>2. k - 1 \in Nat /\ k - 1 + 1 = k
    BY <1>4
  <2>3. number = IF bUnity THEN Number(tree, outer, k - 1) + 1 ELSE Number(tree, outer, k - 1)
    BY <2>2, NumberNext
  <2> QED
    BY <1>7, <2>1, <2>3
<1>10. folders' = OpenAt(tree, outer, k, 1) /\ Len(folders') = Len(folders) + 1
  <2> DEFINE outermost == [active |-> ActiveAt(tree, k, << >>), bUnity |-> outer = "$Unity"]
             inner == [active |-> ActiveIn(tree, k, 1), bUnity |-> bUnity]
  <2>1. folders = <<outermost>>
    BY <1>1, <1>2 DEF Inside, OpenAt, Top
  <2>2. OpenAt(tree, outer, k, 1) = <<outermost, inner>>
    BY <1>4 DEF OpenAt, Top
  <2>3. ActiveIn(tree, k, 1) = outermost.active
    BY <1>4, ActiveNext DEF ActiveIn
  <2>4. [active |-> outermost.active, bUnity |-> bUnity] = inner
    BY <2>3
  <2> HIDE DEF outermost, inner, bUnity
  <2>5. Last(folders) = outermost /\ Len(folders) = 1
    BY <2>1 DEF Last
  <2>6. folders' = Append(<<outermost>>, inner)
    <3>1. [active |-> Last(folders).active, bUnity |-> bUnity] = inner
      BY <2>4, <2>5, Zenon
    <3>2. folders' = Append(folders, [active |-> Last(folders).active, bUnity |-> bUnity])
      BY <1>7
    <3> QED
      BY <2>1, <3>1, <3>2, Zenon
  <2>7. folders' = <<outermost, inner>>
    BY <2>6, AppendPair
  <2> QED
    BY <2>2, <2>5, <2>7
<1>11. SeenAt(tree, outer, k, 1) = number
  BY <1>4 DEF SeenAt
<1>12. unityStack' = StackAt(tree, outer, k)
  <2> DEFINE own == IF outer = "$Unity" THEN <<1>> ELSE << >>
  <2>1. StackAt(tree, outer, k) = own \o (IF bUnity THEN <<number>> ELSE << >>)
    BY <1>4 DEF StackAt
  <2>2. unityStack = own \o << >>
    BY <1>1, <1>2 DEF Inside, StackAt
  <2>3. own \in Seq(Nat)
    <3>1. << >> \in Seq(Nat) /\ <<1>> \in Seq(Nat)
      BY EmptySeq
    <3> QED
      BY <3>1
  <2>4. own \o << >> = own
    <3> HIDE DEF own
    <3> QED
      BY <2>3, ConcatEmptySeq
  <2>5. number \in Nat
    BY <1>4, NumberNext
  <2>6. Append(own, number) = own \o <<number>>
    <3> HIDE DEF own, number
    <3> QED
      BY <2>3, <2>5, AppendIsConcat
  <2> HIDE DEF own, number, bUnity
  <2> QED
    BY <1>7, <1>9, <2>1, <2>2, <2>4, <2>6
<1>13. Balanced(Place(tree, k, 1), Len(folders'))
  <2>1. Balanced(p, Len(folders))
    BY <1>1, <1>2 DEF Inside
  <2>2. Balanced(p + 2, Len(folders) + 1)
    BY <1>2, <1>3, <2>1, BalanceIntoFolder
  <2> QED
    BY <1>3, <1>7, <1>8, <1>10, <2>2
<1>14. Inside(k, 1)'
  <2>1. Balanced(Place(tree, k, 1), Len(folders))'
    <3>1. \A i, n : Balanced(i, n)' <=> Balanced(i, n)
      BY <1>7, WrittenStays
    <3>2. Place(tree, k, 1)' = Place(tree, k, 1)
      BY <1>7 DEF StaysWritten
    <3> QED
      BY <1>13, <3>1, <3>2
  <2> QED
    BY <1>7, <1>9, <1>10, <1>11, <1>12, <2>1 DEF Inside, StaysWritten
<1>15. Clean => facts' = Told(tree, outer, k, 1)
  <2>1. Told(tree, outer, k, 1) =
          Told(tree, outer, 0, k) \cup (IF bUnity THEN {UnityFile(number)} ELSE {})
    BY <1>2, <1>3, ToldInside
  <2>2. Clean => facts = Told(tree, outer, 0, k)
    BY <1>1, <1>2 DEF AtItem
  <2> HIDE DEF number, bUnity
  <2> QED
    BY <1>7, <1>9, <2>1, <2>2
<1>16. AtItem(k, 1)'
  <2>1. pending = NothingPending /\ ~reading
    BY <1>1 DEF AtItem
  <2>2. Clean' => Clean
    BY <1>7, WrittenStays
  <2> QED
    BY <1>7, <1>8, <1>15, <2>1, <2>2 DEF AtItem, StaysWritten, NothingPending
<1>17. Spot(k, 1)'
  BY <1>5, <1>7, WrittenStays
<1> QED
  BY <1>7, <1>14, <1>16, <1>17 DEF Arrives, Here

-----------------------------------------------------------------------------
(***************************************************************************)
(* The end of a folder, and the theorem.                                   *)
(***************************************************************************)
LEMMA PairFront ==
  ASSUME NEW a, NEW b
  PROVE  Front(<<a, b>>) = <<a>> /\ Front(<<a>>) = << >>
<1> DEFINE S == {a, b}
           t == <<a, b>>
           s == SubSeq(t, 1, 1)
           u == SubSeq(<<a>>, 1, 0)
<1>1. /\ <<a>> \in Seq(S) /\ Len(<<a>>) = 1 /\ <<a>>[1] = a
      /\ t \in Seq(S) /\ Len(t) = 2 /\ t[1] = a
  OBVIOUS
<1>2. Front(t) = s /\ Front(<<a>>) = u
  BY <1>1 DEF Front
<1> HIDE DEF t, S
<1>3. s \in Seq(S) /\ Len(s) = 1 /\ s[1] = a
  BY <1>1, SubSeqProperties
<1>4. u \in Seq(S) /\ Len(u) = 0
  BY <1>1, SubSeqProperties
<1> HIDE DEF s, u
<1>5. s = <<a>>
  <2>1. \A i \in 1..Len(s) : s[i] = <<a>>[i]
    BY <1>1, <1>3
  <2> QED
    BY <1>1, <1>3, <2>1, SeqEqual
<1>6. u = << >>
  BY <1>4, EmptySeq
<1> QED
  BY <1>2, <1>5, <1>6 DEF t

\* A folder ends: the configuration and the unity file of its parent are back.
LEMMA CloseFolderArrives ==
  ASSUME Written, NEW c, NEW k, Spot(c, k), Here(c, k), CloseFolder
  PROVE  StaysWritten /\ (Finished' \/ Arrives')
<1> DEFINE n == Len(ItemsOf(tree, c))
<1>1. AtItem(c, k) /\ Inside(c, k) /\ at = Place(tree, c, k) /\ k = n + 1
  <2>1. Keyword({"}"})
    BY DEF CloseFolder
  <2> QED
    BY <2>1, KeywordFound
<1>2. n \in Nat /\ at \in Nat \ {0} /\ text[at] = CloseBrace
  BY <1>1, ItemStands DEF Stands
<1>3. tree \in Trees /\ c \in Contexts(tree) /\ Layout(tree, text)
  BY TreeLaid DEF Written, Spot
<1>4. /\ StaysWritten /\ UNCHANGED <<unitySeen, pending, reading, facts>>
      /\ folders' = Front(folders)
      /\ unityStack' = IF Last(folders).bUnity THEN Front(unityStack) ELSE unityStack
      /\ at' = at + 1
  BY DEF CloseFolder, StaysWritten
<1>5. Balanced(at', Len(folders) - 1)
  <2>1. Balanced(at, Len(folders))
    BY <1>1 DEF Inside
  <2>2. Balanced(at + 1, Len(folders) - 1)
    BY <1>2, <2>1, BalanceOutOfFolder
  <2> QED
    BY <1>4, <2>2
<1>6. /\ folders = OpenAt(tree, outer, c, k) /\ unityStack = StackAt(tree, outer, c)
      /\ unitySeen = SeenAt(tree, outer, c, k)
      /\ pending = NothingPending /\ ~reading
      /\ Clean => facts = Told(tree, outer, c, k)
  BY <1>1 DEF Inside, AtItem
<1>7. (Clean' => Clean) /\ \A i, l : Balanced(i, l)' <=> Balanced(i, l)
  BY <1>4, WrittenStays
<1>8. CASE c = 0
  <2>1. folders' = << >> /\ Len(folders) = 1
    <3> DEFINE outermost == [active |-> ActiveAt(tree, Top(c, k), << >>), bUnity |-> outer = "$Unity"]
    <3>1. folders = <<outermost>>
      BY <1>6, <1>8 DEF OpenAt
    <3> HIDE DEF outermost
    <3> QED
      BY <1>4, <3>1, PairFront
  <2>2. Balanced(at, 0)'
    <3>1. Len(folders) - 1 = 0
      BY <2>1
    <3> QED
      BY <1>4, <1>5, <1>7, <3>1
  <2>3. Clean' => facts' = Meant'
    <3>1. Meant' = Meant
      BY <1>4 DEF StaysWritten, Meant
    <3>2. Meant = Told(tree, outer, c, k)
      BY <1>1, <1>3, <1>8, MeantIsTold DEF ItemsOf
    <3> QED
      BY <1>4, <1>6, <1>7, <3>1, <3>2
  <2>4. pending' = NothingPending' /\ ~reading'
    BY <1>4, <1>6 DEF NothingPending
  <2> QED
    BY <1>4, <2>1, <2>2, <2>3, <2>4 DEF Finished
<1>9. CASE c # 0
  <2> DEFINE outermost == [active |-> ActiveAt(tree, c, << >>), bUnity |-> outer = "$Unity"]
             next == [active |-> ActiveAt(tree, c + 1, << >>), bUnity |-> outer = "$Unity"]
             inner == [active |-> ActiveIn(tree, c, k), bUnity |-> tree[c].word = "$Unity"]
             own == IF outer = "$Unity" THEN <<1>> ELSE << >>
             number == Number(tree, outer, c)
  <2>1. c \in 1..Len(tree) /\ c \in Nat \ {0} /\ Len(tree) \in Nat /\ tree[c].word \in FolderWords
    BY <1>3, <1>9, TreeItems DEF Contexts
  <2>2. Spot(0, c + 1)
    <3>1. 0 \in Contexts(tree) /\ Len(ItemsOf(tree, 0)) = Len(tree)
      BY DEF Contexts, ItemsOf
    <3> QED
      BY <2>1, <3>1 DEF Spot
  <2>3. at' = Place(tree, 0, c + 1)
    <3>1. n = Len(tree[c].inner)
      BY <1>9 DEF ItemsOf
    <3> HIDE DEF n
    <3>2. Place(tree, 0, c + 1) = Place(tree, c, n + 1) + 1
      BY <1>3, <1>9, <3>1 DEF Layout
    <3> QED
      BY <1>1, <1>4, <3>2
  <2>4. Last(folders).bUnity = (tree[c].word = "$Unity")
    BY <1>6, <1>9, OpenAtEnds
  <2>5. folders' = OpenAt(tree, outer, 0, c + 1) /\ Len(folders) = 2 /\ Len(folders') = 1
    <3>1. folders = <<outermost, inner>>
      BY <1>6, <1>9 DEF OpenAt, Top
    <3>2. OpenAt(tree, outer, 0, c + 1) = <<next>>
      BY DEF OpenAt, Top
    <3>3. ActiveAt(tree, c + 1, << >>) = ActiveAt(tree, c, << >>)
      <4>1. tree[c].word # "$Configuration"
        BY <2>1 DEF FolderWords
      <4> QED
        BY <2>1, <4>1, ActiveNext
    <3>4. next = outermost
      BY <3>3
    <3> HIDE DEF outermost, inner, next
    <3>5. folders' = <<outermost>> /\ Len(folders) = 2
      BY <1>4, <3>1, PairFront
    <3> QED
      BY <3>2, <3>4, <3>5
  <2>6. SeenAt(tree, outer, 0, c + 1) = SeenAt(tree, outer, c, k)
    <3>1. \A i : SeenAt(tree, outer, 0, i) = Number(tree, outer, i - 1)
      BY DEF SeenAt
    <3>2. SeenAt(tree, outer, c, k) = Number(tree, outer, c)
      BY <1>9 DEF SeenAt
    <3> DEFINE i == c + 1
    <3>3. i - 1 = c
      BY <2>1
    <3>4. SeenAt(tree, outer, 0, i) = Number(tree, outer, i - 1)
      BY <3>1
    <3> HIDE DEF i
    <3>5. SeenAt(tree, outer, 0, i) = Number(tree, outer, c)
      BY <3>3, <3>4, Zenon
    <3> QED
      BY <3>2, <3>5, Zenon DEF i
  <2>7. unityStack' = StackAt(tree, outer, 0)
    <3>1. StackAt(tree, outer, 0) = own \o << >>
      BY DEF StackAt
    <3>2. own \in Seq(Nat)
      <4>1. << >> \in Seq(Nat) /\ <<1>> \in Seq(Nat)
        BY EmptySeq
      <4> QED
        BY <4>1
    <3>3. CASE tree[c].word = "$Unity"
      <4>1. unityStack = own \o <<number>> /\ unityStack' = Front(unityStack)
        BY <1>4, <1>6, <1>9, <2>4, <3>3 DEF StackAt
      <4>2. number \in Nat
        BY <2>1, NumberNext
      <4>3. own = << >> \/ own = <<1>>
        OBVIOUS
      <4> HIDE DEF own, number
      <4>4. unityStack = Append(own, number)
        BY <3>2, <4>1, <4>2, AppendIsConcat
      <4>5. Front(Append(own, number)) = own
        <5>1. CASE own = << >>
          <6>1. << >> \o <<number>> = <<number>>
            OBVIOUS
          <6>2. Append(own, number) = <<number>>
            BY <4>1, <4>4, <5>1, <6>1
          <6>3. Front(<<number>>) = << >>
            BY PairFront
          <6> QED
            BY <5>1, <6>2, <6>3
        <5>2. CASE own = <<1>>
          <6>1. Append(<<1>>, number) = <<1, number>>
            BY AppendPair
          <6>2. Front(<<1, number>>) = <<1>>
            BY PairFront
          <6> QED
            BY <5>2, <6>1, <6>2, Zenon
        <5> QED
          BY <4>3, <5>1, <5>2
      <4>6. own \o << >> = own
        BY <3>2, ConcatEmptySeq
      <4> QED
        BY <3>1, <4>1, <4>4, <4>5, <4>6
    <3>4. CASE tree[c].word # "$Unity"
      <4>1. StackAt(tree, outer, c) = own \o << >>
        BY <3>4 DEF StackAt
      <4>2. ~Last(folders).bUnity
        BY <2>4, <3>4, Zenon
      <4>3. unityStack' = unityStack
        BY <1>4, <4>2
      <4> QED
        BY <1>6, <3>1, <4>1, <4>3
    <3> QED
      BY <3>3, <3>4
  <2>8. Inside(0, c + 1)'
    <3>1. Balanced(Place(tree, 0, c + 1), Len(folders))'
      <4>1. Balanced(at', Len(folders) - 1)
        BY <1>5
      <4>2. Len(folders') = Len(folders) - 1
        BY <2>5
      <4>3. Place(tree, 0, c + 1)' = Place(tree, 0, c + 1)
        BY <1>4 DEF StaysWritten
      <4> QED
        BY <1>7, <2>3, <4>1, <4>2, <4>3
    <3> QED
      BY <1>4, <1>6, <2>5, <2>6, <2>7, <3>1 DEF Inside, StaysWritten
  <2>9. AtItem(0, c + 1)'
    <3>1. Told(tree, outer, 0, c + 1) = Told(tree, outer, c, k)
      <4>1. k = Len(tree[c].inner) + 1
        BY <1>1, <1>9 DEF ItemsOf
      <4> QED
        BY <1>3, <1>9, <4>1, ToldOutside
    <3> QED
      BY <1>4, <1>6, <1>7, <2>3, <3>1 DEF AtItem, StaysWritten, NothingPending
  <2>10. Spot(0, c + 1)'
    BY <1>4, <2>2, WrittenStays
  <2> QED
    BY <1>4, <2>8, <2>9, <2>10 DEF Arrives, Here
<1> QED
  BY <1>8, <1>9

\* The invariant is inductive.
LEMMA FolderStepArrives ==
  ASSUME FolderInv, FolderNext
  PROVE  FolderInv'
<1>1. Written
  BY DEF FolderInv
<1>2. StaysWritten
  BY DEF FolderNext, AddFiles, SkipUnresolved, ExcludeForUnity, AddFile, ReadConfiguration,
         EndSection, EndFiles, FolderConfiguration, OpenFolder, CloseFolder, FolderRead,
         folderVars, StaysWritten
<1>3. Written' /\ (Calm' <=> Calm)
  BY <1>1, <1>2, WrittenStays
<1>4. ASSUME Calm, NEW c, NEW k, Spot(c, k), Here(c, k)
      PROVE  Finished' \/ Arrives'
  <2>1. folders # << >>
    BY <1>4, OpenAtEnds DEF Here, Inside
  <2>2. ~FolderRead
    BY <2>1 DEF FolderRead
  <2>3. CASE AddFiles
    BY <1>1, <1>4, <2>3, AddFilesArrives
  <2>4. CASE SkipUnresolved
    BY <1>1, <1>4, <2>4, SkipUnresolvedArrives
  <2>5. CASE ExcludeForUnity
    BY <1>1, <1>4, <2>5, ExcludeForUnityArrives
  <2>6. CASE AddFile
    BY <1>1, <1>4, <2>6, AddFileArrives
  <2>7. CASE ReadConfiguration
    BY <1>1, <1>4, <2>7, ReadConfigurationArrives
  <2>8. CASE EndSection
    BY <1>1, <1>4, <2>8, EndSectionArrives
  <2>9. CASE EndFiles
    BY <1>1, <1>4, <2>9, EndFilesArrives
  <2>10. CASE FolderConfiguration
    BY <1>1, <1>4, <2>10, FolderConfigurationArrives
  <2>11. CASE OpenFolder
    BY <1>1, <1>4, <2>11, OpenFolderArrives
  <2>12. CASE CloseFolder
    BY <1>1, <1>4, <2>12, CloseFolderArrives
  <2> QED
    BY <2>2, <2>3, <2>4, <2>5, <2>6, <2>7, <2>8, <2>9, <2>10, <2>11, <2>12 DEF FolderNext
<1>5. ASSUME Calm, Finished
      PROVE  Finished'
  <2>1. folders = << >> /\ pending = NothingPending /\ ~reading
    BY <1>5 DEF Finished
  <2>2. UNCHANGED folderVars
    BY <2>1 DEF FolderNext, AddFiles, SkipUnresolved, ExcludeForUnity, AddFile, ReadConfiguration,
         EndSection, EndFiles, FolderConfiguration, OpenFolder, CloseFolder, FolderRead,
         Keyword, Work
  <2> QED
    BY <1>5, <2>2 DEF folderVars, Finished, Balanced, BracesBefore, Clean, Meant, AllItems,
       NothingPending
<1>6. Calm => Finished' \/ Arrives'
  BY <1>4, <1>5 DEF FolderInv
<1> QED
  BY <1>3, <1>6 DEF FolderInv, Arrives

\* A stuttering step changes nothing.
LEMMA FolderStays ==
  ASSUME FolderInv, UNCHANGED folderVars
  PROVE  FolderInv'
<1>1. /\ StaysWritten
      /\ UNCHANGED <<at, folders, unitySeen, unityStack, pending, reading, had, facts>>
  BY DEF folderVars, StaysWritten
<1>2. /\ Calm' <=> Calm
      /\ Clean' <=> Clean
      /\ Written' <=> Written
      /\ \A c, k : Spot(c, k)' <=> Spot(c, k)
      /\ \A i, n : Balanced(i, n)' <=> Balanced(i, n)
  BY <1>1, WrittenStays
<1>3. Finished => Finished'
  <2>1. Meant' = Meant
    BY <1>1 DEF StaysWritten, Meant
  <2>2. Balanced(at, 0) => Balanced(at, 0)'
    BY <1>1, <1>2
  <2>3. NothingPending' = NothingPending
    OBVIOUS
  <2> QED
    BY <1>1, <1>2, <2>1, <2>2, <2>3, Zenon DEF Finished
<1>4. ASSUME NEW c, NEW k, Spot(c, k), Here(c, k)
      PROVE  Spot(c, k)' /\ Here(c, k)'
  <2>1. Inside(c, k)'
    BY <1>1, <1>4, InsideStays DEF Here
  <2>2. AtItem(c, k) => AtItem(c, k)'
    BY <1>1, <1>2 DEF AtItem, StaysWritten, NothingPending
  <2>3. ASSUME NEW j, NEW item, Works(c, k, item, j)
        PROVE  Works(c, k, item, j)'
    BY <1>1, <1>2, <2>3 DEF Works, StaysWritten
  <2> QED
    BY <1>1, <1>2, <1>4, <2>1, <2>2, <2>3 DEF Here, StaysWritten
<1>5. Arrives => Arrives'
  BY <1>4 DEF Arrives
<1> QED
  BY <1>2, <1>3, <1>5 DEF FolderInv, Arrives

\* The invariant implies the property.
LEMMA FolderHolds ==
  ASSUME FolderInv
  PROVE  FoldersReadAsWritten
<1>1. Clean => Calm
  BY DEF Clean, Calm
<1>2. SettingsReachOwnFiles
  <2> SUFFICES ASSUME folders = << >>, Clean PROVE facts = Meant
    BY DEF SettingsReachOwnFiles, Clean
  <2>1. ASSUME NEW c, NEW k, Here(c, k) PROVE FALSE
    BY <2>1, OpenAtEnds DEF Here, Inside
  <2> QED
    BY <1>1, <2>1 DEF FolderInv, Finished
<1>3. FoldersMatchBraces
  <2> SUFFICES ASSUME pending = NothingPending, Calm
               PROVE  Balanced(at, Len(folders))
    BY DEF FoldersMatchBraces, Calm, Balanced
  <2>1. ASSUME NEW c, NEW k, Here(c, k) PROVE Balanced(at, Len(folders))
    <3>1. AtItem(c, k) /\ Inside(c, k)
      BY <2>1, Found DEF Here
    <3> QED
      BY <3>1 DEF AtItem, Inside
  <2>2. ASSUME Finished PROVE Balanced(at, Len(folders))
    <3>1. folders = << >> /\ Balanced(at, 0)
      BY <2>2 DEF Finished
    <3>2. Len(<< >>) = 0
      BY EmptySeq
    <3> QED
      BY <3>1, <3>2
  <2> QED
    BY <2>1, <2>2 DEF FolderInv
<1> QED
  BY <1>2, <1>3 DEF FoldersReadAsWritten

(***************************************************************************)
(* Files get the settings of their own section or folder, in the unity     *)
(* file of their own folder, and every brace ends what it began: what      *)
(* VPC_Keyword_Folder and VPC_Keyword_AddFile restore is enough, whatever  *)
(* the folder holds, but for the two kinds of lists that the property      *)
(* names (SectionUnread, MissingTwice).                                    *)
(***************************************************************************)
THEOREM FoldersAreReadAsWritten == FolderSpec => []FoldersReadAsWritten
<1>1. FolderInit => FolderInv
  BY FolderStarts
<1>2. FolderInv /\ [FolderNext]_folderVars => FolderInv'
  BY FolderStepArrives, FolderStays
<1>3. FolderInv => FoldersReadAsWritten
  BY FolderHolds
<1> QED
  BY <1>1, <1>2, <1>3, PTL DEF FolderSpec
==============================================================================
