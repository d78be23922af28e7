-------------------------- MODULE Generation_proofs --------------------------
(***************************************************************************)
(* When a project file may be taken for current, for any scripts, any      *)
(* include lists, any number of edits and any scenario; and what the CRC   *)
(* of one script covers, for any script, any disk and any number of runs.  *)
(***************************************************************************)
EXTENDS ProjectCurrency, CRCScript, Iteration, SequenceTheorems, TLAPS

Entries(list) == {list[k] : k \in 1..Len(list)}
ScriptsOf(lines) == {l[1] : l \in lines}

\* No script has two lines.
OneLineEach(list) == \A j, k \in 1..Len(list) : list[j][1] = list[k][1] => j = k

-----------------------------------------------------------------------------
(***************************************************************************)
(* A list without its first element, behind another list.                  *)
(***************************************************************************)
LEMMA HeadAndTail ==
  ASSUME NEW S, NEW list \in Seq(S), list # << >>
  PROVE  /\ Head(list) \in S /\ Tail(list) \in Seq(S)
         /\ Entries(list) = {Head(list)} \cup Entries(Tail(list))
         /\ \A k \in 1..Len(Tail(list)) : Tail(list)[k] = list[k + 1] /\ k + 1 \in 1..Len(list)
         /\ Head(list) = list[1] /\ Len(Tail(list)) = Len(list) - 1 /\ 1 \in 1..Len(list)
<1>1. Len(list) \in Nat /\ Len(list) # 0
  BY EmptySeq
<1>2. /\ Head(list) \in S /\ Tail(list) \in Seq(S)
      /\ Head(list) = list[1] /\ Len(Tail(list)) = Len(list) - 1
      /\ \A k \in 1..Len(Tail(list)) : Tail(list)[k] = list[k + 1]
  BY <1>1, HeadTailProperties
<1>3. 1 \in 1..Len(list) /\ \A k \in 1..Len(Tail(list)) : k + 1 \in 1..Len(list)
  BY <1>1, <1>2
<1>4. ASSUME NEW k \in 1..Len(list)
      PROVE  k = 1 \/ (k - 1 \in 1..Len(Tail(list)) /\ Tail(list)[k - 1] = list[k])
  <2>1. k = 1 \/ k - 1 \in 1..Len(Tail(list))
    BY <1>1, <1>2
  <2>2. (k - 1) + 1 = k
    OBVIOUS
  <2> QED
    BY <2>1, <2>2, <1>2
<1>5. Entries(list) = {Head(list)} \cup Entries(Tail(list))
  BY <1>2, <1>3, <1>4 DEF Entries
<1> QED
  BY <1>2, <1>3, <1>5

LEMMA Joined ==
  ASSUME NEW S, NEW first \in Seq(S), NEW second \in Seq(S)
  PROVE  /\ first \o second \in Seq(S)
         /\ Entries(first \o second) = Entries(first) \cup Entries(second)
         /\ first \o second = << >> => first = << >> /\ second = << >>
<1>1. /\ Len(first) \in Nat /\ Len(second) \in Nat /\ first \o second \in Seq(S)
      /\ Len(first \o second) = Len(first) + Len(second)
      /\ \A k \in 1..Len(first) + Len(second) :
           (first \o second)[k] = IF k <= Len(first) THEN first[k] ELSE second[k - Len(first)]
  BY ConcatProperties
<1>2. ASSUME NEW k \in 1..Len(first)
      PROVE  k \in 1..Len(first \o second) /\ (first \o second)[k] = first[k]
  BY <1>1
<1>3. ASSUME NEW k \in 1..Len(second)
      PROVE  /\ k + Len(first) \in 1..Len(first \o second)
             /\ (first \o second)[k + Len(first)] = second[k]
  <2>1. k + Len(first) \in 1..Len(first) + Len(second) /\ ~(k + Len(first) <= Len(first))
    BY <1>1
  <2>2. (k + Len(first)) - Len(first) = k
    BY <1>1
  <2> QED
    BY <1>1, <2>1, <2>2
<1>4. ASSUME NEW k \in 1..Len(first \o second)
      PROVE  \/ k \in 1..Len(first) /\ (first \o second)[k] = first[k]
             \/ /\ k - Len(first) \in 1..Len(second)
                /\ (first \o second)[k] = second[k - Len(first)]
  BY <1>1
<1>5. Entries(first \o second) = Entries(first) \cup Entries(second)
  BY <1>2, <1>3, <1>4 DEF Entries
<1>6. first \o second = << >> => first = << >> /\ second = << >>
  BY <1>1, EmptySeq
<1> QED
  BY <1>1, <1>5, <1>6

\* In both lists together nothing occurs twice.
LEMMA JoinedOnce ==
  ASSUME NEW S, NEW first \in Seq(S), NEW second \in Seq(S),
         \A j, k \in 1..Len(first) : first[j] = first[k] => j = k,
         \A j, k \in 1..Len(second) : second[j] = second[k] => j = k,
         Entries(first) \cap Entries(second) = {}
  PROVE  LET both == first \o second
         IN  \A j, k \in 1..Len(both) : both[j] = both[k] => j = k
<1>1. /\ Len(first) \in Nat /\ Len(second) \in Nat
      /\ Len(first \o second) = Len(first) + Len(second)
      /\ \A k \in 1..Len(first) + Len(second) :
           (first \o second)[k] = IF k <= Len(first) THEN first[k] ELSE second[k - Len(first)]
  BY ConcatProperties
<1>2. ASSUME NEW k \in 1..Len(first \o second)
      PROVE  \/ k \in 1..Len(first) /\ (first \o second)[k] = first[k]
             \/ /\ k - Len(first) \in 1..Len(second)
                /\ (first \o second)[k] = second[k - Len(first)]
  BY <1>1
<1>3. \A j \in 1..Len(first), k \in 1..Len(second) : first[j] # second[k]
  BY DEF Entries
<1> QED
  BY <1>1, <1>2, <1>3

-----------------------------------------------------------------------------
(***************************************************************************)
(* Types.  Beside them, a list of CRCs has one line for a script, and a run*)
(* that reads has something to read.                                       *)
(***************************************************************************)
CurrencyTypeInv ==
  /\ CurrencyTypeOK
  /\ OneLineEach(scriptList)
  /\ progress \in {"crc", "parse"} => todo # << >>

\* AddScriptToCRCCheck replaces the line of a script, or appends one.
LEMMA ScriptAdded ==
  ASSUME CurrencyTypeInv, NEW s \in Script, NEW contents \in Content, AddScript(s, contents)
  PROVE  /\ scriptList' \in Seq(Line) /\ OneLineEach(scriptList')
         /\ Entries(scriptList') = {l \in Entries(scriptList) : l[1] # s} \cup {<<s, contents>>}
<1> USE DEF CurrencyTypeInv, CurrencyTypeOK
<1> DEFINE new == <<s, contents>>
           n == Len(scriptList)
<1>1. new \in Line /\ new[1] = s /\ n \in Nat /\ scriptList \in Seq(Line)
      /\ \A k \in 1..n : scriptList[k] \in Line
  BY DEF Line
<1>2. CASE Recorded(s)
  <2>1. scriptList' = [k \in 1..n |-> IF scriptList[k][1] = s THEN new ELSE scriptList[k]]
    BY <1>2 DEF AddScript
  <2>2. scriptList' \in Seq(Line) /\ Len(scriptList') = n
    BY <1>1, <2>1
  <2>3. \A k \in 1..n : scriptList'[k] = IF scriptList[k][1] = s THEN new ELSE scriptList[k]
    BY <2>1
  <2>4. \A k \in 1..n : scriptList'[k][1] = scriptList[k][1]
    BY <1>1, <2>3
  <2>5. PICK k \in 1..n : scriptList[k][1] = s
    BY <1>2 DEF Recorded
  <2> HIDE DEF new
  <2>6. Entries(scriptList') = {l \in Entries(scriptList) : l[1] # s} \cup {new}
    <3>1. ASSUME NEW l \in Entries(scriptList')
          PROVE  l \in {r \in Entries(scriptList) : r[1] # s} \cup {new}
      BY <2>2, <2>3 DEF Entries
    <3>2. ASSUME NEW l \in Entries(scriptList), l[1] # s
          PROVE  l \in Entries(scriptList')
      BY <2>2, <2>3, <3>2 DEF Entries
    <3>3. new \in Entries(scriptList')
      BY <2>2, <2>3, <2>5 DEF Entries
    <3> QED
      BY <3>1, <3>2, <3>3
  <2>7. OneLineEach(scriptList')
    BY <2>2, <2>4 DEF OneLineEach
  <2> QED
    BY <2>2, <2>6, <2>7 DEF new
<1>3. CASE ~Recorded(s)
  <2>1. scriptList' = Append(scriptList, new)
    BY <1>3 DEF AddScript
  <2>2. \A k \in 1..n : scriptList[k][1] # s
    BY <1>3 DEF Recorded
  <2>3. /\ scriptList' \in Seq(Line) /\ Len(scriptList') = n + 1
        /\ \A k \in 1..n : scriptList'[k] = scriptList[k]
        /\ scriptList'[n + 1] = new
    BY <1>1, <2>1, AppendProperties
  <2>4. \A k \in 1..n + 1 : k \in 1..n \/ k = n + 1
    BY <1>1
  <2>5. 1..n \subseteq 1..n + 1 /\ n + 1 \in 1..n + 1
    BY <1>1
  <2> HIDE DEF new
  <2>6. Entries(scriptList') = {l \in Entries(scriptList) : l[1] # s} \cup {new}
    BY <2>2, <2>3, <2>4, <2>5 DEF Entries
  <2>7. OneLineEach(scriptList')
    BY <1>1, <2>2, <2>3, <2>4 DEF OneLineEach
  <2> QED
    BY <2>3, <2>6, <2>7 DEF new
<1> QED
  BY <1>2, <1>3

\* What an edit can give a script, and what a script can include.
LEMMA Contents ==
  ASSUME NEW c \in Scenario, NEW s \in Script, NEW i \in c.mayInclude[s]
  PROVE  /\ i \in Seq(Script) /\ Definition \notin Entries(i)
         /\ \A n \in 0..MaxEdits : [text |-> n, includes |-> i] \in Content
<1>1. c.mayInclude[s] \subseteq Seq(Script \ {Definition})
  BY CurrencyAssumption
<1>2. i \in Seq(Script \ {Definition})
  BY <1>1
<1>3. \A k \in 1..Len(i) : i[k] \in Script \ {Definition}
  BY <1>2
<1>4. i \in Seq(Script)
  BY <1>2, <1>3
<1>5. i \in UNION {d.mayInclude[r] : d \in Scenario, r \in Script}
  OBVIOUS
<1> QED
  BY <1>3, <1>4, <1>5 DEF Entries, Content

LEMMA IncludesTyped ==
  ASSUME NEW contents \in Content
  PROVE  contents.text \in 0..MaxEdits /\ contents.includes \in Seq(Script)
<1>1. PICK c \in Scenario, s \in Script : contents.includes \in c.mayInclude[s]
  BY DEF Content
<1> QED
  BY <1>1, Contents DEF Content

\* The CRC file that is written holds lines of scriptList.
LEMMA Written ==
  ASSUME CurrencyTypeInv, NEW h \in 0..3, NEW k \in 0..Len(scriptList)
  PROVE  LET list == SubSeq(scriptList, 1, k)
         IN  /\ CRCFile(h, list) \in CheckFile /\ OneLineEach(list)
             /\ Entries(list) \subseteq Entries(scriptList)
<1> DEFINE list == SubSeq(scriptList, 1, k)
<1>1. scriptList \in Seq(Line) /\ Len(scriptList) \in Nat /\ k \in 0..Len(scriptList)
  BY DEF CurrencyTypeInv, CurrencyTypeOK
<1>2. list \in Seq(Line) /\ Len(list) = k /\ \A j \in 1..k : list[j] = scriptList[j]
  BY <1>1, SMTT(30)
<1>3. 1..k \subseteq 1..Len(scriptList)
  BY <1>1
<1>4. OneLineEach(list)
  BY <1>2, <1>3 DEF OneLineEach, CurrencyTypeInv
<1>5. CRCFile(h, list) \in CheckFile
  BY <1>2 DEF CRCFile, CheckFile, CurrencyTypeInv, CurrencyTypeOK
<1>6. Entries(list) \subseteq Entries(scriptList)
  BY <1>2, <1>3 DEF Entries
<1> QED
  BY <1>4, <1>5, <1>6

LEMMA CurrencyInitTyped == CurrencyInit => CurrencyTypeInv
<1> SUFFICES ASSUME CurrencyInit PROVE CurrencyTypeInv
  OBVIOUS
<1>1. Root \in Script /\ Definition \in Script /\ 0 \in 0..MaxEdits
  BY CurrencyAssumption
<1>2. options \in Option
  BY DEF CurrencyInit, Option
<1>3. OneLineEach(scriptList) /\ scriptList \in Seq(Line) /\ todo \in Seq(Script)
  BY DEF CurrencyInit, OneLineEach
<1>4. definition \in Content /\ script \in [Script -> Content]
  BY <1>1 DEF CurrencyInit
<1>5. source \in BOOLEAN /\ missing \in BOOLEAN
  BY Zenon DEF CurrencyInit
<1> QED
  BY <1>1, <1>2, <1>3, <1>4, <1>5 DEF CurrencyInit, CurrencyTypeInv, CurrencyTypeOK

LEMMA GeneratedTyped == CurrencyTypeInv => Generated \in GeneratedFile
<1> SUFFICES ASSUME CurrencyTypeInv PROVE Generated \in GeneratedFile
  OBVIOUS
<1> USE DEF CurrencyTypeInv, CurrencyTypeOK
<1>1. parsed \cup {<<Definition, definition>>} \in SUBSET Line
  BY CurrencyAssumption DEF Line
<1>2. (~missing) \in BOOLEAN
  BY Zenon
<1> QED
  BY <1>1, <1>2 DEF Generated, GeneratedFile

LEMMA CurrencyStepTyped ==
  CurrencyTypeInv /\ [CurrencyNext]_currencyVars => CurrencyTypeInv'
<1> SUFFICES ASSUME CurrencyTypeInv, [CurrencyNext]_currencyVars
             PROVE  CurrencyTypeInv'
  OBVIOUS
<1>0. CASE UNCHANGED currencyVars
  BY <1>0 DEF currencyVars, disk, output, work, CurrencyTypeInv, CurrencyTypeOK, OneLineEach
<1> USE DEF CurrencyTypeInv, CurrencyTypeOK, disk, output, work
<1>d. Definition \in Script /\ Root \in Script
  BY CurrencyAssumption
<1>1. CASE Edit
  <2>1. edits' \in 0..MaxEdits
    BY <1>1, CurrencyAssumption DEF Edit
  <2>2. script' \in [Script -> Content] /\ exe' \in 0..MaxEdits
    <3>1. CASE exe' = edits' /\ script' = script
      BY <2>1, <3>1
    <3>2. ASSUME NEW s \in Script, NEW i \in scenario.mayInclude[s], exe' = exe,
                 script' = [script EXCEPT ![s] = [text |-> edits', includes |-> i]]
          PROVE  script' \in [Script -> Content] /\ exe' \in 0..MaxEdits
      BY <2>1, <3>2, Contents
    <3> QED
      BY <1>1, <3>1, <3>2 DEF Edit
  <2>3. OneLineEach(scriptList')
    BY <1>1 DEF Edit, OneLineEach
  <2> QED
    BY <1>1, <2>1, <2>2, <2>3 DEF Edit
<1>2. CASE MoveSource
  <2>1. source' \in BOOLEAN
    BY <1>2, Zenon DEF MoveSource
  <2> QED
    BY <1>2, <2>1 DEF MoveSource, OneLineEach
<1>3. CASE DeleteOutput
  BY <1>3 DEF DeleteOutput, OneLineEach
<1>4. CASE Start
  <2>1. options' \in Option /\ definition' \in Content
    BY <1>4, <1>d DEF Start, Option
  <2>2. /\ todo' \in Seq(Script) /\ todo' # << >>
        /\ scriptList' \in Seq(Line) /\ OneLineEach(scriptList')
    BY <1>4, <1>d DEF Start, OneLineEach
  <2> QED
    BY <1>4, <2>1, <2>2 DEF Start
<1>5. CASE LoadForCRC
  <2>1. Head(todo) \in Script /\ todo # << >>
    BY <1>5, HeadAndTail DEF LoadForCRC
  <2>2. scriptList' \in Seq(Line) /\ OneLineEach(scriptList')
    BY <1>5, <2>1, ScriptAdded DEF LoadForCRC
  <2> QED
    BY <1>5, <2>1, <2>2 DEF LoadForCRC
<1>6. CASE LoadAndParse
  <2> DEFINE s == Head(todo)
             i == script[s].includes
  <2>1. s \in Script /\ Tail(todo) \in Seq(Script)
    BY <1>6, HeadAndTail DEF LoadAndParse
  <2>2. i \in Seq(Script)
    BY <2>1, IncludesTyped
  <2>3. /\ todo' = i \o Tail(todo) /\ parsed' = parsed \cup {<<s, script[s]>>}
        /\ progress' = IF todo' = << >> THEN "save" ELSE "crc"
    BY <1>6 DEF LoadAndParse
  <2>4. todo' \in Seq(Script)
    BY <2>1, <2>2, <2>3, Joined
  <2>5. <<s, script[s]>> \in Line
    BY <2>1 DEF Line
  <2>6. missing' \in BOOLEAN
    BY <1>6, Zenon DEF LoadAndParse
  <2>7. OneLineEach(scriptList')
    BY <1>6 DEF LoadAndParse, OneLineEach
  <2> QED
    BY <1>6, <2>3, <2>4, <2>5, <2>6, <2>7 DEF LoadAndParse
<1>7. CASE Save
  <2>1. scriptList' \in Seq(Line) /\ OneLineEach(scriptList')
    BY <1>7, <1>d, ScriptAdded DEF Save
  <2> QED
    BY <1>7, <2>1, GeneratedTyped DEF Save
<1>8. CASE WriteCRCCheckFile
  <2>1. 3 \in 0..3
    OBVIOUS
  <2>2. CRCFile(3, scriptList) \in CheckFile
    BY <2>1 DEF CRCFile, CheckFile
  <2>3. crc' \in CheckFile \cup {NoFile} /\ (crc' # NoFile => OneLineEach(crc'.lines))
    BY <1>8, <2>2 DEF WriteCRCCheckFile, CRCFile, OneLineEach
  <2>4. OneLineEach(scriptList')
    BY <1>8 DEF WriteCRCCheckFile, OneLineEach
  <2> QED
    BY <1>8, <2>3, <2>4 DEF WriteCRCCheckFile, OneLineEach
<1>9. CASE CrashInSave
  <2>1. scriptList' \in Seq(Line) /\ OneLineEach(scriptList')
    BY <1>9, <1>d, ScriptAdded DEF CrashInSave
  <2> QED
    BY <1>9, <2>1, GeneratedTyped DEF CrashInSave
<1>10. CASE CrashInWrite
  <2>1. PICK h \in 0..3, k \in 0..Len(scriptList) - 1 :
          crc' = CRCFile(h, SubSeq(scriptList, 1, k))
    BY <1>10 DEF CrashInWrite
  <2>2. k \in 0..Len(scriptList)
    OBVIOUS
  <2>3. crc' \in CheckFile /\ OneLineEach(crc'.lines)
    BY <2>1, <2>2, Written DEF CRCFile
  <2>4. OneLineEach(scriptList')
    BY <1>10 DEF CrashInWrite, OneLineEach
  <2> QED
    BY <1>10, <2>3, <2>4 DEF CrashInWrite, OneLineEach
<1>11. CASE Kill
  BY <1>11 DEF Kill, OneLineEach
<1> QED
  BY <1>0, <1>1, <1>2, <1>3, <1>4, <1>5, <1>6, <1>7, <1>8, <1>9, <1>10, <1>11 DEF CurrencyNext

(***************************************************************************)
(* The files and the run keep their types, and a CRC file has one line for *)
(* a script (AddScriptToCRCCheck, WriteCRCCheckFile).                      *)
(***************************************************************************)
THEOREM CurrencyTyped == CurrencySpec => []CurrencyTypeOK
<1>1. CurrencyTypeInv => CurrencyTypeOK
  BY DEF CurrencyTypeInv
<1> QED
  BY CurrencyInitTyped, CurrencyStepTyped, <1>1, PTL DEF CurrencySpec

-----------------------------------------------------------------------------
(***************************************************************************)
(* Contents and programs are no newer than the last edit, and as the       *)
(* scenario allows: what has changed on disk never comes back.             *)
(***************************************************************************)
Known(lines) ==
  \A l \in lines : l[2].text <= edits /\ l[2].includes \in scenario.mayInclude[l[1]]

NumbersInv ==
  /\ Known({<<s, script[s]>> : s \in Script})
  /\ Known(parsed) /\ Known(Entries(scriptList)) /\ Known({<<Definition, definition>>})
  /\ exe <= edits
  /\ options \in scenario.options
  /\ crc # NoFile =>
       Known(Entries(crc.lines)) /\ crc.exe <= edits /\ crc.options \in scenario.options

\* No script of these has changed since its line was made.
UpToDate(lines) == \A l \in lines : l[2] = script[l[1]]

\* Every CRC of the file is that of the file on disk.
Fresh ==
  crc # NoFile /\ crc.header = 3 /\ crc.exe = exe /\ UpToDate(Entries(crc.lines))

LEMMA NumbersInit == CurrencyInit => NumbersInv
<1> SUFFICES ASSUME CurrencyInit PROVE NumbersInv
  OBVIOUS
<1>1. Definition \in Script
  BY CurrencyAssumption
<1>2. Entries(scriptList) = {}
  BY DEF CurrencyInit, Entries
<1> QED
  BY <1>1, <1>2 DEF CurrencyInit, NumbersInv, Known

LEMMA NumbersStep ==
  ASSUME CurrencyTypeInv, NumbersInv, [CurrencyNext]_currencyVars
  PROVE  NumbersInv'
<1>0. CASE UNCHANGED currencyVars
  BY <1>0 DEF currencyVars, disk, output, work, NumbersInv, Known, Entries
<1> USE DEF disk, output, work, NumbersInv
<1>t. /\ edits \in Int /\ \A s \in Script : script[s].text \in Int
      /\ edits \in 0..MaxEdits /\ script \in [Script -> Content]
  BY IncludesTyped, CurrencyAssumption DEF CurrencyTypeInv, CurrencyTypeOK
<1>d. Definition \in Script /\ Root \in Script
  BY CurrencyAssumption
<1>e. \A l \in Entries(scriptList) : l \in Line /\ l[2].text \in Int
  BY IncludesTyped DEF CurrencyTypeInv, CurrencyTypeOK, Entries, Line
\* What was known stays so while there are only more edits.
<1>k. ASSUME NEW lines, Known(lines), scenario' = scenario, edits' = edits
      PROVE  Known(lines)'
  BY <1>k DEF Known
<1>1. CASE Edit
  <2>0. edits' = edits + 1 /\ scenario' = scenario
        /\ UNCHANGED <<crc, parsed, scriptList, definition, options>>
    BY <1>1 DEF Edit
  <2>1. ASSUME NEW lines \in SUBSET Line, Known(lines)
        PROVE  \A l \in lines : /\ l[2].text <= edits'
                                /\ l[2].includes \in scenario'.mayInclude[l[1]]
    <3>1. \A l \in lines : l[2].text \in Int
      BY IncludesTyped, CurrencyAssumption DEF Line
    <3> QED
      BY <1>t, <2>0, <2>1, <3>1 DEF Known
  <2>2. Known(parsed)' /\ Known(Entries(scriptList))' /\ Known({<<Definition, definition>>})'
    <3>1. /\ parsed \in SUBSET Line /\ Entries(scriptList) \in SUBSET Line
          /\ {<<Definition, definition>>} \in SUBSET Line
      BY <1>d, <1>e DEF CurrencyTypeInv, CurrencyTypeOK, Line
    <3>2. /\ parsed' = parsed /\ Entries(scriptList)' = Entries(scriptList)
          /\ {<<Definition, definition>>}' = {<<Definition, definition>>}
      BY <2>0 DEF Entries
    <3>3. Known(parsed) /\ Known(Entries(scriptList)) /\ Known({<<Definition, definition>>})
      OBVIOUS
    <3> QED
      BY <2>1, <3>1, <3>2, <3>3 DEF Known
  <2>3. crc # NoFile => Known(Entries(crc.lines))' /\ crc.exe <= edits'
    <3>1. crc # NoFile => crc.exe \in Int /\ crc.lines \in Seq(Line)
      BY CurrencyAssumption DEF CurrencyTypeInv, CurrencyTypeOK, CheckFile
    <3>2. crc # NoFile => Entries(crc.lines) \in SUBSET Line
      BY <3>1 DEF Entries
    <3>3. crc # NoFile => crc.exe <= edits'
      BY <1>t, <2>0, <3>1
    <3>4. Entries(crc.lines)' = Entries(crc.lines)
      BY <2>0 DEF Entries
    <3> QED
      BY <2>1, <3>2, <3>3, <3>4 DEF Known
  <2>4. exe' <= edits' /\ Known({<<s, script[s]>> : s \in Script})'
    <3>1. CASE exe' = edits' /\ script' = script
      BY <1>t, <2>0, <3>1 DEF Known
    <3>2. ASSUME NEW s \in Script, NEW i \in scenario.mayInclude[s], exe' = exe,
                 script' = [script EXCEPT ![s] = [text |-> edits', includes |-> i]]
          PROVE  exe' <= edits' /\ Known({<<r, script[r]>> : r \in Script})'
      <4>1. exe' <= edits'
        BY <1>t, <2>0, <3>2, CurrencyAssumption DEF CurrencyTypeInv, CurrencyTypeOK
      <4>2. ASSUME NEW r \in Script
            PROVE  /\ script'[r].text <= edits'
                   /\ script'[r].includes \in scenario'.mayInclude[r]
        <5>1. CASE r = s
          BY <1>t, <2>0, <3>2, <5>1
        <5>2. CASE r # s
          <6>1. script[r].text <= edits /\ script[r].includes \in scenario.mayInclude[r]
            <7>1. <<r, script[r]>> \in {<<q, script[q]>> : q \in Script}
              OBVIOUS
            <7>2. Known({<<q, script[q]>> : q \in Script})
              OBVIOUS
            <7> HIDE DEF NumbersInv
            <7> QED
              BY <7>1, <7>2 DEF Known
          <6> QED
            BY <1>t, <2>0, <3>2, <5>2, <6>1
        <5> QED
          BY <5>1, <5>2
      <4> QED
        BY <4>1, <4>2 DEF Known
    <3> QED
      BY <1>1, <3>1, <3>2 DEF Edit
  <2> QED
    BY <2>0, <2>2, <2>3, <2>4
<1>2. CASE MoveSource
  BY <1>2 DEF MoveSource, Known, Entries
<1>3. CASE DeleteOutput
  BY <1>3 DEF DeleteOutput, Known, Entries
<1>4. CASE Start
  <2>1. /\ options' \in scenario'.options /\ definition' = script[Definition]
        /\ scriptList' = << >> /\ parsed' = {} /\ UNCHANGED <<disk, output>>
    BY <1>4 DEF Start
  <2>2. Known({<<Definition, definition>>})'
    BY <2>1, <1>d DEF Known
  <2>3. Known(parsed)' /\ Known(Entries(scriptList))'
    BY <2>1 DEF Known, Entries
  <2>4. /\ Known({<<s, script[s]>> : s \in Script})'
        /\ crc # NoFile => Known(Entries(crc.lines))'
    BY <2>1 DEF Known, Entries
  <2> QED
    BY <2>1, <2>2, <2>3, <2>4
\* A line joins scriptList.
<1>a. ASSUME NEW s \in Script, NEW contents \in Content, AddScript(s, contents),
             Known({<<s, contents>>}), UNCHANGED <<scenario, edits>>
      PROVE  Known(Entries(scriptList))'
  BY <1>a, ScriptAdded DEF Known
<1>5. CASE LoadForCRC
  <2>1. Head(todo) \in Script /\ todo # << >>
    BY <1>5, HeadAndTail DEF LoadForCRC, CurrencyTypeInv, CurrencyTypeOK
  <2>2. Known({<<Head(todo), script[Head(todo)]>>}) /\ script[Head(todo)] \in Content
    BY <1>t, <2>1 DEF Known
  <2>3. Known(Entries(scriptList))'
    BY <1>5, <1>a, <2>1, <2>2 DEF LoadForCRC
  <2> QED
    BY <1>5, <2>3 DEF LoadForCRC, Known, Entries
<1>6. CASE LoadAndParse
  <2>1. Head(todo) \in Script /\ todo # << >>
    BY <1>6, HeadAndTail DEF LoadAndParse, CurrencyTypeInv, CurrencyTypeOK
  <2>2. Known({<<Head(todo), script[Head(todo)]>>})
    BY <2>1 DEF Known
  <2>3. Known(parsed)'
    BY <1>6, <2>2 DEF LoadAndParse, Known
  <2> QED
    BY <1>6, <2>3 DEF LoadAndParse, Known, Entries
<1>7. CASE Save \/ CrashInSave
  <2>1. AddScript(Definition, definition) /\ definition \in Content
    BY <1>7 DEF Save, CrashInSave, CurrencyTypeInv, CurrencyTypeOK
  <2>2. Known(Entries(scriptList))'
    BY <1>7, <1>a, <1>d, <2>1 DEF Save, CrashInSave
  <2> QED
    BY <1>7, <2>2 DEF Save, CrashInSave, Known, Entries
<1>8. CASE WriteCRCCheckFile
  BY <1>8, <1>t DEF WriteCRCCheckFile, CRCFile, Known, Entries
<1>9. CASE CrashInWrite
  <2>1. PICK h \in 0..3, k \in 0..Len(scriptList) - 1 :
          crc' = CRCFile(h, SubSeq(scriptList, 1, k))
    BY <1>9 DEF CrashInWrite
  <2>2. k \in 0..Len(scriptList)
    BY DEF CurrencyTypeInv, CurrencyTypeOK
  <2>3. Entries(crc'.lines) \subseteq Entries(scriptList)
    BY <2>1, <2>2, Written DEF CRCFile
  <2>4. crc'.exe = exe /\ crc'.options = options
    BY <2>1 DEF CRCFile
  <2> QED
    BY <1>9, <2>3, <2>4 DEF CrashInWrite, Known, Entries
<1>10. CASE Kill
  BY <1>10 DEF Kill, Known, Entries
<1> QED
  BY <1>0, <1>1, <1>2, <1>3, <1>4, <1>5, <1>6, <1>7, <1>8, <1>9, <1>10 DEF CurrencyNext

\* A CRC file that no longer fits the disk never fits it again by itself.
LEMMA NotFreshAgain ==
  ASSUME CurrencyTypeInv, NumbersInv, [CurrencyNext]_currencyVars, crc' = crc, Fresh'
  PROVE  Fresh
<1> DEFINE lines == Entries(crc.lines)
<1>1. lines' = lines /\ crc # NoFile /\ crc.header = 3 /\ crc.exe = exe' /\ UpToDate(lines)'
  BY DEF Fresh, Entries
<1>2. \A l \in lines : l \in Line
  BY <1>1 DEF CurrencyTypeInv, CurrencyTypeOK, CheckFile, Entries
<1>3. /\ \A l \in lines : l[1] \in Script /\ l[2].text \in Int /\ l[2].text <= edits
      /\ crc.exe \in Int /\ crc.exe <= edits /\ edits \in Int
  <2>1. \A l \in lines : l[1] \in Script /\ l[2] \in Content
    BY <1>2 DEF Line
  <2>2. crc.exe \in 0..MaxEdits /\ edits \in 0..MaxEdits
    BY <1>1 DEF CurrencyTypeInv, CurrencyTypeOK, CheckFile
  <2> QED
    BY <1>1, <2>1, <2>2, IncludesTyped, CurrencyAssumption DEF NumbersInv, Known
<1>4. CASE Edit
  <2>1. edits' = edits + 1
    BY <1>4 DEF Edit
  <2>2. exe' # edits'
    BY <1>1, <1>3, <2>1
  <2>3. PICK s \in Script : \E i \in scenario.mayInclude[s] :
          exe' = exe /\ script' = [script EXCEPT ![s] = [text |-> edits', includes |-> i]]
    BY <1>4, <2>2 DEF Edit
  <2>4. script \in [Script -> Content]
    BY DEF CurrencyTypeInv, CurrencyTypeOK
  <2>5. ASSUME NEW l \in lines
        PROVE  l[2] = script[l[1]]
    <3>1. l[2] = script'[l[1]]
      BY <1>1 DEF UpToDate
    <3>2. l[1] # s
      BY <1>3, <2>1, <2>3, <2>4, <3>1
    <3> QED
      BY <1>3, <2>3, <2>4, <3>1, <3>2
  <2> QED
    BY <1>1, <2>3, <2>5 DEF Fresh, UpToDate
<1>5. CASE ~Edit
  <2>1. UNCHANGED <<script, exe>>
    BY <1>5 DEF CurrencyNext, MoveSource, DeleteOutput, Start, LoadForCRC, LoadAndParse, Save,
                WriteCRCCheckFile, CrashInSave, CrashInWrite, Kill, currencyVars, disk
  <2> QED
    BY <1>1, <2>1 DEF Fresh, UpToDate
<1> QED
  BY <1>4, <1>5

-----------------------------------------------------------------------------
(***************************************************************************)
(* The lines of a generation are those of the definition and of the scripts*)
(* that the project's script leads to: they lack none that a line of theirs*)
(* includes, and have none that need not be there.                         *)
(***************************************************************************)
\* By these lines, the scripts of S include nothing outside S.
Follows(S, lines) == \A l \in lines : l[1] \in S => Entries(l[2].includes) \subseteq S

Complete(lines) ==
  /\ {Root, Definition} \subseteq ScriptsOf(lines)
  /\ \A l \in lines : l[1] # Definition => Entries(l[2].includes) \subseteq ScriptsOf(lines)
  /\ \A S \in SUBSET Script :
       Root \in S /\ Follows(S, lines) => ScriptsOf(lines) \ {Definition} \subseteq S

\* What the program generated from the lines of the CRC file.
Made == [options |-> crc.options, exe |-> crc.exe, whole |-> TRUE, from |-> Entries(crc.lines)]

(***************************************************************************)
(* What a CRC file that fits the files on disk says of the outputs.        *)
(***************************************************************************)
OutputInv ==
  Fresh /\ progress # "write" =>
    /\ Complete(Entries(crc.lines))
    /\ vcxproj \in {NoFile, Made} /\ filters \in {NoFile, Made}

(***************************************************************************)
(* Where sources can be missing or a Save interrupted, which leave the CRC *)
(* file of the run before: no run starts while it fits, for the outputs    *)
(* are there and nothing forces one.                                       *)
(***************************************************************************)
Fragile == scenario.faults \cap {"source", "save"} # {}

FragileInv ==
  /\ missing \/ ~source => "source" \in scenario.faults
  /\ Fragile =>
       /\ crc # NoFile \/ progress = "write" => vcxproj # NoFile /\ filters # NoFile
       /\ progress # "idle" => ~Fresh

(***************************************************************************)
(* A run: the lines recorded for the CRC file against what was parsed.     *)
(***************************************************************************)
AtHand == IF progress = "parse" THEN {Head(todo)} ELSE {}

Recording ==
  /\ ScriptsOf(Entries(scriptList)) =
       ScriptsOf(parsed) \cup AtHand \cup (IF progress = "write" THEN {Definition} ELSE {})
  /\ progress = "write" => <<Definition, definition>> \in Entries(scriptList)
  /\ progress \in {"save", "write"} => todo = << >>

\* A script that has not changed since it was recorded was parsed as it is.
Agreeing ==
  \A r \in Entries(scriptList), l \in parsed :
    r[1] = l[1] /\ r[2] = script[l[1]] => l[2] = script[l[1]]

\* What was parsed, with what is still to be read, is what Root leads to.
Closing ==
  /\ Root \in ScriptsOf(parsed) \cup Entries(todo)
  /\ Definition \notin ScriptsOf(parsed) \cup Entries(todo)
  /\ \A l \in parsed : Entries(l[2].includes) \subseteq ScriptsOf(parsed) \cup Entries(todo)
  /\ \A S \in SUBSET Script :
       Root \in S /\ Follows(S, parsed) => ScriptsOf(parsed) \cup Entries(todo) \subseteq S

\* Nobody edits during the run, or no script is read twice.
Quiet == "race" \notin scenario.acts => UpToDate(parsed)

ReadOnce ==
  "race" \in scenario.acts =>
    /\ \A j, k \in 1..Len(todo) : todo[j] = todo[k] => j = k
    /\ Entries(todo) \cap ScriptsOf(parsed) = {}
    /\ \A s \in ScriptsOf(parsed) \cup Entries(todo) :
         s = Root \/ \E l \in parsed : s \in Entries(l[2].includes)

Reading == Recording /\ Agreeing /\ Closing /\ Quiet /\ ReadOnce

RunInv ==
  /\ progress # "idle" => Reading
  /\ progress = "write" => vcxproj \in {NoFile, Generated} /\ filters \in {NoFile, Generated}

(***************************************************************************)
(* When every line that is written fits the disk, the lines are those that *)
(* the project was generated from, and complete.                           *)
(***************************************************************************)
LEMMA WrittenIsGenerated ==
  ASSUME CurrencyTypeInv, progress = "write", Recording, Agreeing, Closing,
         UpToDate(Entries(scriptList))
  PROVE  /\ Entries(scriptList) = parsed \cup {<<Definition, definition>>}
         /\ Complete(Entries(scriptList))
<1> DEFINE lines == Entries(scriptList)
           def == <<Definition, definition>>
<1>1. /\ \A l \in lines : l \in Line
      /\ \A l, r \in lines : l[1] = r[1] => l = r
      /\ parsed \subseteq Line /\ def[1] = Definition /\ def[2] = definition
  BY DEF CurrencyTypeInv, CurrencyTypeOK, OneLineEach, Entries
<1>2. /\ ScriptsOf(lines) = ScriptsOf(parsed) \cup {Definition}
      /\ def \in lines /\ Entries(todo) = {}
  BY DEF Recording, AtHand, Entries
<1>3. /\ Root \in ScriptsOf(parsed) /\ Definition \notin ScriptsOf(parsed)
      /\ \A l \in parsed : Entries(l[2].includes) \subseteq ScriptsOf(parsed)
      /\ \A S \in SUBSET Script :
           Root \in S /\ Follows(S, parsed) => ScriptsOf(parsed) \subseteq S
  BY <1>2 DEF Closing
<1>4. \A l \in parsed, r \in lines : l[1] = r[1] => l = r
  <2> SUFFICES ASSUME NEW l \in parsed, NEW r \in lines, l[1] = r[1]
               PROVE  l = r
    OBVIOUS
  <2>1. r[2] = script[l[1]]
    BY DEF UpToDate
  <2>2. l[2] = r[2]
    BY <2>1 DEF Agreeing
  <2>3. l \in Script \X Content /\ r \in Script \X Content
    BY <1>1 DEF Line
  <2> QED
    BY <2>2, <2>3
<1>5. \A l \in parsed : l \in lines
  <2> SUFFICES ASSUME NEW l \in parsed PROVE l \in lines
    OBVIOUS
  <2>1. l[1] \in ScriptsOf(lines)
    BY <1>2 DEF ScriptsOf
  <2>2. PICK r \in lines : r[1] = l[1]
    BY <2>1 DEF ScriptsOf
  <2> QED
    BY <1>4, <2>2
<1>6. \A r \in lines : r \in parsed \/ r = def
  <2> SUFFICES ASSUME NEW r \in lines PROVE r \in parsed \/ r = def
    OBVIOUS
  <2>1. r[1] \in ScriptsOf(parsed) \/ r[1] = Definition
    BY <1>2 DEF ScriptsOf
  <2>2. CASE r[1] = Definition
    BY <1>1, <1>2, <2>2
  <2>3. CASE r[1] \in ScriptsOf(parsed)
    BY <1>4, <2>3 DEF ScriptsOf
  <2> QED
    BY <2>1, <2>2, <2>3
<1>7. lines = parsed \cup {def}
  BY <1>2, <1>5, <1>6
<1> HIDE DEF lines, def
<1>8. \A l \in lines : l[1] # Definition => Entries(l[2].includes) \subseteq ScriptsOf(lines)
  BY <1>1, <1>2, <1>3, <1>7
<1>9. ASSUME NEW S \in SUBSET Script, Root \in S, Follows(S, lines)
      PROVE  ScriptsOf(lines) \ {Definition} \subseteq S
  <2>1. Follows(S, parsed)
    BY <1>7, <1>9 DEF Follows
  <2> QED
    BY <1>2, <1>3, <1>9, <2>1
<1>10. Complete(lines)
  BY <1>2, <1>3, <1>8, <1>9 DEF Complete
<1> QED
  BY <1>7, <1>10 DEF lines, def

CurrencyInv == CurrencyTypeInv /\ NumbersInv /\ OutputInv /\ FragileInv /\ RunInv

-----------------------------------------------------------------------------
\* A file that a scenario allows to be cut off in its header does not fit.
LEMMA CutOff ==
  ASSUME Careful(scenario), CrashInWrite
  PROVE  ~Fresh' /\ progress = "write"
<1>1. PICK h \in 0..3, k \in 0..Len(scriptList) - 1 :
        /\ crc' = CRCFile(h, SubSeq(scriptList, 1, k))
        /\ ~(h < 3) => "lines" \in scenario.faults
  BY DEF CrashInWrite
<1>2. h # 3
  BY <1>1 DEF Careful
<1>3. crc'.header = h
  BY <1>1 DEF CRCFile
<1> QED
  BY <1>2, <1>3 DEF Fresh, CrashInWrite

LEMMA OutputStep ==
  ASSUME CurrencyInv, Careful(scenario), [CurrencyNext]_currencyVars
  PROVE  OutputInv'
<1> USE DEF CurrencyInv
<1> SUFFICES ASSUME Fresh', progress' # "write"
             PROVE  /\ Complete(Entries(crc'.lines))
                    /\ vcxproj' \in {NoFile, Made'} /\ filters' \in {NoFile, Made'}
  BY DEF OutputInv, Entries
\* What holds of a CRC file that stays.
<1>a. ASSUME crc' = crc
      PROVE  Fresh /\ Made' = Made /\ crc'.lines = crc.lines
  BY <1>a, NotFreshAgain DEF Made, Entries
<1>1. CASE Edit \/ MoveSource \/ Start \/ LoadForCRC \/ LoadAndParse \/ Kill
            \/ UNCHANGED currencyVars
  <2>1. crc' = crc /\ progress # "write" /\ UNCHANGED <<vcxproj, filters>>
    BY <1>1 DEF Edit, MoveSource, Start, LoadForCRC, LoadAndParse, Kill, currencyVars, output
  <2> QED
    BY <1>a, <2>1 DEF OutputInv
<1>2. CASE DeleteOutput
  BY <1>2, <1>a DEF DeleteOutput, OutputInv
<1>3. CASE Save
  BY <1>3 DEF Save
<1>4. CASE CrashInSave \/ (WriteCRCCheckFile /\ missing)
  <2>1. Fragile /\ progress # "idle" /\ crc' = crc
    BY <1>4 DEF CrashInSave, WriteCRCCheckFile, Fragile, FragileInv
  <2> QED
    BY <1>a, <2>1 DEF FragileInv
<1>5. CASE WriteCRCCheckFile /\ ~missing
  <2>1. /\ progress = "write" /\ crc' = CRCFile(3, scriptList)
        /\ UNCHANGED <<script, exe, vcxproj, filters, options, definition, parsed, scriptList>>
    BY <1>5 DEF WriteCRCCheckFile, disk, work
  <2>2. crc'.lines = scriptList /\ crc'.exe = exe /\ crc'.options = options
    BY <2>1 DEF CRCFile
  <2>3. UpToDate(Entries(scriptList))
    BY <2>1, <2>2 DEF Fresh, UpToDate, Entries
  <2>4. /\ Entries(scriptList) = parsed \cup {<<Definition, definition>>}
        /\ Complete(Entries(scriptList))
    BY <2>1, <2>3, WrittenIsGenerated DEF RunInv, Reading
  <2>5. Made' = Generated
    <3>1. Entries(crc'.lines) = parsed \cup {<<Definition, definition>>}
      BY <2>2, <2>4
    <3>2. Made' = [options |-> crc'.options, exe |-> crc'.exe, whole |-> TRUE,
                   from |-> Entries(crc'.lines)]
      BY DEF Made, Entries
    <3>3. (~missing) = TRUE
      BY <1>5
    <3> QED
      BY <2>2, <3>1, <3>2, <3>3 DEF Generated
  <2>6. vcxproj \in {NoFile, Generated} /\ filters \in {NoFile, Generated}
    BY <2>1 DEF RunInv
  <2> QED
    BY <2>1, <2>2, <2>4, <2>5, <2>6
<1>6. CASE CrashInWrite
  BY <1>6, CutOff
<1> QED
  BY <1>1, <1>2, <1>3, <1>4, <1>5, <1>6 DEF CurrencyNext

LEMMA FragileStep ==
  ASSUME CurrencyInv, Careful(scenario), [CurrencyNext]_currencyVars
  PROVE  FragileInv'
<1> USE DEF CurrencyInv
<1>0. scenario' = scenario
  BY DEF CurrencyNext, Edit, MoveSource, DeleteOutput, Start, LoadForCRC, LoadAndParse, Save,
         WriteCRCCheckFile, CrashInSave, CrashInWrite, Kill, currencyVars, disk
<1>1. missing' \/ ~source' => "source" \in scenario'.faults
  <2>1. (missing' => missing \/ ~source) /\ (source' = source \/ "source" \in scenario.faults)
    <3>1. CASE LoadAndParse
      BY <3>1, ZenonT(20) DEF LoadAndParse, disk
    <3>2. CASE MoveSource
      BY <3>2, ZenonT(20) DEF MoveSource, work
    <3>3. CASE Start
      BY <3>3, ZenonT(20) DEF Start, disk
    <3>4. CASE ~LoadAndParse /\ ~MoveSource /\ ~Start
      <4>1. missing' = missing /\ source' = source
        BY <3>4 DEF CurrencyNext, Edit, DeleteOutput, LoadForCRC, Save, WriteCRCCheckFile,
                    CrashInSave, CrashInWrite, Kill, currencyVars, disk, work
      <4> QED
        BY <4>1, Zenon
    <3> QED
      BY <3>1, <3>2, <3>3, <3>4
  <2> QED
    BY <1>0, <2>1 DEF FragileInv
<1>2. ASSUME Fragile, crc' # NoFile \/ progress' = "write"
      PROVE  vcxproj' # NoFile /\ filters' # NoFile
  <2>1. "delete" \notin scenario.acts
    BY <1>2 DEF Careful, Fragile
  <2>2. Generated # NoFile /\ Torn # NoFile
    BY GeneratedTyped, FileAssumption
  <2>3. CASE Save
    BY <2>2, <2>3 DEF Save
  <2>4. CASE CrashInSave
    <3>1. crc # NoFile
      BY <1>2, <2>4 DEF CrashInSave
    <3> QED
      BY <1>2, <2>2, <2>4, <3>1 DEF CrashInSave, FragileInv
  <2>5. CASE ~Save /\ ~CrashInSave
    <3>1. UNCHANGED <<vcxproj, filters>>
      BY <2>1, <2>5 DEF CurrencyNext, Edit, MoveSource, DeleteOutput, Start, LoadForCRC,
                        LoadAndParse, WriteCRCCheckFile, CrashInWrite, Kill, currencyVars, output
    <3>2. crc # NoFile \/ progress = "write"
      BY <1>2, <2>5 DEF CurrencyNext, Edit, MoveSource, DeleteOutput, Start, LoadForCRC,
                        LoadAndParse, WriteCRCCheckFile, CrashInWrite, Kill, currencyVars, output
    <3> QED
      BY <1>2, <3>1, <3>2 DEF FragileInv
  <2> QED
    BY <2>3, <2>4, <2>5
<1>3. ASSUME Fragile, progress' # "idle", Fresh'
      PROVE  FALSE
  <2>1. crc' = crc
    BY <1>3 DEF CurrencyNext, Edit, MoveSource, DeleteOutput, Start, LoadForCRC, LoadAndParse, Save,
                WriteCRCCheckFile, CrashInSave, CrashInWrite, Kill, currencyVars, output
  <2>2. Fresh
    BY <1>3, <2>1, NotFreshAgain
  <2>3. progress = "idle"
    BY <1>3, <2>2 DEF FragileInv
  <2>4. Start
    BY <1>3, <2>3 DEF CurrencyNext, Edit, MoveSource, DeleteOutput, LoadForCRC, LoadAndParse, Save,
                      WriteCRCCheckFile, CrashInSave, CrashInWrite, Kill, currencyVars
  <2>5. /\ "force" \notin scenario.acts
        /\ \A o, p \in scenario.options : o = p
    BY <1>3 DEF Careful, Fragile
  <2>6. PICK o \in scenario.options : ~IsProjectCurrent(o)
    BY <2>4, <2>5 DEF Start
  <2>7. crc # NoFile /\ vcxproj # NoFile /\ filters # NoFile
    BY <1>3, <2>2 DEF Fresh, FragileInv
  <2>8. crc.options = o
    BY <2>5, <2>7 DEF NumbersInv
  <2>9. \A k \in 1..Len(crc.lines) : crc.lines[k][2] = script[crc.lines[k][1]]
    BY <2>2 DEF Fresh, UpToDate, Entries
  <2>10. IsProjectCurrent(o)
    BY <2>2, <2>7, <2>8, <2>9 DEF IsProjectCurrent, CheckCRCs, Fresh
  <2> QED
    BY <2>6, <2>10
<1> QED
  BY <1>0, <1>1, <1>2, <1>3 DEF FragileInv, Fragile

-----------------------------------------------------------------------------
\* Nothing that a run has read changes.
LEMMA RunKept ==
  ASSUME RunInv, UNCHANGED <<scenario, script, progress, work>>
  PROVE  progress # "idle" => Reading'
<1> SUFFICES ASSUME progress # "idle" PROVE Reading'
  OBVIOUS
<1>1. Entries(scriptList)' = Entries(scriptList) /\ Entries(todo)' = Entries(todo)
  BY DEF work, Entries
<1>2. ScriptsOf(parsed)' = ScriptsOf(parsed) /\ AtHand' = AtHand
  BY DEF work, ScriptsOf, AtHand
<1>3. Reading
  BY DEF RunInv
<1>4. Recording'
  <2>1. ScriptsOf(Entries(scriptList))' = ScriptsOf(Entries(scriptList))
    BY <1>1 DEF ScriptsOf
  <2> QED
    BY <1>1, <1>2, <1>3, <2>1 DEF work, Reading, Recording
<1>5. Agreeing' /\ Quiet'
  BY <1>1, <1>2, <1>3 DEF work, Reading, Agreeing, Quiet, UpToDate
<1>6. Closing'
  BY <1>1, <1>2, <1>3 DEF work, Reading, Closing, Follows
<1>7. ReadOnce'
  BY <1>1, <1>2, <1>3 DEF work, Reading, ReadOnce
<1> QED
  BY <1>4, <1>5, <1>6, <1>7 DEF Reading

\* A script that has been edited is none that was recorded.
LEMMA RunEdited ==
  ASSUME CurrencyTypeInv, NumbersInv, RunInv, Edit
  PROVE  RunInv'
<1>1. /\ UNCHANGED <<scenario, progress, work, output>>
      /\ progress = "idle" \/ ("race" \in scenario.acts /\ exe' = exe)
      /\ edits' = edits + 1
  <2>1. progress # "idle" => exe' = exe
    BY DEF Edit
  <2> QED
    BY <2>1 DEF Edit
<1>2. CASE progress = "idle"
  BY <1>1, <1>2 DEF RunInv
<1>3. CASE progress # "idle"
  <2>1. PICK s \in Script : \E i \in scenario.mayInclude[s] :
          script' = [script EXCEPT ![s] = [text |-> edits', includes |-> i]]
    BY <1>3 DEF Edit
  <2>2. Reading /\ "race" \in scenario.acts
    BY <1>1, <1>3 DEF RunInv
  <2>3. Entries(scriptList)' = Entries(scriptList) /\ Entries(todo)' = Entries(todo)
    BY <1>1 DEF work, Entries
  <2>4. ScriptsOf(parsed)' = ScriptsOf(parsed) /\ AtHand' = AtHand
    BY <1>1 DEF work, ScriptsOf, AtHand
  <2>5. /\ \A r \in Entries(scriptList) : r[1] \in Script /\ r[2].text \in Int /\ r[2].text <= edits
        /\ edits \in Int /\ script \in [Script -> Content]
    <3>1. \A r \in Entries(scriptList) : r \in Line
      BY DEF CurrencyTypeInv, CurrencyTypeOK, Entries
    <3>2. \A r \in Entries(scriptList) : r[1] \in Script /\ r[2] \in Content
      BY <3>1 DEF Line
    <3> QED
      BY <3>2, IncludesTyped, CurrencyAssumption
         DEF NumbersInv, Known, CurrencyTypeInv, CurrencyTypeOK
  <2>6. Agreeing'
    <3> SUFFICES ASSUME NEW r \in Entries(scriptList), NEW l \in parsed, r[1] = l[1],
                        r[2] = script'[l[1]]
                 PROVE  l[2] = script'[l[1]]
      BY <1>1, <2>3 DEF Agreeing, work
    <3>1. l[1] # s
      BY <1>1, <2>1, <2>5
    <3>2. script'[l[1]] = script[l[1]]
      BY <2>1, <2>5, <3>1
    <3> QED
      BY <2>2, <3>2 DEF Reading, Agreeing
  <2>7. Recording' /\ Closing' /\ ReadOnce' /\ Quiet'
    BY <1>1, <2>2, <2>3, <2>4
       DEF work, Reading, Recording, Closing, ReadOnce, Quiet, ScriptsOf, Follows
  <2>8. Generated' = Generated
    BY <1>1, <1>3 DEF Generated, work
  <2> QED
    BY <1>1, <2>6, <2>7, <2>8 DEF RunInv, Reading, output
<1> QED
  BY <1>2, <1>3

LEMMA RunStarted ==
  ASSUME Start
  PROVE  RunInv'
<1>1. /\ progress' = "crc" /\ todo' = <<Root>> /\ scriptList' = << >> /\ parsed' = {}
      /\ UNCHANGED <<scenario, script>>
  BY DEF Start, disk
<1>2. /\ Entries(scriptList)' = {} /\ Entries(todo)' = {Root} /\ ScriptsOf(parsed)' = {}
      /\ AtHand' = {} /\ Len(todo') = 1
  BY <1>1 DEF Entries, ScriptsOf, AtHand
<1>3. Root # Definition
  BY CurrencyAssumption
<1>4. Recording' /\ Agreeing' /\ Quiet'
  BY <1>1, <1>2 DEF Recording, Agreeing, Quiet, UpToDate
<1>5. Closing'
  BY <1>1, <1>2, <1>3 DEF Closing
<1>6. ReadOnce'
  BY <1>1, <1>2 DEF ReadOnce
<1> QED
  BY <1>1, <1>4, <1>5, <1>6 DEF RunInv, Reading

\* The script at hand is the one that the CRC is taken from: it was not parsed
\* before, or it has not changed since.
LEMMA RunRecords ==
  ASSUME CurrencyTypeInv, RunInv, LoadForCRC
  PROVE  RunInv'
<1> DEFINE s == Head(todo)
           new == <<s, script[s]>>
<1>1. /\ progress = "crc" /\ progress' = "parse" /\ AddScript(s, script[s])
      /\ UNCHANGED <<scenario, script, todo, parsed>>
  BY DEF LoadForCRC, disk
<1>2. s \in Script /\ Entries(todo) = {s} \cup Entries(Tail(todo))
  BY <1>1, HeadAndTail DEF CurrencyTypeInv, CurrencyTypeOK
<1>3. /\ Entries(scriptList') = {l \in Entries(scriptList) : l[1] # s} \cup {new}
      /\ new[1] = s /\ new[2] = script[s]
  BY <1>1, <1>2, ScriptAdded DEF CurrencyTypeInv, CurrencyTypeOK
<1>4. Reading
  BY <1>1 DEF RunInv
<1> HIDE DEF new
<1>5. Recording'
  <2>1. ScriptsOf(Entries(scriptList')) = ScriptsOf(Entries(scriptList)) \cup {s}
    BY <1>3 DEF ScriptsOf
  <2>2. AtHand = {} /\ AtHand' = {s}
    BY <1>1 DEF AtHand
  <2> QED
    BY <1>1, <1>4, <2>1, <2>2 DEF Reading, Recording, Entries, ScriptsOf
<1>6. Agreeing'
  <2>1. ASSUME NEW l \in parsed, l[1] = s
        PROVE  l[2] = script[l[1]]
    <3>1. CASE "race" \in scenario.acts
      <4>1. s \in Entries(todo) /\ s \in ScriptsOf(parsed)
        BY <1>2, <2>1 DEF ScriptsOf
      <4> QED
        BY <1>4, <3>1, <4>1 DEF Reading, ReadOnce
    <3>2. CASE "race" \notin scenario.acts
      BY <1>4, <3>2 DEF Reading, Quiet, UpToDate
    <3> QED
      BY <3>1, <3>2
  <2>2. ASSUME NEW r \in Entries(scriptList'), NEW l \in parsed, r[1] = l[1],
               r[2] = script[l[1]]
        PROVE  l[2] = script[l[1]]
    BY <1>3, <1>4, <2>1, <2>2 DEF Reading, Agreeing
  <2>3. Entries(scriptList)' = Entries(scriptList')
    BY DEF Entries
  <2> QED
    BY <1>1, <2>2, <2>3 DEF Agreeing
<1>7. Closing' /\ Quiet' /\ ReadOnce'
  <2>1. Entries(todo)' = Entries(todo) /\ ScriptsOf(parsed)' = ScriptsOf(parsed)
    BY <1>1 DEF Entries, ScriptsOf
  <2>2. Closing'
    BY <1>1, <1>4, <2>1 DEF Reading, Closing, Follows
  <2>3. Quiet'
    BY <1>1, <1>4 DEF Reading, Quiet, UpToDate
  <2>4. ReadOnce'
    BY <1>1, <1>4, <2>1 DEF Reading, ReadOnce
  <2> QED
    BY <2>2, <2>3, <2>4
<1> QED
  BY <1>1, <1>5, <1>6, <1>7 DEF RunInv, Reading

\* The parser takes the script at hand, and its includes come next.
LEMMA RunParses ==
  ASSUME CurrencyTypeInv, NumbersInv, RunInv, Careful(scenario), LoadAndParse
  PROVE  RunInv'
<1> DEFINE s == Head(todo)
           i == script[s].includes
           rest == Tail(todo)
           new == <<s, script[s]>>
<1>1. /\ progress = "parse" /\ todo' = i \o rest /\ parsed' = parsed \cup {new}
      /\ progress' = IF todo' = << >> THEN "save" ELSE "crc"
      /\ UNCHANGED <<scenario, script, scriptList>>
  BY DEF LoadAndParse, disk
<1>2. /\ s \in Script /\ rest \in Seq(Script) /\ Entries(todo) = {s} \cup Entries(rest)
      /\ Len(todo) \in Nat /\ s = todo[1] /\ 1 \in 1..Len(todo)
      /\ \A k \in 1..Len(rest) : rest[k] = todo[k + 1] /\ k + 1 \in 1..Len(todo)
  BY <1>1, HeadAndTail DEF CurrencyTypeInv, CurrencyTypeOK
<1>3. script[s] \in Content /\ i \in scenario.mayInclude[s] /\ scenario \in Scenario
  <2>1. new \in {<<q, script[q]>> : q \in Script}
    BY <1>2
  <2>2. new[1] = s /\ new[2] = script[s]
    OBVIOUS
  <2> HIDE DEF new
  <2> QED
    BY <1>2, <2>1, <2>2 DEF NumbersInv, Known, CurrencyTypeInv, CurrencyTypeOK
<1>4. i \in Seq(Script) /\ Definition \notin Entries(i)
  BY <1>2, <1>3, Contents
<1> HIDE DEF i, rest, s
<1>5. /\ Entries(todo') = Entries(i) \cup Entries(rest)
      /\ Entries(todo)' = Entries(todo')
  <2>1. Entries(i \o rest) = Entries(i) \cup Entries(rest)
    BY <1>2, <1>4, Joined
  <2> QED
    BY <1>1, <2>1 DEF Entries
<1>6. new[1] = s /\ new[2] = script[s] /\ new[2].includes = i
  BY DEF i
<1> HIDE DEF new
<1>7. ScriptsOf(parsed)' = ScriptsOf(parsed) \cup {s}
  BY <1>1, <1>6 DEF ScriptsOf
<1>8. Reading
  BY <1>1 DEF RunInv
<1>9. Recording'
  <2>1. AtHand = {s} /\ AtHand' = {}
    BY <1>1 DEF AtHand, s
  <2>2. ScriptsOf(Entries(scriptList))' = ScriptsOf(Entries(scriptList))
    BY <1>1 DEF ScriptsOf, Entries
  <2> QED
    BY <1>1, <1>7, <1>8, <2>1, <2>2 DEF Reading, Recording
<1>10. Agreeing' /\ Quiet'
  <2>1. Entries(scriptList)' = Entries(scriptList)
    BY <1>1 DEF Entries
  <2> QED
    BY <1>1, <1>6, <1>8, <2>1 DEF Reading, Agreeing, Quiet, UpToDate
<1>11. Closing'
  <2> DEFINE known == ScriptsOf(parsed) \cup Entries(todo)
  <2>1. ScriptsOf(parsed)' \cup Entries(todo)' = known \cup Entries(i)
    BY <1>2, <1>5, <1>7
  <2>2. \A l \in parsed' : Entries(l[2].includes) \subseteq known \cup Entries(i)
    BY <1>1, <1>6, <1>8 DEF Reading, Closing
  <2>3. ASSUME NEW S \in SUBSET Script, Root \in S, Follows(S, parsed')
        PROVE  known \cup Entries(i) \subseteq S
    <3>1. Follows(S, parsed)
      BY <1>1, <2>3 DEF Follows
    <3>2. known \subseteq S
      BY <1>8, <2>3, <3>1 DEF Reading, Closing
    <3>3. s \in S
      BY <1>2, <3>2
    <3>4. Entries(i) \subseteq S
      BY <1>1, <1>6, <2>3, <3>3 DEF Follows
    <3> QED
      BY <3>2, <3>4
  <2>4. Root \in known \cup Entries(i) /\ Definition \notin known \cup Entries(i)
    BY <1>4, <1>8 DEF Reading, Closing
  <2> HIDE DEF known
  <2>5. \A S \in SUBSET Script : Root \in S /\ Follows(S, parsed)' => known \cup Entries(i) \subseteq S
    BY <2>3 DEF Follows
  <2> QED
    BY <2>1, <2>2, <2>4, <2>5 DEF Closing
<1>12. ReadOnce'
  <2> SUFFICES ASSUME "race" \in scenario.acts PROVE ReadOnce'
    BY <1>1 DEF ReadOnce
  \* No two scripts include the same one, and none includes Root.
  <2>1. ASSUME NEW r \in Script, NEW h \in scenario.mayInclude[r],
               NEW j \in 1..Len(i), NEW k \in 1..Len(h)
        PROVE  i[j] # Root /\ (i[j] = h[k] => s = r /\ (i = h => j = k))
    <3>1. \A q, p \in Script : \A f \in scenario.mayInclude[q], g \in scenario.mayInclude[p] :
            \A m \in 1..Len(f), n \in 1..Len(g) :
              f[m] # Root /\ (f[m] = g[n] => q = p /\ (f = g => m = n))
      BY Zenon DEF Careful
    <3>2. s \in Script /\ i \in scenario.mayInclude[s]
      BY <1>2, <1>3
    <3> QED
      BY <3>1, <3>2
  <2>2. Root \notin Entries(i) /\ \A j, k \in 1..Len(i) : i[j] = i[k] => j = k
    <3>1. s \in Script /\ i \in scenario.mayInclude[s]
      BY <1>2, <1>3
    <3>2. \A j, k \in 1..Len(i) : i[j] # Root /\ (i[j] = i[k] => j = k)
      BY <2>1, <3>1, Zenon
    <3> QED
      BY <3>2 DEF Entries
  <2>3. /\ \A j, k \in 1..Len(todo) : todo[j] = todo[k] => j = k
        /\ Entries(todo) \cap ScriptsOf(parsed) = {}
        /\ \A q \in ScriptsOf(parsed) \cup Entries(todo) :
             q = Root \/ \E l \in parsed : q \in Entries(l[2].includes)
    BY <1>8 DEF Reading, ReadOnce
  <2>4. \A l \in parsed : l[1] \in Script /\ l[2].includes \in scenario.mayInclude[l[1]]
    BY DEF NumbersInv, Known, CurrencyTypeInv, CurrencyTypeOK, Line
  <2>5. ASSUME NEW q \in Entries(i)
        PROVE  q \notin ScriptsOf(parsed) \cup Entries(todo)
    <3> SUFFICES ASSUME q \in ScriptsOf(parsed) \cup Entries(todo)
                 PROVE  FALSE
      OBVIOUS
    <3>1. PICK l \in parsed : q \in Entries(l[2].includes)
      BY <2>2, <2>3
    <3>2. PICK j \in 1..Len(i) : q = i[j]
      BY DEF Entries
    <3>3. PICK k \in 1..Len(l[2].includes) : q = l[2].includes[k]
      BY <3>1 DEF Entries
    <3>4. s = l[1]
      <4>1. l[1] \in Script /\ l[2].includes \in scenario.mayInclude[l[1]]
        BY <2>4
      <4>2. i[j] = l[2].includes[k]
        BY <3>2, <3>3
      <4> QED
        BY <2>1, <4>1, <4>2
    <3>5. s \in ScriptsOf(parsed) /\ s \in Entries(todo)
      BY <1>2, <3>4 DEF ScriptsOf
    <3> QED
      BY <2>3, <3>5
  <2>6. /\ \A j, k \in 1..Len(rest) : rest[j] = rest[k] => j = k
        /\ s \notin Entries(rest)
    <3>1. \A k \in 1..Len(rest) : k + 1 # 1
      OBVIOUS
    <3>2. s \notin Entries(rest)
      BY <1>2, <2>3, <3>1 DEF Entries
    <3>3. \A j, k \in 1..Len(rest) : j + 1 = k + 1 => j = k
      OBVIOUS
    <3> QED
      BY <1>2, <2>3, <3>2, <3>3
  <2>7. \A j, k \in 1..Len(todo') : todo'[j] = todo'[k] => j = k
    <3>1. Entries(i) \cap Entries(rest) = {}
      BY <1>2, <2>5
    <3>2. todo' = i \o rest /\ i \in Seq(Script) /\ rest \in Seq(Script)
      BY <1>1, <1>2, <1>4
    <3>3. /\ \A j, k \in 1..Len(i) : i[j] = i[k] => j = k
          /\ \A j, k \in 1..Len(rest) : rest[j] = rest[k] => j = k
      BY <2>2, <2>6
    <3>4. \A j, k \in 1..Len(i \o rest) : (i \o rest)[j] = (i \o rest)[k] => j = k
      BY <3>1, <3>2, <3>3, JoinedOnce, Zenon
    <3> QED
      BY <3>2, <3>4, Zenon
  <2>8. Entries(todo)' \cap ScriptsOf(parsed)' = {}
    BY <1>2, <1>5, <1>7, <2>3, <2>5, <2>6
  <2>9. ASSUME NEW q \in ScriptsOf(parsed)' \cup Entries(todo)'
        PROVE  q = Root \/ \E l \in parsed' : q \in Entries(l[2].includes)
    <3>1. q \in ScriptsOf(parsed) \cup Entries(todo) \/ q \in Entries(i)
      BY <1>2, <1>5, <1>7, <2>9
    <3> QED
      BY <1>1, <1>6, <2>3, <3>1
  <2> QED
    BY <2>7, <2>8, <2>9 DEF ReadOnce
<1>13. progress' \notin {"idle", "write"}
  BY <1>1
<1> QED
  BY <1>9, <1>10, <1>11, <1>12, <1>13 DEF RunInv, Reading

\* The definition joins the list, and the outputs are what was generated.
LEMMA RunSaved ==
  ASSUME CurrencyTypeInv, RunInv, Save
  PROVE  RunInv'
<1> DEFINE new == <<Definition, definition>>
<1>1. /\ progress = "save" /\ progress' = "write" /\ AddScript(Definition, definition)
      /\ vcxproj' = Generated /\ filters' = Generated
      /\ UNCHANGED <<scenario, script, exe, options, definition, todo, parsed, missing>>
  BY DEF Save, disk
<1>2. Definition \in Script /\ definition \in Content
  BY CurrencyAssumption DEF CurrencyTypeInv, CurrencyTypeOK
<1>3. /\ Entries(scriptList') = {l \in Entries(scriptList) : l[1] # Definition} \cup {new}
      /\ new[1] = Definition /\ new' = new /\ Entries(scriptList)' = Entries(scriptList')
  BY <1>1, <1>2, ScriptAdded DEF Entries
<1>4. Reading
  BY <1>1 DEF RunInv
<1>5. Generated' = Generated
  BY <1>1 DEF Generated
<1>6. /\ ScriptsOf(parsed)' = ScriptsOf(parsed) /\ Entries(todo)' = Entries(todo)
      /\ AtHand = {} /\ AtHand' = {}
  BY <1>1 DEF ScriptsOf, Entries, AtHand
<1>7. Definition \notin ScriptsOf(parsed)
  BY <1>4 DEF Reading, Closing
<1>8. Recording'
  <2>1. ScriptsOf(Entries(scriptList'))  = ScriptsOf(Entries(scriptList)) \cup {Definition}
    BY <1>3 DEF ScriptsOf
  <2>2. ScriptsOf(Entries(scriptList))' = ScriptsOf(Entries(scriptList'))
    BY <1>3 DEF ScriptsOf
  <2>3. new \in Entries(scriptList)'
    BY <1>3
  <2> QED
    BY <1>1, <1>3, <1>4, <1>6, <2>1, <2>2, <2>3 DEF Reading, Recording
<1>9. Agreeing'
  <2>1. \A l \in parsed : l[1] # Definition
    BY <1>7 DEF ScriptsOf
  <2> HIDE DEF new
  <2> QED
    BY <1>1, <1>3, <1>4, <2>1 DEF Reading, Agreeing
<1>10. Closing'
  BY <1>1, <1>4, <1>6 DEF Reading, Closing, Follows
<1>11. Quiet' /\ ReadOnce'
  BY <1>1, <1>4, <1>6 DEF Reading, Quiet, ReadOnce, UpToDate
<1> QED
  BY <1>1, <1>5, <1>8, <1>9, <1>10, <1>11 DEF RunInv, Reading

LEMMA RunStep ==
  ASSUME CurrencyInv, Careful(scenario), [CurrencyNext]_currencyVars
  PROVE  RunInv'
<1> USE DEF CurrencyInv
<1>1. CASE Edit
  BY <1>1, RunEdited
<1>2. CASE MoveSource \/ DeleteOutput \/ UNCHANGED currencyVars
  <2>1. /\ UNCHANGED <<scenario, script, exe, progress, work>>
        /\ vcxproj' \in {vcxproj, NoFile} /\ filters' \in {filters, NoFile}
    BY <1>2 DEF MoveSource, DeleteOutput, currencyVars, disk, output
  <2>2. Generated' = Generated
    BY <2>1 DEF Generated, work
  <2> QED
    BY <2>1, <2>2, RunKept DEF RunInv
<1>3. CASE Start
  BY <1>3, RunStarted
<1>4. CASE LoadForCRC
  BY <1>4, RunRecords
<1>5. CASE LoadAndParse
  BY <1>5, RunParses
<1>6. CASE Save
  BY <1>6, RunSaved
<1>7. CASE WriteCRCCheckFile \/ CrashInSave \/ CrashInWrite \/ Kill
  <2>1. progress' = "idle"
    BY <1>7 DEF WriteCRCCheckFile, CrashInSave, CrashInWrite, Kill
  <2> QED
    BY <2>1 DEF RunInv
<1> QED
  BY <1>1, <1>2, <1>3, <1>4, <1>5, <1>6, <1>7 DEF CurrencyNext

LEMMA CurrencyStepInv ==
  CurrencyInv /\ Careful(scenario) /\ [CurrencyNext]_currencyVars => CurrencyInv'
<1>1. CurrencyInv => CurrencyTypeInv /\ NumbersInv
  BY DEF CurrencyInv
<1> QED
  BY <1>1, CurrencyStepTyped, NumbersStep, OutputStep, FragileStep, RunStep DEF CurrencyInv

LEMMA CurrencyInitInv == CurrencyInit => CurrencyInv
<1> SUFFICES ASSUME CurrencyInit PROVE CurrencyInv
  OBVIOUS
<1>1. OutputInv /\ RunInv
  BY DEF CurrencyInit, OutputInv, RunInv, Fresh
<1>2. FragileInv
  BY DEF CurrencyInit, FragileInv
<1> QED
  BY <1>1, <1>2, CurrencyInitTyped, NumbersInit DEF CurrencyInv

-----------------------------------------------------------------------------
(***************************************************************************)
(* Lines that fit the disk and are complete are those that a generation    *)
(* would write now.                                                        *)
(***************************************************************************)
LEMMA FreshIsWanted ==
  ASSUME CurrencyTypeInv, Fresh, Complete(Entries(crc.lines))
  PROVE  Made = Wanted(crc.options)
<1> DEFINE lines == Entries(crc.lines)
           scripts == ScriptsOf(lines)
           reached == ReachableFrom({Root}, Includes, Script)
<1>1. \A l \in lines : l \in Script \X Content /\ l[2] = script[l[1]]
  BY DEF Fresh, UpToDate, CurrencyTypeInv, CurrencyTypeOK, CheckFile, Entries, Line
<1>2. scripts \subseteq Script /\ lines = {<<s, script[s]>> : s \in scripts}
  <2>1. \A l \in lines : l[1] \in Script /\ l = <<l[1], script[l[1]]>>
    BY <1>1
  <2> HIDE DEF lines
  <2> QED
    BY <2>1 DEF ScriptsOf
<1>3. \A s \in Script : Includes[s] = Entries(script[s].includes)
  BY DEF Includes, Entries
<1>4. \A s \in Script : Definition \notin Includes[s]
  <2> SUFFICES ASSUME NEW s \in Script PROVE Definition \notin Includes[s]
    OBVIOUS
  <2>1. script[s] \in Content
    BY DEF CurrencyTypeInv, CurrencyTypeOK
  <2>2. PICK c \in Scenario, r \in Script : script[s].includes \in c.mayInclude[r]
    BY <2>1 DEF Content
  <2> QED
    BY <1>3, <2>2, Contents
<1>5. {Root, Definition} \subseteq scripts /\ Root # Definition
  BY CurrencyAssumption DEF Complete
<1>6. reached \subseteq scripts \ {Definition}
  <2>1. ASSUME NEW s \in scripts \ {Definition}
        PROVE  Includes[s] \subseteq scripts \ {Definition}
    <3>1. PICK l \in lines : l[1] = s
      BY <2>1 DEF ScriptsOf
    <3>2. Entries(l[2].includes) \subseteq scripts
      BY <2>1, <3>1 DEF Complete
    <3> QED
      BY <1>1, <1>2, <1>3, <1>4, <2>1, <3>1, <3>2
  <2>2. SelfContained(scripts \ {Definition}, Includes)
    BY <2>1 DEF SelfContained
  <2>3. scripts \ {Definition} \in SUBSET Script /\ {Root} \subseteq scripts \ {Definition}
    BY <1>2, <1>5
  <2> QED
    BY <2>2, <2>3 DEF ReachableFrom
<1>7. scripts \ {Definition} \subseteq reached
  <2>1. Root \in Script
    BY CurrencyAssumption
  <2>2. reached \in SUBSET Script /\ Root \in reached
    BY <2>1 DEF ReachableFrom
  <2>3. ASSUME NEW s \in reached, NEW r \in Includes[s]
        PROVE  r \in reached
    <3>1. r \in Script
      <4>1. s \in Script
        BY <2>2
      <4>2. script[s].includes \in Seq(Script)
        BY <4>1, IncludesTyped DEF CurrencyTypeInv, CurrencyTypeOK
      <4> QED
        BY <1>3, <2>3, <4>1, <4>2 DEF Entries
    <3>2. ASSUME NEW S \in SUBSET Script, {Root} \subseteq S, SelfContained(S, Includes)
          PROVE  r \in S
      BY <2>3, <3>2 DEF ReachableFrom, SelfContained
    <3> QED
      BY <3>1, <3>2 DEF ReachableFrom
  <2>4. Follows(reached, lines)
    BY <1>1, <1>2, <1>3, <2>3 DEF Follows, ScriptsOf
  <2> QED
    BY <2>2, <2>4 DEF Complete
<1>8. scripts = reached \cup {Definition}
  BY <1>5, <1>6, <1>7
<1>9. Made.from = Wanted(crc.options).from /\ crc.exe = exe
  BY <1>2, <1>8 DEF Made, Wanted, Fresh
<1> QED
  BY <1>9 DEF Made, Wanted

(***************************************************************************)
(* A project that IsProjectCurrent lets pass is the one that the scripts on*)
(* disk give with these options, for any scripts, include lists, options   *)
(* and number of edits, wherever Careful says that it can be relied on.    *)
(***************************************************************************)
THEOREM CurrentIsGenerated ==
  CurrencySpec => [](Careful(scenario) => CurrentMeansGenerated)
<1> DEFINE Inv == Careful(scenario) => CurrencyInv
<1>1. CurrencyInit => Inv
  BY CurrencyInitInv
<1>2. Inv /\ [CurrencyNext]_currencyVars => Inv'
  <2> SUFFICES ASSUME Inv, [CurrencyNext]_currencyVars, Careful(scenario)' PROVE CurrencyInv'
    OBVIOUS
  <2>1. scenario' = scenario
    BY DEF CurrencyNext, Edit, MoveSource, DeleteOutput, Start, LoadForCRC, LoadAndParse, Save,
           WriteCRCCheckFile, CrashInSave, CrashInWrite, Kill, currencyVars, disk
  <2>2. Careful(scenario)
    BY <2>1 DEF Careful
  <2> QED
    BY <2>2, CurrencyStepInv
<1>3. CurrencyInv => CurrentMeansGenerated
  <2> SUFFICES ASSUME CurrencyInv, progress = "idle", NEW o \in scenario.options,
                      IsProjectCurrent(o)
               PROVE  vcxproj = Wanted(o) /\ filters = Wanted(o)
    BY DEF CurrentMeansGenerated
  <2>1. Fresh /\ crc.options = o /\ vcxproj # NoFile /\ filters # NoFile
    BY DEF IsProjectCurrent, CheckCRCs, Fresh, UpToDate, Entries
  <2>2. Complete(Entries(crc.lines)) /\ vcxproj = Made /\ filters = Made
    BY <2>1 DEF CurrencyInv, OutputInv
  <2> QED
    BY <2>1, <2>2, FreshIsWanted DEF CurrencyInv
<1> QED
  BY <1>1, <1>2, <1>3, PTL DEF CurrencySpec

(***************************************************************************)
(* A generation that nobody disturbed passes the check that comes next:    *)
(* WriteCRCCheckFile and VPC_CheckProjectDependencyCRCs agree.             *)
(***************************************************************************)
THEOREM GeneratedPasses == CurrencySpec => GeneratedIsCurrent
<1>1. ASSUME CurrencyTypeInv, WriteCRCCheckFile, ~missing, Undisturbed,
             NoFile \notin {vcxproj, filters}
      PROVE  IsProjectCurrent(options)'
  <2>1. /\ crc' = CRCFile(3, scriptList)
        /\ UNCHANGED <<script, exe, vcxproj, filters, options, scriptList>>
    BY <1>1 DEF WriteCRCCheckFile, disk, work
  <2>2. crc' \in CheckFile
    <3>1. 3 \in 0..3
      OBVIOUS
    <3> QED
      BY <1>1, <2>1, <3>1 DEF CRCFile, CheckFile, CurrencyTypeInv, CurrencyTypeOK
  <2>3. crc'.header = 3 /\ crc'.exe = exe /\ crc'.options = options /\ crc'.lines = scriptList
    BY <2>1 DEF CRCFile
  <2>4. \A k \in 1..Len(scriptList) : scriptList[k][2] = script[scriptList[k][1]]
    BY <1>1 DEF Undisturbed
  <2> QED
    BY <1>1, <2>1, <2>2, <2>3, <2>4, FileAssumption DEF IsProjectCurrent, CheckCRCs
<1>2. CurrencyTypeInv /\ [CurrencyNext]_currencyVars =>
        [WriteCRCCheckFile /\ ~missing /\ Undisturbed /\ NoFile \notin {vcxproj, filters}
           => IsProjectCurrent(options)']_currencyVars
  BY <1>1
<1> QED
  BY <1>2, CurrencyInitTyped, CurrencyStepTyped, PTL DEF CurrencySpec, GeneratedIsCurrent

-----------------------------------------------------------------------------
(***************************************************************************)
(* The CRC of a script with patterns, for any script, any disk and any     *)
(* number of runs.  What a load makes of a line depends on the line, on    *)
(* the disk and on whether a search is on, so the invariant keeps, for     *)
(* each text, where a search was on while it was read.  One can be on only *)
(* where OpenBefore allows it, and two loads that begin without one have   *)
(* it on at the same lines.                                                *)
(***************************************************************************)
FirstKeyword(l) == CHOOSE k \in Keywords(l) : \A j \in Keywords(l) : k <= j

\* PatternAt, StillSearching and the text of a line on a disk, with a search on or not.
PatternIn(on, l) ==
  IF on THEN IF l = << >> THEN 0 ELSE 1
  ELSE IF Keywords(l) = {} \/ FirstKeyword(l) = Len(l) THEN 0 ELSE FirstKeyword(l) + 1

StillOn(on, l) == (on \/ Keywords(l) # {}) /\ PatternIn(on, l) = 0

FoundOn(there, l, k, names) == IF k # 0 /\ l[k] \in names THEN Matches[l[k]] \cap there ELSE {}

TextOn(there, on, l) ==
  [line |-> l,
   found |-> FoundOn(there, l, FileAt(l), OsName) \cup FoundOn(there, l, PatternIn(on, l), Pattern)]

\* The text of the first lines of the script, read with a search on where o says so.
IsLoad(text, there, o) ==
  /\ text \in Seq([line : Seq(ScriptWord), found : SUBSET DiskFile])
  /\ Len(text) <= Len(words)
  /\ o \in [1..Len(text) + 1 -> BOOLEAN]
  /\ \A k \in 1..Len(text) + 1 : o[k] => OpenBefore(k)
  /\ \A k \in 1..Len(text) :
       text[k] = TextOn(there, o[k], words[k]) /\ o[k + 1] = StillOn(o[k], words[k])

CRCInv ==
  /\ words \in CRCScripts
  /\ onDisk \in SUBSET DiskFile /\ basis \in SUBSET DiskFile
  /\ purpose \in {"none", "check", "generate"}
  /\ \E o : IsLoad(scanned, onDisk, o) /\ searching = o[Len(scanned) + 1]
  /\ purpose = "none" => scanned = << >>
  /\ recorded # "none" => Len(recorded) = Len(words) /\ \E o : IsLoad(recorded, basis, o)
  /\ purpose = "check" => recorded # "none"

LEMMA WordsTyped ==
  ASSUME CRCInv
  PROVE  words \in Seq(Seq(ScriptWord)) /\ Len(words) \in Nat
         /\ \A k \in 1..Len(words) : words[k] \in Seq(ScriptWord)
<1>1. words \in Seq(Seq(ScriptWord))
  BY CRCScriptAssumption DEF CRCInv
<1> QED
  BY <1>1

\* A line with a keyword has a first one.
LEMMA KeywordInside ==
  ASSUME NEW l \in Seq(ScriptWord), Keywords(l) # {}
  PROVE  /\ FirstKeyword(l) \in Keywords(l) /\ FirstKeyword(l) \in 1..Len(l)
         /\ \A j \in Keywords(l) : FirstKeyword(l) <= j
<1>1. Keywords(l) \subseteq Nat
  BY DEF Keywords
<1>2. \E m \in Keywords(l) : \A j \in Keywords(l) : m <= j
  BY <1>1, LeastNumber
<1> QED
  BY <1>2 DEF FirstKeyword, Keywords

\* What a load makes of a line, in the terms above.
LEMMA LineRead ==
  ASSUME NEW l \in Seq(ScriptWord)
  PROVE  StillSearching(l) = StillOn(searching, l) /\ TextOfLine(l) = TextOn(onDisk, searching, l)
<1>1. PatternAt(l) = PatternIn(searching, l)
  BY DEF PatternAt, PatternIn, FirstKeyword
<1> QED
  BY <1>1 DEF StillSearching, StillOn, TextOfLine, TextOn, FoundOnDisk, FoundOn

LEMMA TextTyped ==
  ASSUME NEW there \in SUBSET DiskFile, NEW on, NEW l \in Seq(ScriptWord)
  PROVE  TextOn(there, on, l) \in [line : Seq(ScriptWord), found : SUBSET DiskFile]
BY CRCScriptAssumption DEF TextOn, FoundOn

(***************************************************************************)
(* Where a search can be on: a line that leaves one on opened it or is     *)
(* empty, and what the end of a load leaves on, the next one begins with.  *)
(***************************************************************************)
LEMMA SearchGoesOn ==
  ASSUME words \in Seq(Seq(ScriptWord)), NEW n \in 1..Len(words), NEW on \in BOOLEAN,
         on => OpenBefore(n), StillOn(on, words[n])
  PROVE  OpenBefore(n + 1)
<1>1. words[n] \in Seq(ScriptWord) /\ Len(words) \in Nat
  OBVIOUS
<1>2. CASE on
  <2>1. words[n] = << >>
    BY <1>2 DEF StillOn, PatternIn
  <2>2. ~Opens(words[n])
    BY <2>1 DEF Opens, Keywords
  <2>3. PICK j \in 1..Len(words) :
          /\ Opens(words[j])
          /\ \A k \in 1..Len(words) :
               (IF j < n THEN j < k /\ k < n ELSE j < k \/ k < n) => words[k] = << >>
    BY <1>2 DEF OpenBefore
  <2>4. j # n
    BY <2>2, <2>3
  <2>5. \A k \in 1..Len(words) :
          (IF j < n + 1 THEN j < k /\ k < n + 1 ELSE j < k \/ k < n + 1) => words[k] = << >>
    <3> SUFFICES ASSUME NEW k \in 1..Len(words), k # n,
                        IF j < n + 1 THEN j < k /\ k < n + 1 ELSE j < k \/ k < n + 1
                 PROVE  words[k] = << >>
      BY <2>1
    <3>1. IF j < n THEN j < k /\ k < n ELSE j < k \/ k < n
      BY <1>1, <2>4
    <3> QED
      BY <2>3, <3>1
  <2> QED
    BY <2>3, <2>5 DEF OpenBefore
<1>3. CASE ~on
  <2>1. Keywords(words[n]) # {} /\ PatternIn(FALSE, words[n]) = 0
    BY <1>3 DEF StillOn
  <2>2. /\ FirstKeyword(words[n]) \in Keywords(words[n])
        /\ FirstKeyword(words[n]) \in 1..Len(words[n])
        /\ \A j \in Keywords(words[n]) : FirstKeyword(words[n]) <= j
    BY <1>1, <2>1, KeywordInside
  <2>3. FirstKeyword(words[n]) = Len(words[n])
    BY <1>1, <2>1, <2>2 DEF PatternIn
  <2>4. Keywords(words[n]) = {Len(words[n])}
    BY <1>1, <2>2, <2>3 DEF Keywords
  <2>5. \A k \in 1..Len(words) :
          (IF n < n + 1 THEN n < k /\ k < n + 1 ELSE n < k \/ k < n + 1) => words[k] = << >>
    OBVIOUS
  <2>6. Opens(words[n])
    BY <2>4 DEF Opens
  <2> QED
    BY <2>5, <2>6 DEF OpenBefore
<1> QED
  BY <1>2, <1>3

LEMMA NextLoad ==
  ASSUME words \in Seq(Seq(ScriptWord)), OpenBefore(Len(words) + 1)
  PROVE  OpenBefore(1)
<1>1. PICK j \in 1..Len(words) :
        /\ Opens(words[j])
        /\ \A k \in 1..Len(words) :
             (IF j < Len(words) + 1 THEN j < k /\ k < Len(words) + 1
              ELSE j < k \/ k < Len(words) + 1) => words[k] = << >>
  BY DEF OpenBefore
<1>2. \A k \in 1..Len(words) : j < k \/ k < 1 => words[k] = << >>
  BY <1>1
<1>3. ~(j < 1)
  OBVIOUS
<1> QED
  BY <1>1, <1>2, <1>3 DEF OpenBefore

\* A load that has not begun, with a search on or not.
LEMMA NothingRead ==
  ASSUME words \in Seq(Seq(ScriptWord)), NEW on \in BOOLEAN, on => OpenBefore(1), NEW there
  PROVE  \E o : IsLoad(<< >>, there, o) /\ on = o[Len(<< >>) + 1]
<1> DEFINE o == [k \in 1..1 |-> on]
<1>1. << >> \in Seq([line : Seq(ScriptWord), found : SUBSET DiskFile]) /\ Len(<< >>) = 0
      /\ 0 <= Len(words) /\ 0 + 1 = 1
  BY EmptySeq
<1>2. o \in [1..1 -> BOOLEAN] /\ o[1] = on /\ \A k \in 1..1 : o[k] => OpenBefore(k)
  OBVIOUS
<1> HIDE DEF o
<1>3. IsLoad(<< >>, there, o)
  BY <1>1, <1>2 DEF IsLoad
<1> QED
  BY <1>1, <1>2, <1>3

LEMMA CRCInitInv == CRCInit => CRCInv
<1> SUFFICES ASSUME CRCInit PROVE CRCInv
  OBVIOUS
<1>1. words \in Seq(Seq(ScriptWord))
  BY CRCScriptAssumption DEF CRCInit
<1>2. \E o : IsLoad(<< >>, onDisk, o) /\ FALSE = o[Len(<< >>) + 1]
  BY <1>1, NothingRead
<1> QED
  BY <1>2 DEF CRCInit, CRCInv

LEMMA CRCStep == CRCInv /\ [CRCNext]_crcVars => CRCInv'
<1> SUFFICES ASSUME CRCInv, [CRCNext]_crcVars
             PROVE  CRCInv'
  OBVIOUS
<1>a. words \in Seq(Seq(ScriptWord)) /\ Len(words) \in Nat
      /\ \A k \in 1..Len(words) : words[k] \in Seq(ScriptWord)
  BY WordsTyped
<1>b. words' = words
  BY DEF CRCNext, NextRun, Check, Scan, EndCheck, EndGenerate, crcVars
<1>c. \A text, there, o : IsLoad(text, there, o)' <=> IsLoad(text, there, o)
  BY <1>b DEF IsLoad, OpenBefore
<1>d. PICK o : IsLoad(scanned, onDisk, o) /\ searching = o[Len(scanned) + 1]
  BY DEF CRCInv
<1>e. Len(scanned) \in Nat /\ searching \in BOOLEAN /\ (searching => OpenBefore(Len(scanned) + 1))
  BY <1>d DEF IsLoad
\* The next load begins with what this one leaves on.
<1>f. ASSUME searching' = searching, scanned = << >> \/ Len(scanned) = Len(words)
      PROVE  \E p : IsLoad(<< >>, onDisk', p) /\ searching' = p[Len(<< >>) + 1]
  <2>1. searching => OpenBefore(1)
    <3>1. CASE scanned = << >>
      BY <1>e, <3>1
    <3>2. CASE Len(scanned) = Len(words)
      BY <1>a, <1>e, <3>2, NextLoad
    <3> QED
      BY <1>f, <3>1, <3>2
  <2> QED
    BY <1>a, <1>e, <1>f, <2>1, NothingRead
<1>1. CASE UNCHANGED crcVars
  BY <1>1, <1>c DEF crcVars, CRCInv
<1>2. CASE NextRun
  <2>1. scanned = << >> /\ scanned' = << >> /\ searching' = FALSE
    BY <1>2 DEF NextRun, CRCInv
  <2>2. \E p : IsLoad(<< >>, onDisk', p) /\ FALSE = p[Len(<< >>) + 1]
    BY <1>a, NothingRead
  <2> QED
    BY <1>2, <1>c, <2>1, <2>2 DEF NextRun, CRCInv
<1>3. CASE Check
  BY <1>3, <1>c, <1>f DEF Check, CRCInv
<1>4. CASE EndCheck
  <2>1. /\ UNCHANGED <<words, onDisk, searching, recorded, basis>> /\ scanned' = << >>
        /\ Len(scanned) = Len(words) /\ purpose' \in {"none", "generate"}
    BY <1>4 DEF EndCheck, Scanned
  <2>2. \E p : IsLoad(scanned', onDisk', p) /\ searching' = p[Len(scanned') + 1]
    BY <1>f, <2>1
  <2> QED
    BY <1>c, <2>1, <2>2 DEF CRCInv
<1>5. CASE EndGenerate
  <2>1. /\ UNCHANGED <<words, onDisk, searching>> /\ scanned' = << >>
        /\ Len(scanned) = Len(words) /\ purpose' = "none"
        /\ recorded' = scanned /\ basis' = onDisk
    BY <1>5 DEF EndGenerate, Scanned
  <2>2. \E p : IsLoad(scanned', onDisk', p) /\ searching' = p[Len(scanned') + 1]
    BY <1>f, <2>1
  <2>3. Len(recorded') = Len(words) /\ IsLoad(recorded', basis', o)
    BY <1>d, <2>1
  <2> QED
    BY <1>b, <1>c, <2>1, <2>2, <2>3 DEF CRCInv
<1>6. CASE Scan
  <2> DEFINE n == Len(scanned) + 1
             l == words[n]
             p == [k \in 1..n + 1 |-> IF k = n + 1 THEN searching' ELSE o[k]]
  <2>1. UNCHANGED <<words, onDisk, purpose, recorded, basis>>
        /\ Len(scanned) < Len(words) /\ purpose # "none"
    BY <1>6 DEF Scan
  <2>2. n \in 1..Len(words) /\ n \in Nat /\ l \in Seq(ScriptWord)
    BY <1>a, <1>e, <2>1
  <2>3. searching' = StillOn(searching, l)
        /\ scanned' = Append(scanned, TextOn(onDisk, searching, l))
    BY <1>6, <2>2, LineRead DEF Scan
  <2>4. TextOn(onDisk, searching, l) \in [line : Seq(ScriptWord), found : SUBSET DiskFile]
    BY <2>2, TextTyped DEF CRCInv
  <2>5. /\ scanned' \in Seq([line : Seq(ScriptWord), found : SUBSET DiskFile])
        /\ Len(scanned') = n /\ scanned'[n] = TextOn(onDisk, searching, l)
        /\ \A k \in 1..n - 1 : scanned'[k] = scanned[k]
    BY <1>d, <2>3, <2>4, AppendProperties DEF IsLoad
  <2>6. searching' \in BOOLEAN /\ (searching' => OpenBefore(n + 1))
    <3>1. StillOn(searching, l) \in BOOLEAN
      BY DEF StillOn
    <3> QED
      BY <1>a, <1>e, <2>2, <2>3, <3>1, SearchGoesOn
  <2>7. /\ p \in [1..n + 1 -> BOOLEAN] /\ p[n + 1] = searching'
        /\ \A k \in 1..n : p[k] = o[k]
    BY <1>d, <2>2, <2>6 DEF IsLoad
  <2>8. \A k \in 1..n + 1 : p[k] => OpenBefore(k)
    <3> HIDE DEF p
    <3> SUFFICES ASSUME NEW k \in 1..n + 1, p[k]
                 PROVE  OpenBefore(k)
      OBVIOUS
    <3>1. CASE k = n + 1
      BY <2>6, <2>7, <3>1
    <3>2. CASE k \in 1..n
      BY <1>d, <2>7, <3>2 DEF IsLoad
    <3> QED
      BY <2>2, <3>1, <3>2
  <2>9. \A k \in 1..n : scanned'[k] = TextOn(onDisk, p[k], words[k])
                        /\ p[k + 1] = StillOn(p[k], words[k])
    <3> HIDE DEF p
    <3> SUFFICES ASSUME NEW k \in 1..n
                 PROVE  scanned'[k] = TextOn(onDisk, p[k], words[k])
                        /\ p[k + 1] = StillOn(p[k], words[k])
      OBVIOUS
    <3>1. CASE k = n
      BY <1>d, <2>2, <2>3, <2>5, <2>7, <3>1
    <3>2. CASE k \in 1..n - 1
      <4>1. k \in 1..Len(scanned) /\ k \in 1..n /\ k + 1 \in 1..n
        BY <2>2, <3>2
      <4> QED
        BY <1>d, <2>5, <2>7, <3>2, <4>1 DEF IsLoad
    <3> QED
      BY <2>2, <3>1, <3>2
  <2> HIDE DEF p, n, l
  <2>10. IsLoad(scanned', onDisk, p) /\ searching' = p[Len(scanned') + 1]
    BY <1>a, <2>2, <2>5, <2>7, <2>8, <2>9 DEF IsLoad
  <2> QED
    BY <1>c, <2>1, <2>10 DEF CRCInv
<1> QED
  BY <1>1, <1>2, <1>3, <1>4, <1>5, <1>6 DEF CRCNext

\* Where two loads that begin without a search are alike: everywhere.
LEMMA SameSearches ==
  ASSUME words \in Seq(Seq(ScriptWord)), ~OpenBefore(1),
         NEW s, NEW t, NEW there, NEW o, NEW p, IsLoad(s, there, o), IsLoad(t, there, p),
         Len(s) = Len(words), Len(t) = Len(words)
  PROVE  s = t
<1> DEFINE n == Len(words) + 1
           Differ == {k \in 1..n : o[k] # p[k]}
<1>1. n \in Nat /\ n > 0
  OBVIOUS
<1>2. o[1] = FALSE /\ p[1] = FALSE
  BY <1>1 DEF IsLoad
<1>3. Differ = {}
  <2> SUFFICES ASSUME Differ # {} PROVE FALSE
    OBVIOUS
  <2>1. Differ \subseteq Nat
    BY <1>1
  <2>2. PICK m \in Differ : \A k \in Differ : m <= k
    BY <2>1, LeastNumber
  <2>3. m # 1 /\ m \in 1..n
    BY <1>2, <2>2
  <2>4. m - 1 \in 1..Len(words) /\ m - 1 \in 1..n /\ (m - 1) + 1 = m
    BY <1>1, <2>3
  <2>5. o[m - 1] = p[m - 1]
    BY <2>2, <2>4
  <2>6. o[m] = StillOn(o[m - 1], words[m - 1]) /\ p[m] = StillOn(p[m - 1], words[m - 1])
    BY <2>4 DEF IsLoad
  <2> QED
    BY <2>2, <2>5, <2>6
<1>4. \A k \in 1..Len(words) : o[k] = p[k]
  BY <1>1, <1>3
<1>5. \A k \in 1..Len(words) : s[k] = t[k]
  BY <1>4 DEF IsLoad
<1> QED
  BY <1>5, SeqEqual DEF IsLoad

\* What the text of a line with a leading $FilePattern has found, when no search is on,
\* is what the name after it matches.
LEMMA FirstPatternFound ==
  ASSUME NEW l \in Seq(ScriptWord), NEW there,
         Len(l) > 1, l[1] = "$filepattern", l[2] \in Pattern
  PROVE  TextOn(there, FALSE, l).found = Matches[l[2]] \cap there
<1>1. Len(l) \in Nat
  OBVIOUS
<1>2. FoundOn(there, l, FileAt(l), OsName) = {}
  <2> DEFINE found == {j \in 1..Len(l) - 1 : l[j] = "$file"}
  <2>1. CASE found = {}
    BY <2>1 DEF FileAt, FoundOn
  <2>2. CASE found # {}
    <3>1. found \subseteq Nat
      BY <1>1
    <3>2. \E j \in found : \A m \in found : j <= m
      BY <2>2, <3>1, LeastNumber
    <3>3. FileAt(l) \in found
      BY <2>2, <3>2 DEF FileAt
    <3>4. l[FileAt(l)] = "$file"
      BY <3>3
    <3> QED
      BY <3>4, CRCScriptAssumption DEF FoundOn
  <2> QED
    BY <2>1, <2>2
<1>3. PatternIn(FALSE, l) = 2
  <2>1. 1 \in Keywords(l)
    BY <1>1 DEF Keywords
  <2>2. FirstKeyword(l) \in 1..Len(l) /\ FirstKeyword(l) <= 1
    BY <2>1, KeywordInside
  <2>3. FirstKeyword(l) = 1
    BY <1>1, <2>2
  <2>4. Keywords(l) # {} /\ FirstKeyword(l) # Len(l)
    BY <1>1, <2>1, <2>3
  <2> QED
    BY <2>3, <2>4 DEF PatternIn
<1>4. FoundOn(there, l, 2, Pattern) = Matches[l[2]] \cap there
  BY DEF FoundOn
<1> QED
  BY <1>2, <1>3, <1>4 DEF TextOn

(***************************************************************************)
(* A load goes through the lines of the script and not past the last, and  *)
(* what a generation records is the text of all of them, also in scripts   *)
(* in which a search stays open.                                           *)
(***************************************************************************)
THEOREM CRCTyped == CRCSpec => []CRCTypeOK
<1> DEFINE LineText == [line : Seq(ScriptWord), found : SUBSET DiskFile]
           Typed == CRCTypeOK /\ scanned \in Seq(LineText)
<1>1. ASSUME words \in CRCScripts PROVE words \in Seq(Seq(ScriptWord)) /\ Len(words) \in Nat
  BY <1>1, CRCScriptAssumption
<1>2. CRCInit => Typed
  <2> SUFFICES ASSUME CRCInit PROVE Typed
    OBVIOUS
  <2> HIDE DEF LineText
  <2>1. scanned \in Seq(LineText) /\ Len(scanned) = 0
    BY EmptySeq DEF CRCInit
  <2>2. Len(scanned) <= Len(words)
    BY <1>1, <2>1 DEF CRCInit
  <2> QED
    BY <2>1, <2>2, Zenon DEF CRCInit, CRCTypeOK
<1>3. Typed /\ [CRCNext]_crcVars => Typed'
  <2> SUFFICES ASSUME Typed, [CRCNext]_crcVars PROVE Typed'
    OBVIOUS
  <2>1. words \in Seq(Seq(ScriptWord)) /\ Len(words) \in Nat
    BY <1>1 DEF CRCTypeOK
  <2>2. << >> \in Seq(LineText) /\ Len(<< >>) = 0
    BY EmptySeq
  <2> HIDE DEF LineText
  <2>3. CASE NextRun
    BY <2>3, Zenon DEF NextRun, CRCTypeOK
  <2>4. CASE Check
    <3>1. Len(scanned') <= Len(words')
      BY <2>1, <2>2, <2>4 DEF Check
    <3>2. scanned' \in Seq(LineText) /\ purpose' \in {"none", "check", "generate"}
      BY <2>2, <2>4 DEF Check
    <3> QED
      BY <2>4, <3>1, <3>2, Zenon DEF Check, CRCTypeOK
  <2>5. CASE Scan
    <3> DEFINE l == words[Len(scanned) + 1]
    <3>1. Len(scanned) \in Nat /\ Len(scanned) < Len(words)
      BY <2>5 DEF Scan
    <3>2. l \in Seq(ScriptWord)
      BY <2>1, <3>1
    <3>3. TextOfLine(l) \in LineText
      <4>1. \A k, names : FoundOnDisk(l, k, names) \subseteq DiskFile
        BY DEF FoundOnDisk, CRCTypeOK
      <4> QED
        BY <3>2, <4>1 DEF TextOfLine, LineText
    <3>4. StillSearching(l) \in BOOLEAN
      BY DEF StillSearching
    <3> HIDE DEF l, LineText
    <3>5. scanned' = Append(scanned, TextOfLine(l)) /\ searching' = StillSearching(l)
          /\ UNCHANGED <<words, onDisk, purpose, recorded, basis>>
      BY <2>5 DEF Scan, l
    <3>6. scanned' \in Seq(LineText) /\ Len(scanned') = Len(scanned) + 1
      BY <3>3, <3>5
    <3> QED
      BY <2>1, <3>1, <3>4, <3>5, <3>6 DEF CRCTypeOK
  <2>6. CASE EndCheck
    BY <2>1, <2>2, <2>6 DEF EndCheck, Scanned, CRCTypeOK
  <2>7. CASE EndGenerate
    BY <2>1, <2>2, <2>7 DEF EndGenerate, Scanned, CRCTypeOK
  <2>8. CASE UNCHANGED crcVars
    BY <2>8 DEF crcVars, CRCTypeOK
  <2> QED
    BY <2>3, <2>4, <2>5, <2>6, <2>7, <2>8 DEF CRCNext
<1> QED
  BY <1>2, <1>3, PTL DEF CRCSpec

(***************************************************************************)
(* A project that the check of its CRC lets pass has the files that the    *)
(* first patterns of its script match, all those without a macro that no   *)
(* open search hides; and it does pass when the disk is that of the last   *)
(* generation, if the script does not end in an open search.               *)
(***************************************************************************)
THEOREM PatternsAreFollowed == CRCSpec => CRCFollowsDisk
<1>1. ASSUME CRCInv, LetsPass
      PROVE  Unchanged(FirstPatterns)
  <2>1. scanned = recorded /\ Len(scanned) = Len(words)
    BY <1>1 DEF LetsPass, EndCheck, Scanned, CRCInv
  <2>2. PICK o : IsLoad(scanned, onDisk, o)
    BY <1>1 DEF CRCInv
  <2>3. PICK p : IsLoad(scanned, basis, p)
    BY <1>1, <2>1 DEF LetsPass, EndCheck, CRCInv
  <2> SUFFICES ASSUME NEW k \in 1..Len(words), Len(words[k]) > 1, ~OpenBefore(k),
                      words[k][1] = "$filepattern", words[k][2] \in Pattern
               PROVE  Matches[words[k][2]] \cap basis = Matches[words[k][2]] \cap onDisk
    BY DEF Unchanged, FirstPatterns
  <2>4. words[k] \in Seq(ScriptWord) /\ Len(words) \in Nat
    BY <1>1, WordsTyped
  <2>5. k \in 1..Len(scanned) /\ k \in 1..Len(scanned) + 1
    BY <2>1, <2>4
  <2>6. o[k] = FALSE /\ p[k] = FALSE
    BY <2>2, <2>3, <2>5 DEF IsLoad
  <2>7. TextOn(onDisk, FALSE, words[k]) = TextOn(basis, FALSE, words[k])
    BY <2>2, <2>3, <2>5, <2>6 DEF IsLoad
  <2>8. \A there : TextOn(there, FALSE, words[k]).found = Matches[words[k][2]] \cap there
    BY <2>4, FirstPatternFound
  <2> QED
    BY <2>7, <2>8
<1>2. ASSUME CRCInv, EndCheck, ~OpenBefore(1), basis = onDisk
      PROVE  purpose' = "none"
  <2>1. /\ Len(scanned) = Len(words) /\ Len(recorded) = Len(words)
        /\ \E o : IsLoad(scanned, onDisk, o)
        /\ \E o : IsLoad(recorded, onDisk, o)
    BY <1>2 DEF EndCheck, Scanned, CRCInv
  <2>2. scanned = recorded
    BY <1>2, <2>1, WordsTyped, SameSearches
  <2> QED
    BY <1>2, <2>2 DEF EndCheck
<1>3. CRCInv /\ [CRCNext]_crcVars =>
        /\ [LetsPass => Unchanged(FirstPatterns)]_crcVars
        /\ [EndCheck /\ ~OpenBefore(1) /\ basis = onDisk => purpose' = "none"]_crcVars
  BY <1>1, <1>2
<1> QED
  BY CRCInitInv, CRCStep, <1>3, PTL DEF CRCSpec, CRCFollowsDisk, PatternsNoticed, SameDiskIsCurrent

=============================================================================
