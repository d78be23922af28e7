---------------------------- MODULE FolderScript ----------------------------
(***************************************************************************)
(* How the parser of src/utils/vpc/projectscript.cpp reads a $Folder: the  *)
(* keyword loop of VPC_Keyword_Folder, VPC_Keyword_AddFile with the file   *)
(* list, the check for missing files and the section that is parsed again  *)
(* for each file, and the configurations of folders (configuration.cpp).   *)
(*                                                                         *)
(* The parser has one position in the text, which these routines save and  *)
(* restore.  A file list, a $Configuration with its block and a brace are  *)
(* one token each.  The text is that of a folder as its author meant it, a *)
(* tree of items two folders deep.  What the generator is told about files *)
(* is kept as a set of facts.                                              *)
(*                                                                         *)
(* The check for missing files and unity builds are switched on, and no    *)
(* pass over the scripts for a solution alone is made.  An $os name that   *)
(* resolves stands for the file it resolves to; its .cpp siblings, which   *)
(* the code lists as excluded from the build (441-465), are left out.      *)
(***************************************************************************)
EXTENDS Naturals, FiniteSets, SequencesExt

CONSTANTS Missing,     \* names of files that do not exist, libraries aside
          Unresolved,  \* names with $os that resolve to no file
          Source,      \* .cpp files
          Stepped,     \* files whose extension has a $CustomBuildStep
          Trees        \* the contents of a folder

Outer == {"$Folder", "$Unity"}
FileWords == {"$File", "$DynamicFile"}
FolderWords == {"$Folder", "$Unity"}

\* A file list, alone or with a section, or a $Configuration.
IsLeaf(item) ==
  /\ item.section \in BOOLEAN
  /\ item.list \in Seq(ToSet(item.list))
  /\ item.confs \in Seq(ToSet(item.confs))
  /\ \/ item.word \in FileWords /\ (~item.section => item.confs = << >>)
     \/ item.word = "$Configuration" /\ Len(item.confs) = 1

IsFolder(item) ==
  /\ item.word \in FolderWords
  /\ item.inner \in Seq(ToSet(item.inner))
  /\ \A leaf \in ToSet(item.inner) : IsLeaf(leaf)

(***************************************************************************)
(* A name with $os is resolved later: the check for missing files lets it  *)
(* pass.  A tree has items, and folders with items that are no folders.    *)
(***************************************************************************)
ASSUME FolderAssumption ==
  /\ Missing \cap Unresolved = {}
  /\ \A t \in Trees :
       /\ t \in Seq(ToSet(t))
       /\ \A item \in ToSet(t) : IsFolder(item) \/ (IsLeaf(item) /\ item.inner = << >>)

VARIABLES
  tree,        \* the items of the outermost folder
  outer,       \* the keyword of the outermost folder
  text,        \* its tokens
  at,          \* the position of the parser
  folders,     \* active configuration of the folders that are open, and bUnity
  unitySeen,   \* the number of m_UnityFilesSeen, whose names differ
  unityStack,  \* m_UnityStack; its top is m_sUnityCurrent
  pending,     \* the $File that is worked on
  reading,     \* whether VPC_ParseFileSection runs for a file
  had,         \* bHadConfigSection
  facts        \* what the generator was told

folderVars == <<tree, outer, text, at, folders, unitySeen, unityStack, pending,
                reading, had, facts>>

NothingPending == [files |-> << >>, k |-> 0, start |-> 0, section |-> FALSE, plain |-> TRUE]

Lexeme(word, list, conf) == [word |-> word, list |-> list, conf |-> conf]
OpenBrace == Lexeme("{", << >>, << >>)
CloseBrace == Lexeme("}", << >>, << >>)
Configurations(confs) ==
  [i \in DOMAIN confs |-> Lexeme("$Configuration", << >>, <<confs[i]>>)]

(***************************************************************************)
(* The tokens of an item.  `list` holds names with their condition, "none",*)
(* "true" or "false"; a file item with a section holds the configurations  *)
(* of the section.                                                         *)
(***************************************************************************)
LeafTokens(item) ==
  IF item.word = "$Configuration" THEN Configurations(item.confs)
  ELSE <<Lexeme(item.word, item.list, << >>)>>
         \o IF item.section
            THEN <<OpenBrace>> \o Configurations(item.confs) \o <<CloseBrace>>
            ELSE << >>

Leaves(items) == FlattenSeq([i \in DOMAIN items |-> LeafTokens(items[i])])

Tokens(items) ==
  FlattenSeq([i \in DOMAIN items |->
    IF items[i].word \in FolderWords
    THEN <<Lexeme(items[i].word, << >>, << >>), OpenBrace>>
           \o Leaves(items[i].inner) \o <<CloseBrace>>
    ELSE LeafTokens(items[i])]) \o <<CloseBrace>>

\* The unity file that StartFile adds when its folder begins.
UnityFile(n) == <<"unity.cpp", "added", n>>

FolderInit ==
  /\ tree \in Trees
  /\ outer \in Outer
  /\ text = Tokens(tree)
  /\ at = 1
  /\ folders = <<[active |-> << >>, bUnity |-> outer = "$Unity"]>>
  /\ unitySeen = IF outer = "$Unity" THEN 1 ELSE 0
  /\ unityStack = IF outer = "$Unity" THEN <<1>> ELSE << >>
  /\ pending = NothingPending
  /\ reading = FALSE
  /\ had = FALSE
  /\ facts = IF outer = "$Unity" THEN {UnityFile(1)} ELSE {}

-----------------------------------------------------------------------------
Keyword(words) ==
  /\ folders # << >>
  /\ pending = NothingPending
  /\ text[at].word \in words

\* The elements of s at the positions in P.
KeepAt(s, P) ==
  LET kept[k \in 0..Len(s)] ==
        IF k = 0 THEN << >>
        ELSE IF k \in P THEN Append(kept[k - 1], s[k]) ELSE kept[k - 1]
  IN kept[Len(s)]

(***************************************************************************)
(* The check for missing files: files.Remove(i) moves the next file to     *)
(* position i, and the loop goes on with i + 1, which skips that file.     *)
(***************************************************************************)
CheckFiles(files) ==
  LET skipped[k \in 0..Len(files)] ==
        IF k = 0 THEN FALSE ELSE k > 1 /\ files[k - 1] \in Missing /\ ~skipped[k - 1]
  IN KeepAt(files, {k \in DOMAIN files : skipped[k] \/ files[k] \notin Missing})

\* A condition that is false takes the file before it out of the list.
NamesWith(list, conditions) ==
  LET chosen == KeepAt(list, {i \in DOMAIN list : list[i].cond \in conditions})
  IN [i \in DOMAIN chosen |-> chosen[i].name]

Plain(list) == \A i \in DOMAIN list : list[i].cond = "none"

\* SkipBracedSection: the position after the brace that closes the one at i.
AfterSection(i) ==
  1 + CHOOSE j \in i..Len(text) :
        text[j] = CloseBrace /\ \A l \in i..(j - 1) : text[l] # CloseBrace

\* VPC_Keyword_AddFile up to its loop over the files.
AddFiles ==
  /\ Keyword(FileWords)
  /\ LET token == text[at]
         listed == NamesWith(token.list, {"none", "true"})
         files == IF token.word = "$DynamicFile" THEN listed ELSE CheckFiles(listed)
         section == text[at + 1] = OpenBrace
         start == IF section THEN at + 2 ELSE at + 1
     IN IF files = << >> /\ section
        THEN at' = AfterSection(at + 1) /\ UNCHANGED <<pending, facts>>
        ELSE /\ facts' = facts \cup
                  {<<f, "excluded", 0>> : f \in ToSet(NamesWith(token.list, {"false"}))}
             /\ pending' = [files |-> files, k |-> 1, start |-> start, section |-> section,
                            plain |-> Plain(token.list)]
             /\ at' = start
  /\ UNCHANGED <<tree, outer, text, folders, unitySeen, unityStack, reading, had>>

TheFile == pending.files[pending.k]
NextFile == [pending EXCEPT !.k = @ + 1]
Configured(f, confs) == {<<f, "configured", c>> : c \in ToSet(confs)}
\* Slip: the settings of the folder are given to every file.
FolderSettingsAlways(f, hadSection) == Configured(f, Last(folders).active)

FolderSettings(f, hadSection) ==
  IF hadSection THEN {} ELSE Configured(f, Last(folders).active)

Work == pending # NothingPending /\ ~reading /\ pending.k <= Len(pending.files)

\* "did not resolve to an existing file, skipping!": the section stays unread.
SkipUnresolved ==
  /\ Work
  /\ TheFile \in Unresolved
  /\ pending' = NextFile
  /\ UNCHANGED <<tree, outer, text, at, folders, unitySeen, unityStack, reading, had, facts>>

InUnity == unityStack # << >> /\ TheFile \in Source /\ ~pending.section /\ pending.plain

ExcludeForUnity ==
  /\ Work
  /\ TheFile \notin Unresolved
  /\ InUnity
  /\ facts' = facts \cup {<<TheFile, "added", 0>>, <<TheFile, "excluded", 0>>,
                          <<TheFile, "unity", Last(unityStack)>>}
  /\ pending' = NextFile
  /\ UNCHANGED <<tree, outer, text, at, folders, unitySeen, unityStack, reading, had>>

StepSettings(f) == IF f \in Stepped THEN Configured(f, <<"step">>) ELSE {}

(***************************************************************************)
(* A file that is built: its custom build step is parsed from a script of  *)
(* its own, then the section from its start; had is reset when the section *)
(* is read, so that the build step does not count then.                    *)
(***************************************************************************)
AddFile ==
  /\ Work
  /\ TheFile \notin Unresolved
  /\ ~InUnity
  /\ facts' = facts \cup {<<TheFile, "added", 0>>} \cup StepSettings(TheFile)
                    \cup IF pending.section THEN {}
                         ELSE FolderSettings(TheFile, TheFile \in Stepped)
  /\ reading' = pending.section
  /\ had' = (TheFile \in Stepped /\ ~pending.section)
  /\ at' = IF pending.section \/ TheFile \in Stepped THEN pending.start ELSE at
  /\ pending' = IF pending.section THEN pending ELSE NextFile
  /\ UNCHANGED <<tree, outer, text, folders, unitySeen, unityStack>>

\* VPC_ParseFileSection at a $Configuration.
ReadConfiguration ==
  /\ reading
  /\ text[at].word = "$Configuration"
  /\ facts' = facts \cup Configured(TheFile, text[at].conf)
  /\ had' = TRUE
  /\ at' = at + 1
  /\ UNCHANGED <<tree, outer, text, folders, unitySeen, unityStack, pending, reading>>

\* VPC_ParseFileSection at its brace, and what is left to do for the file.
EndSection ==
  /\ reading
  /\ text[at] = CloseBrace
  /\ facts' = facts \cup FolderSettings(TheFile, had)
  /\ reading' = FALSE
  /\ pending' = NextFile
  /\ at' = at + 1
  /\ UNCHANGED <<tree, outer, text, folders, unitySeen, unityStack, had>>

EndFiles ==
  /\ pending # NothingPending
  /\ pending.k > Len(pending.files)
  /\ pending' = NothingPending
  /\ UNCHANGED <<tree, outer, text, at, folders, unitySeen, unityStack, reading, had, facts>>

\* VPC_Keyword_FolderConfiguration: for the files that follow in the folder.
FolderConfiguration ==
  /\ Keyword({"$Configuration"})
  /\ folders' = [folders EXCEPT ![Len(folders)].active = text[at].conf]
  /\ at' = at + 1
  /\ UNCHANGED <<tree, outer, text, unitySeen, unityStack, pending, reading, had, facts>>

\* VPC_Keyword_Folder, with the configuration that is active in its parent.
OpenFolder ==
  /\ Keyword(FolderWords)
  /\ LET bUnity == text[at].word = "$Unity"
     IN /\ folders' = Append(folders, [active |-> Last(folders).active, bUnity |-> bUnity])
        /\ unitySeen' = IF bUnity THEN unitySeen + 1 ELSE unitySeen
        /\ unityStack' = IF bUnity THEN Append(unityStack, unitySeen') ELSE unityStack
        /\ facts' = IF bUnity THEN facts \cup {UnityFile(unitySeen')} ELSE facts
  /\ at' = at + 2
  /\ UNCHANGED <<tree, outer, text, pending, reading, had>>

\* Slip: the unity file of the folder stays the current one.
CloseKeepsUnity ==
  /\ Keyword({"}"})
  /\ folders' = Front(folders)
  /\ at' = at + 1
  /\ UNCHANGED <<tree, outer, text, unitySeen, unityStack, pending, reading, had, facts>>

CloseFolder ==
  /\ Keyword({"}"})
  /\ folders' = Front(folders)
  /\ unityStack' = IF Last(folders).bUnity THEN Front(unityStack) ELSE unityStack
  /\ at' = at + 1
  /\ UNCHANGED <<tree, outer, text, unitySeen, pending, reading, had, facts>>

FolderRead == folders = << >> /\ UNCHANGED folderVars

FolderNext ==
  \/ AddFiles \/ SkipUnresolved \/ ExcludeForUnity \/ AddFile
  \/ ReadConfiguration \/ EndSection \/ EndFiles
  \/ FolderConfiguration \/ OpenFolder \/ CloseFolder
  \/ FolderRead

FolderSpec == FolderInit /\ [][FolderNext]_folderVars

-----------------------------------------------------------------------------
(***************************************************************************)
(* What the items say, read as a tree: no position, nothing to restore.    *)
(***************************************************************************)
ActiveAt(items, i, inherited) ==
  LET before == {j \in 1..(i - 1) : items[j].word = "$Configuration"}
  IN IF before = {} THEN inherited
     ELSE items[CHOOSE j \in before : \A l \in before : l <= j].confs

\* The files of an item that are there, as a check of each of them finds.
Existing(item) ==
  LET listed == ToSet(NamesWith(item.list, {"none", "true"}))
  IN IF item.word = "$DynamicFile" THEN listed ELSE listed \ Missing

FileFacts(f, item, active, unity) ==
  IF f \in Unresolved THEN {}
  ELSE IF unity # 0 /\ f \in Source /\ ~item.section /\ Plain(item.list)
  THEN {<<f, "added", 0>>, <<f, "excluded", 0>>, <<f, "unity", unity>>}
  ELSE {<<f, "added", 0>>} \cup StepSettings(f) \cup Configured(f, item.confs)
         \cup IF item.confs # << >> \/ (f \in Stepped /\ ~item.section) THEN {}
              ELSE Configured(f, active)

ItemFacts(item, active, unity) ==
  LET files == Existing(item)
  IN IF item.word \notin FileWords \/ (files = {} /\ item.section) THEN {}
     ELSE {<<f, "excluded", 0>> : f \in ToSet(NamesWith(item.list, {"false"}))}
            \cup UNION {FileFacts(f, item, active, unity) : f \in files}

ItemsFacts(items, inherited, unity) ==
  UNION {ItemFacts(items[i], ActiveAt(items, i, inherited), unity) : i \in DOMAIN items}

Meant ==
  LET isUnity(w) == IF w = "$Unity" THEN 1 ELSE 0
      unity == isUnity(outer)
      number(i) == unity + Cardinality({j \in 1..i : tree[j].word = "$Unity"})
      ofFolder(i) == IF tree[i].word = "$Unity" THEN number(i) ELSE unity
  IN {UnityFile(n) : n \in 1..number(Len(tree))} \cup ItemsFacts(tree, << >>, unity) \cup
     UNION {ItemsFacts(tree[i].inner, ActiveAt(tree, i, << >>), ofFolder(i)) :
              i \in DOMAIN tree}

AllItems == ToSet(tree) \cup UNION {ToSet(tree[i].inner) : i \in DOMAIN tree}

\* A section none of whose files is resolved.
SectionUnread(item) ==
  item.word \in FileWords /\ item.section /\ Existing(item) # {}
    /\ Existing(item) \subseteq Unresolved

\* A list with a missing file right after another.
MissingTwice(item) ==
  LET listed == NamesWith(item.list, {"none", "true"})
  IN item.word = "$File"
       /\ \E i \in 1..(Len(listed) - 1) : listed[i] \in Missing /\ listed[i + 1] \in Missing

FolderTypeOK ==
  /\ at \in 1..(Len(text) + 1)
  /\ Len(folders) <= 2
  /\ Len(unityStack) <= Len(folders)
  /\ unityStack \in Seq(1..unitySeen)
  /\ pending = NothingPending \/ pending.k \in 1..(Len(pending.files) + 1)
  /\ reading => pending # NothingPending /\ pending.section
  /\ had \in BOOLEAN

(***************************************************************************)
(* Every file gets the settings of its own section, or those of its folder *)
(* at that place when it has none, and no others; it is added, left out or *)
(* put into the unity file of its own folder.  The section is parsed once  *)
(* per file from a position that is restored, folders end and files are    *)
(* skipped in between, and what one of them leaves in the parser must not  *)
(* reach the next.  Exempt are the two lists that the code mishandles.     *)
(***************************************************************************)
SettingsReachOwnFiles ==
  folders = << >> /\ ~(\E item \in AllItems : SectionUnread(item) \/ MissingTwice(item))
    => facts = Meant

(***************************************************************************)
(* A folder ends at its own brace: between the braces of the text and the  *)
(* folders that are open there is never a difference, unless a section was *)
(* left unread.                                                            *)
(***************************************************************************)
BracesBefore(i, brace) == Cardinality({j \in 1..(i - 1) : text[j] = brace})

FoldersMatchBraces ==
  pending = NothingPending /\ ~(\E item \in AllItems : SectionUnread(item)) =>
    Len(folders) = 1 + BracesBefore(at, OpenBrace) - BracesBefore(at, CloseBrace)

(***************************************************************************)
(* Folders are read as they are written: files get the settings meant for  *)
(* them, and every brace ends what it began.                               *)
(***************************************************************************)
FoldersReadAsWritten == SettingsReachOwnFiles /\ FoldersMatchBraces
=============================================================================
