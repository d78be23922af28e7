----------------------------- MODULE CRCScript -----------------------------
(***************************************************************************)
(* What the CRC of a script covers.  PerformFileSubstitions looks through  *)
(* each line for the first $FilePattern and adds the names on disk that    *)
(* match it, so that the CRC changes when they do; the project script      *)
(* parser (VPC_Keyword_AddFilesByPattern, VPC_Keyword_AddFile) adds those  *)
(* names to the project                                                    *)
(* (src/utils/vpccrccheck/crccheck_shared.cpp, src/utils/vpc/              *)
(* projectscript.cpp).                                                     *)
(*                                                                         *)
(* The two read the same words differently.  The parser resolves the macros*)
(* of a name and sets its slashes right before it looks at the disk        *)
(* (Resolved); PerformFileSubstitions takes the word as it stands, which   *)
(* with a macro in it matches nothing: the line then stays as it is, with  *)
(* a warning that changes "won't trigger automatic project rebuild".       *)
(*                                                                         *)
(* A line is its words, set off by blanks.  A CRC stands for the text it is*)
(* taken from.  #include, continued lines and what other scripts loaded in *)
(* between do to the static are left out.                                  *)
(***************************************************************************)
EXTENDS Naturals, Sequences, SequencesExt

CONSTANTS
  Pattern,   \* wildcard names
  OsName,    \* names with $os
  DiskFile,  \* files that can be on disk
  Matches,   \* the files a pattern matches or a platform of $os gives, as it stands
  Resolved,  \* the name the parser makes of a name
  CRCScripts \* the scripts to be checked

\* "//" begins a comment.
ScriptWord == {"$file", "$filepattern", "//"} \cup Pattern \cup OsName

\* A keyword is no name.
ASSUME CRCScriptAssumption ==
  /\ (Pattern \cup OsName) \cap {"$file", "$filepattern", "//"} = {}
  /\ Matches \in [Pattern \cup OsName -> SUBSET DiskFile]
  /\ Resolved \in [Pattern \cup OsName -> Pattern \cup OsName]
  /\ CRCScripts \subseteq Seq(Seq(ScriptWord))

VARIABLES
  words,      \* the lines of the script (never change)
  onDisk,     \* files on disk
  searching,  \* the static is_searching_for_file_pattern
  scanned,    \* the text of the lines that this load has read
  purpose,    \* "none", "check" or "generate": what the text is for
  recorded,   \* the text whose CRC the .vpc_crc file has; "none" before
  basis       \* the files that were on disk at the last generation

crcVars == <<words, onDisk, searching, scanned, purpose, recorded, basis>>

CRCTypeOK ==
  /\ words \in CRCScripts
  /\ onDisk \subseteq DiskFile
  /\ searching \in BOOLEAN
  /\ Len(scanned) <= Len(words)
  /\ purpose \in {"none", "check", "generate"}
  /\ recorded = "none" \/ Len(recorded) = Len(words)
  /\ basis \subseteq DiskFile

-----------------------------------------------------------------------------
\* Positions of the $filepattern keyword in a line, comments included.
Keywords(l) == {k \in 1..Len(l) : l[k] = "$filepattern"}

\* The word after the first keyword, or the first word if the keyword ended an
\* earlier line; 0 if there is none.
PatternAt(l) ==
  IF searching THEN IF l = << >> THEN 0 ELSE 1
  ELSE IF Keywords(l) = {} THEN 0
  ELSE LET k == CHOOSE k \in Keywords(l) : \A j \in Keywords(l) : k <= j
       IN  IF k = Len(l) THEN 0 ELSE k + 1

\* Where the name after `$file` is looked for: the line is read from the keyword
\* on, so that GetToken finds the "$" of the keyword itself.
FileAt(l) ==
  LET found == {k \in 1..Len(l) - 1 : l[k] = "$file"}
  IN  IF found = {} THEN 0 ELSE CHOOSE k \in found : \A j \in found : k <= j

\* What is on disk for the word at k as it stands, if it is one of these names.
FoundOnDisk(l, k, names) == IF k # 0 /\ l[k] \in names THEN Matches[l[k]] \cap onDisk ELSE {}

TextOfLine(l) ==
  [line |-> l,
   found |-> FoundOnDisk(l, FileAt(l), OsName) \cup FoundOnDisk(l, PatternAt(l), Pattern)]

\* Slip: a pattern that is found does not end the search.
SearchesOn(l) == searching \/ Keywords(l) # {}

StillSearching(l) == (searching \/ Keywords(l) # {}) /\ PatternAt(l) = 0

(***************************************************************************)
(* What the parser takes from the disk: every pattern after $FilePattern,  *)
(* every $os name after $File, up to a comment, all of them resolved.      *)
(***************************************************************************)
Before(l, k) == \A j \in 1..k - 1 : l[j] # "//"

Arguments(l, keyword, names) ==
  IF l # << >> /\ Head(l) = keyword
  THEN {Resolved[l[k]] : k \in {k \in 2..Len(l) : l[k] \in names /\ Before(l, k)}} ELSE {}

NamesTaken ==
  UNION {Arguments(words[i], "$filepattern", Pattern) \cup Arguments(words[i], "$file", OsName) :
           i \in 1..Len(words)}

Unchanged(names) == \A n \in names : Matches[n] \cap basis = Matches[n] \cap onDisk

-----------------------------------------------------------------------------
CRCInit ==
  /\ words \in CRCScripts
  /\ onDisk \in SUBSET DiskFile
  /\ searching = FALSE
  /\ scanned = << >>
  /\ purpose = "none"
  /\ recorded = "none"
  /\ basis = {}

\* Files come and go between two runs of the program, and the next run is
\* another process.
NextRun ==
  /\ purpose = "none"
  /\ onDisk' \in SUBSET DiskFile
  /\ searching' = FALSE
  /\ UNCHANGED <<words, scanned, purpose, recorded, basis>>

\* VPC_CheckProjectDependencyCRCs loads the scripts that the CRC file names.
Check ==
  /\ purpose = "none"
  /\ purpose' = IF recorded = "none" THEN "generate" ELSE "check"
  /\ scanned' = << >>
  /\ UNCHANGED <<words, onDisk, searching, recorded, basis>>

Scan ==
  /\ purpose # "none"
  /\ Len(scanned) < Len(words)
  /\ LET l == words[Len(scanned) + 1]
     IN  scanned' = Append(scanned, TextOfLine(l)) /\ searching' = StillSearching(l)
  /\ UNCHANGED <<words, onDisk, purpose, recorded, basis>>

Scanned == purpose # "none" /\ Len(scanned) = Len(words)

\* The project is current, or is generated, which loads the script again.
EndCheck ==
  /\ Scanned
  /\ purpose = "check"
  /\ purpose' = IF scanned = recorded THEN "none" ELSE "generate"
  /\ scanned' = << >>
  /\ UNCHANGED <<words, onDisk, searching, recorded, basis>>

EndGenerate ==
  /\ Scanned
  /\ purpose = "generate"
  /\ recorded' = scanned
  /\ basis' = onDisk
  /\ purpose' = "none"
  /\ scanned' = << >>
  /\ UNCHANGED <<words, onDisk, searching>>

CRCNext == NextRun \/ Check \/ Scan \/ EndCheck \/ EndGenerate

CRCSpec == CRCInit /\ [][CRCNext]_crcVars

-----------------------------------------------------------------------------
\* A line whose only keyword is its last word: the search goes on in the next line.
Opens(l) == Keywords(l) = {Len(l)}

\* A search may be on when line i is read: nothing but empty lines follow the line
\* that opened it, to line i or over the end of the script into its next load.
OpenBefore(i) ==
  \E j \in 1..Len(words) :
    /\ Opens(words[j])
    /\ \A k \in 1..Len(words) :
         (IF j < i THEN j < k /\ k < i ELSE j < k \/ k < i) => words[k] = << >>

\* The patterns that come right after the keyword of their line and mean the same to
\* the parser, in lines that no open search reaches.
FirstPatterns ==
  {words[i][2] : i \in {i \in 1..Len(words) :
     /\ Len(words[i]) > 1 /\ words[i][1] = "$filepattern" /\ words[i][2] \in Pattern
     /\ Resolved[words[i][2]] = words[i][2]
     /\ ~OpenBefore(i)}}

\* The check lets the project pass.
LetsPass == EndCheck /\ purpose' = "none"

(***************************************************************************)
(* A project that the CRC lets pass has the files that the first pattern   *)
(* of a $FilePattern matches now, whatever the other lines of its script   *)
(* are: if the pattern has no macro and no search that an earlier line     *)
(* left open takes another word of its line for the pattern.               *)
(***************************************************************************)
PatternsNoticed == [][LetsPass => Unchanged(FirstPatterns)]_crcVars

(***************************************************************************)
(* A check that finds the disk as the generation left it lets the project  *)
(* pass, if the script does not end with a search that its next load would *)
(* begin with: what the static carries from line to line is the same in    *)
(* both loads.                                                             *)
(***************************************************************************)
SameDiskIsCurrent ==
  [][EndCheck /\ ~OpenBefore(1) /\ basis = onDisk => purpose' = "none"]_crcVars

(***************************************************************************)
(* The CRC of a script follows the files of these patterns: it lets a      *)
(* project pass when they are the same, and only then.                     *)
(***************************************************************************)
CRCFollowsDisk == PatternsNoticed /\ SameDiskIsCurrent

(***************************************************************************)
(* projectscript.cpp: VPC loads a script "with the file expansions to      *)
(* compute it's CRC, so we notice if new matching files appear on disk and *)
(* regenerate the project correctly": a project that the CRC lets pass has *)
(* the files that its script names now.  The code does not keep it for     *)
(* $os names and second patterns, for patterns with macros, nor where a    *)
(* search is open.                                                         *)
(***************************************************************************)
NewFilesNoticed == [][LetsPass => Unchanged(NamesTaken)]_crcVars
=============================================================================
