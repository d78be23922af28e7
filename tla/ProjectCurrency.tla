-------------------------- MODULE ProjectCurrency --------------------------
(***************************************************************************)
(* When a project file is taken for current: IsProjectCurrent and          *)
(* VPC_CheckProjectDependencyCRCs compare the scripts with the CRCs that   *)
(* the last generation left beside the project file, and ParseProjectScript*)
(* reads the scripts, saves the project and writes the CRCs                *)
(* (src/utils/vpc/projectscript.cpp, vpc.cpp, projectgenerator_*.cpp,      *)
(* src/utils/vpccrccheck/crccheck_shared.cpp).                             *)
(*                                                                         *)
(* A CRC stands for the contents it is taken from.  Contents never repeat: *)
(* an edit gives a script, or the program itself, a new number.  The       *)
(* program is not replaced while it runs.  A script is taken to name its   *)
(* project, which saves it, after everything it includes.                  *)
(***************************************************************************)
EXTENDS Integers, Sequences, IncludeGraph

CONSTANTS
  Script,      \* paths of scripts
  Root,        \* the project's own script
  Definition,  \* the file that defines the generator, which no script includes
  Scenario,    \* what can happen in a behaviour:
               \*   mayInclude: the $include lists an edit can give a script
               \*   options:    supplemental strings a project is built with
               \*   acts:       what the user does besides editing: "force" (/f),
               \*               "delete" outputs, "race": edit during a run
               \*   faults:     "source" files missing, a crash in "save", inside
               \*               the "header" of the CRC file, or inside its "lines"
  MaxEdits,    \* bound on edits
  NoFile,      \* a file that is not there
  Torn         \* a file whose writing was interrupted

ASSUME CurrencyAssumption ==
  /\ Root \in Script
  /\ Definition \in Script \ {Root}
  /\ \A c \in Scenario :
       /\ c.mayInclude \in [Script -> SUBSET Seq(Script \ {Definition})]
       /\ c.acts \subseteq {"force", "delete", "race"}
       /\ c.faults \subseteq {"source", "save", "header", "lines"}
  /\ MaxEdits \in Nat

Content == [text : 0..MaxEdits,
            includes : UNION {c.mayInclude[s] : c \in Scenario, s \in Script}]
Option == UNION {c.options : c \in Scenario}
Line == Script \X Content

\* A project file: what it was generated from, and whether no source file was
\* missing.
GeneratedFile == [options : Option, exe : 0..MaxEdits, from : SUBSET Line, whole : BOOLEAN]

\* A CRC file: how many header lines it has, what they say, and the script lines.
CheckFile == [header : 0..3, exe : 0..MaxEdits, options : Option, lines : Seq(Line)]

ASSUME FileAssumption ==
  NoFile \notin GeneratedFile /\ NoFile \notin CheckFile /\ NoFile # Torn

VARIABLES
  scenario, \* what can happen (never changes)
  script,   \* the scripts on disk
  exe,      \* the program on disk
  source,   \* the source files that the scripts name are there
  edits,
  vcxproj,  \* the project file
  filters,  \* the .filters file that is saved after it
  crc,      \* the .vpc_crc file: header lines, then one line per script
  progress, \* "idle", "crc", "parse", "save" or "write"
  options,  \* options of the run
  definition,  \* the definition of the generator that the run has loaded
  todo,     \* scripts still to be read: the one at hand and those due after it
  scriptList, \* m_ScriptList
  parsed,   \* the contents that the parser got
  missing   \* a source file was missing

disk == <<scenario, script, exe, source, edits>>
output == <<vcxproj, filters, crc>>
work == <<options, definition, todo, scriptList, parsed, missing>>
currencyVars == <<disk, output, progress, work>>

CurrencyTypeOK ==
  /\ scenario \in Scenario
  /\ script \in [Script -> Content]
  /\ exe \in 0..MaxEdits
  /\ source \in BOOLEAN
  /\ edits \in 0..MaxEdits
  /\ vcxproj \in GeneratedFile \cup {NoFile, Torn}
  /\ filters \in GeneratedFile \cup {NoFile, Torn}
  /\ crc \in CheckFile \cup {NoFile}
  /\ crc # NoFile =>
       \A j, k \in 1..Len(crc.lines) : crc.lines[j][1] = crc.lines[k][1] => j = k
  /\ progress \in {"idle", "crc", "parse", "save", "write"}
  /\ options \in Option
  /\ definition \in Content
  /\ todo \in Seq(Script)
  /\ scriptList \in Seq(Line)
  /\ parsed \subseteq Line
  /\ missing \in BOOLEAN

CurrencyInit ==
  /\ scenario \in Scenario
  /\ script \in [Script -> Content]
  /\ \A s \in Script :
       script[s].text = 0 /\ script[s].includes \in scenario.mayInclude[s]
  /\ exe = 0
  /\ source = TRUE
  /\ edits = 0
  /\ vcxproj = NoFile
  /\ filters = NoFile
  /\ crc = NoFile
  /\ progress = "idle"
  /\ options \in scenario.options
  /\ definition = script[Definition]
  /\ todo = << >>
  /\ scriptList = << >>
  /\ parsed = {}
  /\ missing = FALSE

-----------------------------------------------------------------------------
(***************************************************************************)
(* The user, who can act between two runs and, if he is in a hurry,        *)
(* between any two steps of one.                                           *)
(***************************************************************************)
Edit ==
  /\ edits < MaxEdits
  /\ progress = "idle" \/ "race" \in scenario.acts
  /\ edits' = edits + 1
  /\ \/ /\ \E s \in Script : \E i \in scenario.mayInclude[s] :
             script' = [script EXCEPT ![s] = [text |-> edits', includes |-> i]]
        /\ UNCHANGED exe
     \/ progress = "idle" /\ exe' = edits' /\ UNCHANGED script
  /\ UNCHANGED <<scenario, source, output, progress, work>>

MoveSource ==
  /\ "source" \in scenario.faults
  /\ source' = ~source
  /\ UNCHANGED <<scenario, script, exe, edits, output, progress, work>>

DeleteOutput ==
  /\ "delete" \in scenario.acts
  /\ vcxproj' \in {vcxproj, NoFile}
  /\ filters' \in {filters, NoFile}
  /\ UNCHANGED <<disk, crc, progress, work>>

(***************************************************************************)
(* VPC_CheckProjectDependencyCRCs.  Reading stops at the first header line *)
(* that is missing; the script lines are checked up to the end of the      *)
(* file, wherever that is.                                                 *)
(***************************************************************************)
CheckCRCs(opts) ==
  /\ crc # NoFile
  /\ crc.header = 3
  /\ crc.exe = exe
  /\ crc.options = opts
  /\ \A k \in 1..Len(crc.lines) : crc.lines[k][2] = script[crc.lines[k][1]]

IsProjectCurrent(opts) == vcxproj # NoFile /\ filters # NoFile /\ CheckCRCs(opts)

\* SetupGenerators loads the definition, and then comes
\* CDefaultProjectIterator::VisitProject, with or without /f.
Start ==
  /\ progress = "idle"
  /\ \E o \in scenario.options, force \in BOOLEAN :
       /\ force => "force" \in scenario.acts
       /\ force \/ ~IsProjectCurrent(o)
       /\ options' = o
  /\ definition' = script[Definition]
  /\ progress' = "crc"
  /\ todo' = <<Root>>
  /\ scriptList' = << >>
  /\ parsed' = {}
  /\ missing' = FALSE
  /\ UNCHANGED <<disk, output>>

\* AddScriptToCRCCheck.
Recorded(s) == \E k \in 1..Len(scriptList) : scriptList[k][1] = s

AddScript(s, contents) ==
  scriptList' = IF Recorded(s)
          THEN [k \in 1..Len(scriptList) |-> IF scriptList[k][1] = s THEN <<s, contents>> ELSE scriptList[k]]
          ELSE Append(scriptList, <<s, contents>>)

(***************************************************************************)
(* VPC_PrepareToReadScript loads a script for its CRC and loads it again   *)
(* for the parser, which then handles its $includes before what follows.   *)
(***************************************************************************)
LoadForCRC ==
  /\ progress = "crc"
  /\ AddScript(Head(todo), script[Head(todo)])
  /\ progress' = "parse"
  /\ UNCHANGED <<disk, output, options, definition, todo, parsed, missing>>

\* Slip: the CRC is taken from the second load, the parser gets the first.
LoadOnce ==
  /\ progress = "parse"
  /\ LET s == Head(todo)
         rest == script[s].includes \o Tail(todo)
     IN  /\ AddScript(s, script[s])
         /\ parsed' = parsed \cup {scriptList[k] : k \in {k \in 1..Len(scriptList) : scriptList[k][1] = s}}
         /\ todo' = rest
         /\ progress' = IF rest = << >> THEN "save" ELSE "crc"
  /\ missing' = (missing \/ ~source)
  /\ UNCHANGED <<disk, output, options, definition>>

LoadAndParse ==
  /\ progress = "parse"
  /\ LET s == Head(todo)
         rest == script[s].includes \o Tail(todo)
     IN  /\ parsed' = parsed \cup {<<s, script[s]>>}
         /\ todo' = rest
         /\ progress' = IF rest = << >> THEN "save" ELSE "crc"
  /\ missing' = (missing \/ ~source)
  /\ UNCHANGED <<disk, output, options, definition, scriptList>>

Generated ==
  [options |-> options, exe |-> exe, whole |-> ~missing,
   from |-> parsed \cup {<<Definition, definition>>}]

(***************************************************************************)
(* EndProject: the definition joins the list of CRCs, and                  *)
(* CProjectGenerator_Win32_2010::Save writes both files in place.          *)
(***************************************************************************)
Save ==
  /\ progress = "save"
  /\ AddScript(Definition, definition)
  /\ vcxproj' = Generated
  /\ filters' = Generated
  /\ progress' = "write"
  /\ UNCHANGED <<disk, crc, options, definition, todo, parsed, missing>>

CrashInSave ==
  /\ "save" \in scenario.faults
  /\ progress = "save"
  /\ AddScript(Definition, definition)
  /\ \/ vcxproj' = Torn /\ UNCHANGED filters
     \/ vcxproj' = Generated /\ filters' = Torn
  /\ progress' = "idle"
  /\ UNCHANGED <<disk, crc, options, definition, todo, parsed, missing>>

\* Slip: the supplemental string is not written.
CRCFileShort(header, lines) ==
  [header |-> 2, exe |-> exe, options |-> options, lines |-> lines]

CRCFile(header, lines) ==
  [header |-> header, exe |-> exe, options |-> options, lines |-> lines]

(***************************************************************************)
(* WriteCRCCheckFile: "don't write crc checks if we're missing files".     *)
(***************************************************************************)
WriteCRCCheckFile ==
  /\ progress = "write"
  /\ crc' = IF missing THEN crc ELSE CRCFile(3, scriptList)
  /\ progress' = "idle"
  /\ UNCHANGED <<disk, vcxproj, filters, work>>

\* fopen empties the file, and its lines follow.
CrashInWrite ==
  /\ progress = "write"
  /\ ~missing
  /\ \E h \in 0..3, k \in 0..Len(scriptList) - 1 :
       /\ h < 3 => k = 0
       /\ IF h < 3 THEN "header" \in scenario.faults ELSE "lines" \in scenario.faults
       /\ crc' = CRCFile(h, SubSeq(scriptList, 1, k))
  /\ progress' = "idle"
  /\ UNCHANGED <<disk, vcxproj, filters, work>>

\* The program is stopped while it reads.
Kill ==
  /\ progress \in {"crc", "parse"}
  /\ progress' = "idle"
  /\ UNCHANGED <<disk, output, work>>

CurrencyNext ==
  \/ Edit \/ MoveSource \/ DeleteOutput
  \/ Start \/ LoadForCRC \/ LoadAndParse \/ Save \/ WriteCRCCheckFile
  \/ CrashInSave \/ CrashInWrite \/ Kill

CurrencySpec == CurrencyInit /\ [][CurrencyNext]_currencyVars

-----------------------------------------------------------------------------
Includes == [s \in Script |-> {script[s].includes[k] : k \in 1..Len(script[s].includes)}]

\* What a generation with these options would write now.
Wanted(opts) ==
  [options |-> opts, exe |-> exe, whole |-> TRUE,
   from |-> {<<s, script[s]>> :
               s \in ReachableFrom({Root}, Includes, Script) \cup {Definition}}]

(***************************************************************************)
(* Where that can be relied on.  A CRC file is not cut off between its     *)
(* lines, which nothing marks.  Where source files can be missing or a Save*)
(* interrupted, which leave the CRC file of the run before, that file may  *)
(* not fit the files on disk again: one set of options, no /f and nothing  *)
(* deleted.  Where scripts are edited during a run, each is read once: no  *)
(* two lists include the same script, and none includes the project's own. *)
(***************************************************************************)
Careful(c) ==
  /\ "lines" \notin c.faults
  /\ c.faults \cap {"source", "save"} # {} =>
       /\ c.acts \cap {"force", "delete"} = {}
       /\ \A o, p \in c.options : o = p
  /\ "race" \in c.acts =>
       \A s, r \in Script : \A i \in c.mayInclude[s], h \in c.mayInclude[r] :
         \A j \in 1..Len(i), k \in 1..Len(h) :
           /\ i[j] # Root
           /\ i[j] = h[k] => s = r /\ (i = h => j = k)

(***************************************************************************)
(* A project that the check lets pass is the one that these scripts and    *)
(* these options give, whatever was edited, deleted, interrupted or left   *)
(* undone before, and while the program was reading.                       *)
(***************************************************************************)
CurrentMeansGenerated ==
  progress = "idle" =>
    \A o \in scenario.options :
      IsProjectCurrent(o) => vcxproj = Wanted(o) /\ filters = Wanted(o)

\* The scripts have not changed since they were read.
Undisturbed == \A line \in parsed \cup {scriptList[k] : k \in 1..Len(scriptList)} :
                 line[2] = script[line[1]]

(***************************************************************************)
(* A generation that nobody disturbed leaves a project that passes, so     *)
(* that the next run does not generate it again.                           *)
(***************************************************************************)
GeneratedIsCurrent ==
  [][WriteCRCCheckFile /\ ~missing /\ Undisturbed /\ NoFile \notin {vcxproj, filters}
       => IsProjectCurrent(options)']_currencyVars
=============================================================================
