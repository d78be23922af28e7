---------------------------- MODULE MCGeneration ----------------------------
(***************************************************************************)
(* What a run of VPC writes and what the next one makes of it: the cache   *)
(* file, the files of a project, the script text of the CRC, the projects  *)
(* up to the solution, and the project file with its CRCs, with their      *)
(* instances. part says which one a behaviour is about; the others keep    *)
(* one initial state.                                                      *)
(***************************************************************************)
EXTENDS CacheFormat, ProjectFiles, CRCScript, MCSolutionRun,
        MCProjectCurrency

CONSTANT Parts

VARIABLE part

-----------------------------------------------------------------------------
(***************************************************************************)
(* Two files in the cache, one with a name longer than the excess of intp  *)
(* over int, up to two dependencies each, and every prefix of every file.  *)
(***************************************************************************)
FormatStart(chosen) ==
  (~chosen => saved = << >> /\ file = SaveCache(<< >>)) /\ FormatInit

MCNames == {<<97>>, <<99, 46, 104, 112, 112>>}

-----------------------------------------------------------------------------
(***************************************************************************)
(* Three files, two of which sort alike, in the project itself and in one  *)
(* folder of it.                                                           *)
(***************************************************************************)
MCBaseName == [n \in FileName |-> IF n = "b" THEN 2 ELSE 1]

FilesStart(chosen) == (~chosen => legacy = FALSE) /\ FilesInit

-----------------------------------------------------------------------------
(***************************************************************************)
(* Scripts of up to two lines, with two patterns, one more that is the     *)
(* first behind a macro, and one $os name; and scripts in which a search   *)
(* goes over an empty line.                                                *)
(***************************************************************************)
MCMatches == [n \in Pattern \cup OsName |->
                CASE n = "p" -> {"p1", "p2"} [] n = "q" -> {"q1"} [] n = "$m" -> {}
                  [] OTHER -> {"o1"}]

MCResolved == [n \in Pattern \cup OsName |-> IF n = "$m" THEN "p" ELSE n]

LOCAL Lines ==
  {<< >>, <<"q">>, <<"$filepattern">>, <<"$filepattern", "p">>, <<"$filepattern", "p", "q">>,
   <<"$filepattern", "q", "//", "$filepattern">>, <<"//", "$filepattern">>, <<"$file", "o">>,
   <<"$file", "//", "$filepattern", "p">>, <<"$filepattern", "$m">>}

MCCRCScripts ==
  BoundedSeq(Lines, 2)
    \cup {<<opening, << >>, line>> : opening \in {<<"$filepattern">>, <<"//", "$filepattern">>},
                                    line \in {<<"q">>, <<"$filepattern", "p">>}}

(***************************************************************************)
(* One script each for the names of which the CRC text has no files.       *)
(* MCDiskNames.cfg takes the first; each of the others violates            *)
(* NewFilesNoticed in its place.                                           *)
(***************************************************************************)
OsScript == {<<<<"$file", "o">>>>}
SecondPatternScript == {<<<<"$filepattern", "p", "q">>>>}
MacroScript == {<<<<"$filepattern", "$m">>>>}
OpenScript == {<<<<"//", "$filepattern">>, <<"$filepattern", "p">>>>}

CRCStart(chosen) == (~chosen => words = << >> /\ onDisk = {}) /\ CRCInit

-----------------------------------------------------------------------------
\* The idle parts first, which have one state each.
MCInit ==
  /\ part \in Parts
  /\ part # "format" => FormatStart(FALSE)
  /\ part # "files" => FilesStart(FALSE)
  /\ part # "crc" => CRCStart(FALSE)
  /\ part # "solution" => RunStart(FALSE)
  /\ part # "currency" => CurrencyStart(FALSE)
  /\ part = "format" => FormatStart(TRUE)
  /\ part = "files" => FilesStart(TRUE)
  /\ part = "crc" => CRCStart(TRUE)
  /\ part = "solution" => RunStart(TRUE)
  /\ part = "currency" => CurrencyStart(TRUE)

Formatting == part = "format" /\ FormatNext
Filing == part = "files" /\ FilesNext
Covering == part = "crc" /\ CRCNext
Running == part = "solution" /\ RunNext
Generating == part = "currency" /\ CurrencyNext

MCNext ==
  /\ \/ Formatting /\ UNCHANGED <<filesVars, crcVars, runVars, currencyVars>>
     \/ Filing /\ UNCHANGED <<formatVars, crcVars, runVars, currencyVars>>
     \/ Covering /\ UNCHANGED <<formatVars, filesVars, runVars, currencyVars>>
     \/ Running /\ UNCHANGED <<formatVars, filesVars, crcVars, currencyVars>>
     \/ Generating /\ UNCHANGED <<formatVars, filesVars, crcVars, runVars>>
  /\ UNCHANGED part

generationVars == <<formatVars, filesVars, crcVars, runVars, currencyVars>>

MCSpec == MCInit /\ [][MCNext]_<<part, generationVars>>

(***************************************************************************)
(* What a run writes and reads again keeps its types.                      *)
(***************************************************************************)
GenerationTypeOK ==
  /\ FormatTypeOK /\ FilesTypeOK /\ CRCTypeOK /\ RunTypeOK /\ CurrencyTypeOK
=============================================================================
