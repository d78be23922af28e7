---------------------------- MODULE ProjectFiles ----------------------------
(***************************************************************************)
(* The files of a project while its script is parsed, kept three times:    *)
(* the folders of the .vcproj generator, which are what is saved, its      *)
(* dictionary of all files, and the files of the base collector, which the *)
(* makefile and CodeLite generators save instead (CVCProjGenerator,        *)
(* CProjectFolder and CBaseProjectDataCollector of src/utils/vpc).         *)
(*                                                                         *)
(* A CProjectFile is an object: [name, id].  Folders are paths.  A script  *)
(* may open a folder again, list a file again and remove it (-$File) from  *)
(* within any folder.                                                      *)
(***************************************************************************)
EXTENDS Naturals, FiniteSets, SequencesExt

CONSTANTS FileName,    \* names of files, compared without case
          BaseName,    \* V_GetFileName of a name, as a number that sorts alike
          FolderName,
          MaxDepth,    \* bound on folders in folders
          MaxObjects   \* bound on the CProjectFiles that are made

ASSUME ProjectFilesAssumption ==
  /\ BaseName \in [FileName -> Nat]
  /\ MaxDepth \in Nat
  /\ MaxObjects \in Nat

FolderPath == UNION {[1..n -> FolderName] : n \in 0..MaxDepth}
ProjectFile == [name : FileName, id : 1..MaxObjects]

VARIABLES
  legacy,      \* PS3: files are not sorted
  openFolder,  \* m_spFolderStack: its top, as a path
  inFolder,    \* m_Files of every folder
  dictionary,  \* m_FileDictionary
  collected,   \* m_Files of the base collector: how often it has each name
  objects,     \* CProjectFiles made so far
  strayed      \* names that were removed from within another folder

filesVars == <<legacy, openFolder, inFolder, dictionary, collected, objects, strayed>>

FilesInit ==
  /\ legacy \in BOOLEAN
  /\ openFolder = << >>
  /\ inFolder = [p \in FolderPath |-> << >>]
  /\ dictionary = {}
  /\ collected = [n \in FileName |-> 0]
  /\ objects = 0
  /\ strayed = {}

-----------------------------------------------------------------------------
\* StartFolder adds the folder, or finds the one of that name.
StartFolder ==
  /\ Len(openFolder) < MaxDepth
  /\ \E f \in FolderName : openFolder' = Append(openFolder, f)
  /\ UNCHANGED <<legacy, inFolder, dictionary, collected, objects, strayed>>

EndFolder ==
  /\ openFolder # << >>
  /\ openFolder' = Front(openFolder)
  /\ UNCHANGED <<legacy, inFolder, dictionary, collected, objects, strayed>>

\* CProjectFolder::AddFile: before the first file that sorts after it.
InsertFile(files, file) ==
  LET after == {i \in DOMAIN files : BaseName[file.name] < BaseName[files[i].name]}
  IN IF legacy \/ after = {} THEN Append(files, file)
     ELSE InsertAt(files, CHOOSE i \in after : \A j \in after : i <= j, file)

InDictionary(name) == \E file \in dictionary : file.name = name

\* CBaseProjectDataCollector::StartFile: m_Files takes a name any number of times.
Collected(name) == [collected EXCEPT ![name] = @ + 1]

\* Slip: every file is new.
StartNewFile(name) ==
  /\ collected' = Collected(name)
  /\ LET file == [name |-> name, id |-> objects + 1]
     IN /\ inFolder' = [inFolder EXCEPT ![openFolder] = InsertFile(@, file)]
        /\ dictionary' = dictionary \cup {file}
        /\ objects' = objects + 1
  /\ UNCHANGED <<legacy, openFolder, strayed>>

\* StartFile and EndFile: a name in the dictionary is "already present".
StartFile(name) ==
  /\ collected' = Collected(name)
  /\ IF InDictionary(name)
     THEN UNCHANGED <<inFolder, dictionary, objects>>
     ELSE LET file == [name |-> name, id |-> objects + 1]
          IN /\ inFolder' = [inFolder EXCEPT ![openFolder] = InsertFile(@, file)]
             /\ dictionary' = dictionary \cup {file}
             /\ objects' = objects + 1
  /\ UNCHANGED <<legacy, openFolder, strayed>>

AddFileHere ==
  /\ objects < MaxObjects
  /\ \E name \in FileName : collected[name] < MaxObjects /\ StartFile(name)

\* CProjectFolder::RemoveFile: the first file of the name, which is deleted.
Without(files, name) ==
  LET found == SelectInSeq(files, LAMBDA file : file.name = name)
  IN IF found = 0 THEN files ELSE RemoveAt(files, found)

\* Slip: the collector takes an entry off that it does not have.
ForgottenAnyway(name) == [collected EXCEPT ![name] = @ - 1]

Forgotten(name) == [collected EXCEPT ![name] = IF @ = 0 THEN 0 ELSE @ - 1]

(***************************************************************************)
(* RemoveFile: the collector forgets one entry of the name.  The file goes *)
(* from the dictionary wherever it is, and from the folder that is open if *)
(* it is there.                                                            *)
(***************************************************************************)
RemoveFile(name) ==
  /\ collected' = Forgotten(name)
  /\ dictionary' = {file \in dictionary : file.name # name}
  /\ inFolder' = IF InDictionary(name)
                 THEN [inFolder EXCEPT ![openFolder] = Without(@, name)]
                 ELSE inFolder
  /\ strayed' = strayed \cup
       {file.name : file \in {f \in dictionary : f.name = name
                                /\ f \notin ToSet(inFolder[openFolder])}}
  /\ UNCHANGED <<legacy, openFolder, objects>>

RemoveFileHere == \E name \in FileName : RemoveFile(name)

FilesNext == StartFolder \/ EndFolder \/ AddFileHere \/ RemoveFileHere

FilesSpec == FilesInit /\ [][FilesNext]_filesVars

-----------------------------------------------------------------------------
FilesTypeOK ==
  /\ legacy \in BOOLEAN
  /\ openFolder \in FolderPath
  /\ inFolder \in [FolderPath -> Seq(ProjectFile)]
  /\ dictionary \subseteq ProjectFile
  /\ collected \in [FileName -> Nat]
  /\ objects \in 0..MaxObjects
  /\ strayed \subseteq FileName

Saved == UNION {ToSet(inFolder[p]) : p \in FolderPath}

(***************************************************************************)
(* Every file of the dictionary is in a folder: an entry whose file was    *)
(* deleted would be handed out for the next $File of its name.  The folder *)
(* deletes the first file of the name, which need not be the entry's own.  *)
(***************************************************************************)
NoDeletedEntry == dictionary \subseteq Saved

(***************************************************************************)
(* A project lists no file twice, the dictionary knows all it lists, and   *)
(* the generators that save what the collector has miss none of them, for  *)
(* the files that were never removed from within another folder than their *)
(* own.                                                                    *)
(***************************************************************************)
ListedOnce ==
  \A name \in FileName \ strayed :
    /\ Cardinality({file \in Saved : file.name = name}) <= 1
    /\ {file \in Saved : file.name = name} \subseteq dictionary
    /\ InDictionary(name) => collected[name] > 0

\* "maintain sorted ascending alphabetic order", "sorted by filename only".
FilesSorted ==
  ~legacy => \A p \in FolderPath : \A i, j \in DOMAIN inFolder[p] :
    i < j => BaseName[inFolder[p][i].name] <= BaseName[inFolder[p][j].name]

(***************************************************************************)
(* The dictionary, the folders and the collector tell the same story: no   *)
(* entry without its file, no file twice, none out of order.               *)
(***************************************************************************)
FilesAccounted == NoDeletedEntry /\ ListedOnce /\ FilesSorted
=============================================================================
