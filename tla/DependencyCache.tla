-------------------------- MODULE DependencyCache --------------------------
(***************************************************************************)
(* The life of vpc.cache over several runs of the program: what a run of   *)
(* CProjectDependencyGraph::BuildProjectDependencies with the full         *)
(* dependency set reads from it, how CSingleProjectScanner completes it,   *)
(* and what SaveCache leaves for the next run                              *)
(* (src/utils/vpc/dependencies.cpp).                                       *)
(*                                                                         *)
(* The files on disk belong to others: they are edited, deleted and        *)
(* created between any two steps, in the middle of a run too.  A file is   *)
(* its version; the size and time that _stat reports stand for the version *)
(* (an edit that changes neither cannot be seen by this code).             *)
(*                                                                         *)
(* One step is one file parsed, one #include looked up, one cache record   *)
(* written.  LoadCache is one step: CacheInvalidation shows what its loops *)
(* leave.                                                                  *)
(***************************************************************************)
EXTENDS Integers, Sequences, SourceFiles

CONSTANTS
  Roots,        \* the files that the project's script lists
  MaxVersion,   \* bound on the edits of one file
  Candidates    \* [f][v]: the paths tried for the #includes of version v of f

ASSUME RootsAssumption == Roots \subseteq Source
ASSUME MaxVersionAssumption == MaxVersion \in Nat \ {0}
ASSUME CandidatesAssumption == Candidates \in [File -> [1..MaxVersion -> SUBSET File]]

NotYet == 0                \* the file does not exist yet
Gone == MaxVersion + 1     \* the file was deleted, for good
NoStamp == -1              \* a record cut off before its size and time

Stamp == NotYet..Gone

Record == [name : Source, stamp : Stamp \cup {NoStamp}, deps : SUBSET File]

VARIABLES
  disk,       \* version of every file
  late,       \* files created since the includes of an entry were looked for (history)
  cacheLate,  \* the same for the record of a file (history)
  quiet,      \* the disk has not changed since this run began (history)
  readable,   \* vpc.cache exists and begins with the right version number
  cache,      \* the records it holds
  torn,       \* they, or the entries in memory, go back to a cache that was cut
              \* off after its first record had begun (history)
  phase,      \* "idle", "scan" or "save"
  entries,    \* m_AllFiles
  stamp,      \* m_nCacheFileSize and m_nCacheModificationTime of an entry
  deps,       \* m_Dependencies of an entry
  checked,    \* entries with m_bCheckedIncludes set
  project,    \* m_Dependencies of the CDependency_Project
  toScan,     \* files of the script that SetupFilesList has not reached
  scanStack,  \* the pending calls of AddIncludesForFile
  calling,    \* the argument of a call that starts, as a set
  toSave      \* entries SaveCache has not reached

environment == <<disk, quiet>>
saved == <<readable, cache, torn>>
memory == <<entries, stamp, deps, checked, project>>
control == <<toScan, scanStack, calling, toSave>>
lateness == <<late, cacheLate>>
cacheVars == <<environment, saved, phase, memory, control, lateness>>

ScanFrame == [node : File, todo : SUBSET File]

CacheTypeOK ==
  /\ disk \in [File -> Stamp]
  /\ late \in [File -> SUBSET File]
  /\ cacheLate \in [File -> SUBSET File]
  /\ quiet \in BOOLEAN
  /\ readable \in BOOLEAN
  /\ cache \in SUBSET Record
  /\ torn \in BOOLEAN
  /\ phase \in {"idle", "scan", "save"}
  /\ entries \in SUBSET File
  /\ stamp \in [File -> Stamp]
  /\ deps \in [File -> SUBSET entries]
  /\ checked \in SUBSET entries
  /\ project \in SUBSET entries
  /\ toScan \in SUBSET Roots
  /\ scanStack \in Seq(ScanFrame)
  /\ calling \in SUBSET entries
  /\ toSave \in SUBSET entries

-----------------------------------------------------------------------------
Exists(f) == disk[f] \in 1..MaxVersion

\* Sys_FileInfo: the members keep their initial zeros when the file is missing.
Stat(f) == IF Exists(f) THEN disk[f] ELSE 0

\* The paths AddIncludesForFile tries after GetIncludeFiles has read the file.
Parse(f) == IF Exists(f) THEN Candidates[f][disk[f]] ELSE {}

EmptyMemory ==
  /\ entries' = {}
  /\ stamp' = [f \in File |-> 0]
  /\ deps' = [f \in File |-> {}]
  /\ late' = [f \in File |-> {}]
  /\ checked' = {}
  /\ project' = {}
  /\ scanStack' = << >>
  /\ calling' = {}
  /\ toSave' = {}

CacheInit ==
  /\ disk \in [File -> {NotYet, 1}]
  /\ late = [f \in File |-> {}]
  /\ cacheLate = [f \in File |-> {}]
  /\ quiet = TRUE
  /\ readable = FALSE
  /\ cache = {}
  /\ torn = FALSE
  /\ phase = "idle"
  /\ entries = {}
  /\ stamp = [f \in File |-> 0]
  /\ deps = [f \in File |-> {}]
  /\ checked = {}
  /\ project = {}
  /\ toScan = {}
  /\ scanStack = << >>
  /\ calling = {}
  /\ toSave = {}

-----------------------------------------------------------------------------
\* Everybody else's work on the source tree.
Edit(f) ==
  /\ Exists(f)
  /\ disk[f] < MaxVersion
  /\ disk' = [disk EXCEPT ![f] = @ + 1]
  /\ quiet' = FALSE
  /\ UNCHANGED <<saved, phase, memory, control, lateness>>

Delete(f) ==
  /\ Exists(f)
  /\ disk' = [disk EXCEPT ![f] = Gone]
  /\ quiet' = FALSE
  /\ UNCHANGED <<saved, phase, memory, control, lateness>>

Create(f) ==
  /\ disk[f] = NotYet
  /\ disk' = [disk EXCEPT ![f] = 1]
  /\ late' = [g \in File |-> late[g] \cup {f}]
  /\ cacheLate' = [g \in File |-> cacheLate[g] \cup {f}]
  /\ quiet' = FALSE
  /\ UNCHANGED <<saved, phase, memory, control>>

-----------------------------------------------------------------------------
\* The names in the cache: its records and what they depend on.
CachedNames == {r.name : r \in cache} \cup UNION {r.deps : r \in cache}

\* A name without a size and time of its own gets those of the disk, as
\* FindOrCreateDependency reads them.
CachedStamp(f) ==
  IF \E r \in cache : r.name = f /\ r.stamp # NoStamp
  THEN (CHOOSE r \in cache : r.name = f).stamp
  ELSE Stat(f)

CachedDeps == [f \in File |-> UNION {r.deps : r \in {r \in cache : r.name = f}}]

\* CheckCacheEntries.
OutdatedNames == {f \in CachedNames \cap Source : ~Exists(f) \/ CachedStamp(f) # disk[f]}

\* Slips: only the changed entries themselves go; nothing goes.
LoadOnlyChanged == CachedNames \ OutdatedNames

\* What RemoveDirtyCacheEntries leaves.
LoadedEntries == Survivors(CachedNames, CachedDeps, OutdatedNames)

\* Slip: every name met in the file is marked.
MarkAllNames == CachedNames

\* MarkAllCacheEntriesValid.
LoadedChecked == LoadedEntries

(***************************************************************************)
(* A run starts: LoadCache, or an empty table when there is no cache file  *)
(* or its version is wrong.                                                *)
(***************************************************************************)
LoadCache ==
  /\ phase = "idle"
  /\ phase' = "scan"
  /\ quiet' = TRUE
  /\ entries' = IF readable THEN LoadedEntries ELSE {}
  /\ checked' = IF readable THEN LoadedChecked ELSE {}
  /\ stamp' = [f \in File |-> IF f \in entries' THEN CachedStamp(f) ELSE 0]
  /\ deps' = [f \in File |-> IF f \in entries' THEN CachedDeps[f] ELSE {}]
  /\ late' = [f \in File |-> IF f \in entries' THEN cacheLate[f] ELSE {}]
  /\ toScan' = Roots
  /\ UNCHANGED <<disk, saved, project, scanStack, calling, toSave, cacheLate>>

\* FindOrCreateDependency.
FindOrCreate(f) ==
  /\ entries' = entries \cup {f}
  /\ stamp' = IF f \in entries THEN stamp ELSE [stamp EXCEPT ![f] = Stat(f)]

\* SetupFilesList, one file of the script: one that does not exist is skipped.
ScanListed(f) ==
  /\ phase = "scan"
  /\ scanStack = << >>
  /\ calling = {}
  /\ f \in toScan
  /\ toScan' = toScan \ {f}
  /\ IF Exists(f)
     THEN /\ FindOrCreate(f)
          /\ project' = project \cup {f}
          /\ calling' = {f}
     ELSE UNCHANGED <<entries, stamp, project, calling>>
  /\ UNCHANGED <<environment, saved, phase, deps, checked, scanStack, toSave, lateness>>

\* "Have we already parsed this file for its includes?"
AlreadyChecked(f) ==
  /\ phase = "scan"
  /\ f \in calling
  /\ f \in checked
  /\ calling' = {}
  /\ UNCHANGED <<environment, saved, phase, memory, toScan, scanStack, toSave, lateness>>

\* AddIncludesForFile up to its loops: set the flag, read the file.
AddIncludesForFile(f) ==
  /\ phase = "scan"
  /\ f \in calling
  /\ f \notin checked
  /\ checked' = checked \cup {f}
  /\ calling' = {}
  /\ scanStack' = Append(scanStack, [node |-> f, todo |-> Parse(f)])
  /\ late' = [late EXCEPT ![f] = {}]
  /\ UNCHANGED <<environment, saved, phase, entries, stamp, deps, project, toScan,
                 toSave, cacheLate>>

ScanTop == scanStack[Len(scanStack)]

\* One path of one #include: a known file, or one that exists, is a dependency.
TryPath(f) ==
  /\ phase = "scan"
  /\ scanStack # << >>
  /\ calling = {}
  /\ f \in ScanTop.todo
  /\ scanStack' = [scanStack EXCEPT ![Len(scanStack)].todo = @ \ {f}]
  /\ IF f \in entries \/ Exists(f)
     THEN /\ FindOrCreate(f)
          /\ deps' = [deps EXCEPT ![ScanTop.node] = @ \cup {f}]
          /\ calling' = {f}
     ELSE UNCHANGED <<entries, stamp, deps, calling>>
  /\ UNCHANGED <<environment, saved, phase, checked, project, toScan, toSave, lateness>>

IncludesDone ==
  /\ phase = "scan"
  /\ scanStack # << >>
  /\ calling = {}
  /\ ScanTop.todo = {}
  /\ scanStack' = SubSeq(scanStack, 1, Len(scanStack) - 1)
  /\ UNCHANGED <<environment, saved, phase, memory, toScan, calling, toSave, lateness>>

-----------------------------------------------------------------------------
\* SaveCache opens the file for writing (which empties it), then writes the
\* version.
BeginSave ==
  /\ phase = "scan"
  /\ scanStack = << >>
  /\ calling = {}
  /\ toScan = {}
  /\ phase' = "save"
  /\ readable' = FALSE
  /\ cache' = {}
  /\ toSave' = entries
  /\ UNCHANGED <<environment, torn, memory, toScan, scanStack, calling, lateness>>

WriteVersion ==
  /\ phase = "save"
  /\ ~readable
  /\ readable' = TRUE
  /\ UNCHANGED <<environment, cache, torn, phase, memory, control, lateness>>

\* Slip: the size and time are read again when the record is written.
RecordRestamped(f) == [name |-> f, stamp |-> Stat(f), deps |-> deps[f]]

RecordOf(f) == [name |-> f, stamp |-> stamp[f], deps |-> deps[f]]

\* "We only care about source files."
SaveEntry(f) ==
  /\ phase = "save"
  /\ readable
  /\ f \in toSave
  /\ toSave' = toSave \ {f}
  /\ cache' = IF f \in Source THEN cache \cup {RecordOf(f)} ELSE cache
  /\ cacheLate' = [cacheLate EXCEPT ![f] = late[f]]
  /\ UNCHANGED <<environment, readable, torn, phase, memory, toScan, scanStack, calling,
                 late>>

\* The terminator is written and the process ends.
EndSave ==
  /\ phase = "save"
  /\ readable
  /\ toSave = {}
  /\ phase' = "idle"
  /\ EmptyMemory
  /\ UNCHANGED <<environment, saved, toScan, cacheLate>>

(***************************************************************************)
(* The process ends early: VPCError, or it is killed.  While SaveCache     *)
(* runs, what reached the disk can end inside a record, before its size    *)
(* and time, or after some of its dependencies.                            *)
(***************************************************************************)
Crash ==
  /\ phase \in {"scan", "save"}
  /\ \/ cache' = cache
     \/ /\ readable
        /\ \E f \in toSave \cap Source :
             \E r \in [name : {f}, stamp : {NoStamp}, deps : {{}}]
                        \cup [name : {f}, stamp : {stamp[f]}, deps : SUBSET deps[f]] :
               cache' = cache \cup {r}
  /\ torn' = IF phase = "scan" THEN torn
             ELSE cache' # {} /\ (torn \/ toSave \cap Source # {})
  /\ phase' = "idle"
  /\ EmptyMemory
  /\ toScan' = {}
  /\ UNCHANGED <<environment, readable, cacheLate>>

-----------------------------------------------------------------------------
Environment == \E f \in File : Edit(f) \/ Delete(f) \/ Create(f)

Scan ==
  \/ \E f \in File :
       ScanListed(f) \/ AlreadyChecked(f) \/ AddIncludesForFile(f) \/ TryPath(f)
  \/ IncludesDone
  \/ BeginSave

Save == WriteVersion \/ (\E f \in File : SaveEntry(f)) \/ EndSave

CacheNext == Environment \/ LoadCache \/ Scan \/ Save \/ Crash

CacheSpec == CacheInit /\ [][CacheNext]_cacheVars

\* A run that has started goes on; nothing forces a run to start.
CacheFairSpec == CacheSpec /\ WF_cacheVars(Scan) /\ WF_cacheVars(Save)

-----------------------------------------------------------------------------
(***************************************************************************)
(* No file includes one that IsSourceFile does not accept, such as an .inl:*)
(* the cache keeps no record of those and marks their names as checked, so *)
(* that a run with it does not look at their includes.                     *)
(***************************************************************************)
OnlySources == \A f \in File : \A v \in 1..MaxVersion : Candidates[f][v] \subseteq Source

Pending == {scanStack[i].node : i \in 1..Len(scanStack)}

(***************************************************************************)
(* m_bCheckedIncludes: "Set to true when we have checked all the includes  *)
(* for this" (dependencies.h).  A file whose size and time are still those *)
(* of its entry has exactly the dependencies that its text names and that  *)
(* existed when its includes were looked for, in this run or in the earlier*)
(* one that the cache comes from.  (After a cache that was cut off inside  *)
(* its records it does not hold: names without a record count as checked.) *)
(***************************************************************************)
IncludesChecked ==
  ~torn => \A f \in checked \ Pending :
    Exists(f) /\ stamp[f] = disk[f] =>
      /\ deps[f] \subseteq Candidates[f][disk[f]]
      /\ \A c \in Candidates[f][disk[f]] \ late[f] : Exists(c) => c \in deps[f]

\* What an empty cache would give, on the disk as it is.
TrueDeps == [f \in File |-> {c \in Parse(f) : Exists(c)}]
TrueReach == ReachableFrom({f \in Roots : Exists(f)}, TrueDeps, File)

\* No entry includes a file that was created after its includes were looked for.
NothingMissed == \A f \in entries : Parse(f) \cap late[f] = {}

(***************************************************************************)
(* A run during which nobody touches the files ends with a graph that has  *)
(* nothing but what a run without a cache would find, over any number of   *)
(* includes and whatever happened since the cache was written.  It has all *)
(* of that, but for one case: a file created after the entry of a file     *)
(* that includes it was last parsed is not found as long as that entry     *)
(* stays in the cache.  So the comment of the class, "This class builds a  *)
(* graph of all dependencies, starting at the projects" (src/utils/vpc/    *)
(* dependencies.h:139), is true of a run with a cache under NothingMissed  *)
(* only.                                                                   *)
(***************************************************************************)
SameAsWithoutCache ==
  phase = "save" /\ quiet /\ ~torn =>
    /\ ReachableFrom(project, deps, File) \subseteq TrueReach
    /\ NothingMissed => TrueReach \subseteq ReachableFrom(project, deps, File)

(***************************************************************************)
(* The scan of a project ends, also when files include each other and are  *)
(* edited while it runs.                                                   *)
(***************************************************************************)
ScanEnds == phase = "scan" ~> phase # "scan"
=============================================================================
