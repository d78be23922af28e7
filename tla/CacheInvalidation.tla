-------------------------- MODULE CacheInvalidation --------------------------
(***************************************************************************)
(* The validation of a loaded vpc.cache: CheckCacheEntries,                *)
(* RemoveDirtyCacheEntries and MarkAllCacheEntriesValid of                 *)
(* CProjectDependencyGraph (src/utils/vpc/dependencies.cpp), entry by      *)
(* entry, as LoadCache calls them one after the other.                     *)
(*                                                                         *)
(* m_AllFiles holds heap objects that point at each other, with cycles     *)
(* (headers that include each other).  An entry whose file changed on disk *)
(* must go, with everything that includes it, and what stays must not      *)
(* point at an object that was deleted.  The code repeats whole passes     *)
(* over the table until one pass changes nothing, and only then deletes.   *)
(*                                                                         *)
(* The table is visited in an order left open, new in every pass.          *)
(***************************************************************************)
EXTENDS SourceFiles

VARIABLES
  allFiles,   \* m_AllFiles: the entries that exist
  includes,   \* m_Dependencies of every entry
  changed,    \* files whose size or time on disk differs from the cached one
  dirty,      \* entries with m_bCacheDirty set
  valid,      \* entries with m_bCheckedIncludes set
  loop,       \* the loop that runs: "check", "mark", "delete", then "done"
  unvisited,  \* entries the running loop has not visited yet
  anyDirty,   \* bAnyDirty
  loaded      \* the entries as LoadCache read them (never changes)

loadVars == <<allFiles, includes, changed, dirty, valid, loop, unvisited, anyDirty,
          loaded>>

LoadTypeOK ==
  /\ loaded \in SUBSET File
  /\ allFiles \in SUBSET loaded
  /\ includes \in [File -> SUBSET File]
  /\ changed \in SUBSET File
  /\ dirty \in SUBSET loaded
  /\ valid \in SUBSET allFiles
  /\ loop \in {"check", "mark", "delete", "done"}
  /\ unvisited \in SUBSET allFiles
  /\ anyDirty \in BOOLEAN

-----------------------------------------------------------------------------
(***************************************************************************)
(* What reading the file leaves: FindOrCreateDependency has made an entry  *)
(* for every name it met, so every dependency is an entry.  The dirty      *)
(* flags are whatever the constructor left; CheckCacheEntries resets them. *)
(***************************************************************************)
LoadInit ==
  /\ allFiles \in SUBSET File
  /\ includes \in [File -> SUBSET File]
  /\ \A f \in File : includes[f] \subseteq IF f \in allFiles THEN allFiles ELSE {}
  /\ changed \in SUBSET File
  /\ dirty = {}
  /\ valid = {}
  /\ loop = "check"
  /\ unvisited = allFiles
  /\ anyDirty = FALSE
  /\ loaded = allFiles

\* Only source files are looked at: a changed library never makes anything stale.
Outdated == changed \cap Source

\* CheckCacheEntries: one entry against the disk.
CheckEntry(f) ==
  /\ loop = "check"
  /\ f \in unvisited
  /\ unvisited' = unvisited \ {f}
  /\ dirty' = IF f \in Outdated THEN dirty \cup {f} ELSE dirty \ {f}
  /\ UNCHANGED <<allFiles, includes, changed, valid, loop, anyDirty, loaded>>

\* while (bAnyDirty): a pass begins with the flag cleared.
BeginPass ==
  /\ \/ loop = "check" /\ unvisited = {}
     \/ loop = "mark" /\ unvisited = {} /\ anyDirty
  /\ loop' = "mark"
  /\ anyDirty' = FALSE
  /\ unvisited' = allFiles
  /\ UNCHANGED <<allFiles, includes, changed, dirty, valid, loaded>>

\* One entry of a pass: it becomes dirty when one of its children is.
MarkEntry(f) ==
  /\ loop = "mark"
  /\ f \in unvisited
  /\ unvisited' = unvisited \ {f}
  /\ IF f \notin dirty /\ includes[f] \cap dirty # {}
     THEN dirty' = dirty \cup {f} /\ anyDirty' = TRUE
     ELSE UNCHANGED <<dirty, anyDirty>>
  /\ UNCHANGED <<allFiles, includes, changed, valid, loop, loaded>>

\* Slip: the loop is left after one pass, whatever that pass found.
BeginDeleteEarly ==
  /\ loop = "mark"
  /\ unvisited = {}
  /\ loop' = "delete"
  /\ unvisited' = allFiles
  /\ UNCHANGED <<allFiles, includes, changed, dirty, valid, anyDirty, loaded>>

\* A pass found nothing new: start deleting.
BeginDelete ==
  /\ loop = "mark"
  /\ unvisited = {}
  /\ ~anyDirty
  /\ loop' = "delete"
  /\ unvisited' = allFiles
  /\ UNCHANGED <<allFiles, includes, changed, dirty, valid, anyDirty, loaded>>

\* delete m_AllFiles[i]; m_AllFiles.RemoveAt(i).
DeleteEntry(f) ==
  /\ loop = "delete"
  /\ f \in unvisited
  /\ unvisited' = unvisited \ {f}
  /\ allFiles' = IF f \in dirty THEN allFiles \ {f} ELSE allFiles
  /\ UNCHANGED <<includes, changed, dirty, valid, loop, anyDirty, loaded>>

\* MarkAllCacheEntriesValid: the survivors are never parsed again.
MarkAllValid ==
  /\ loop = "delete"
  /\ unvisited = {}
  /\ valid' = allFiles
  /\ loop' = "done"
  /\ UNCHANGED <<allFiles, includes, changed, dirty, unvisited, anyDirty, loaded>>

LoadStep ==
  \/ \E f \in File : CheckEntry(f) \/ MarkEntry(f) \/ DeleteEntry(f)
  \/ BeginPass
  \/ BeginDelete
  \/ MarkAllValid

LoadDone == loop = "done" /\ UNCHANGED loadVars

LoadNext == LoadStep \/ LoadDone

LoadSpec == LoadInit /\ [][LoadNext]_loadVars

\* LoadCache runs these loops to their end on one thread.
LoadFairSpec == LoadSpec /\ WF_loadVars(LoadStep)

-----------------------------------------------------------------------------
(***************************************************************************)
(* No entry that is left points at an object that was deleted.  The        *)
(* pointers are followed by the next DependsOn and by SaveCache, long      *)
(* after the loops below: an entry that became dirty only through a cycle  *)
(* or through an entry visited later is where this could go wrong.         *)
(***************************************************************************)
NoDanglingPointer == loop = "done" => SelfContained(allFiles, includes)

(***************************************************************************)
(* Exactly the entries that could be stale are gone: every entry from      *)
(* which a changed file can be reached, and no other ("Loaded %u valid     *)
(* dependency cache entries (%u were out of date)").                       *)
(***************************************************************************)
ExactlySurvivorsStay ==
  loop = "done" => allFiles = Survivors(loaded, includes, Outdated)

(***************************************************************************)
(* LoadCache returns, also when headers include each other: the passes     *)
(* that spread the dirt come to an end.                                    *)
(***************************************************************************)
LoadTerminates == loop = "mark" ~> loop = "done"
=============================================================================
