------------------------------- MODULE MCGraphs -------------------------------
(***************************************************************************)
(* The dependency graph of VPC: a query of it, the validation of a loaded  *)
(* cache, the life of the cache file over several runs, and the build set  *)
(* taken from the graph.  part says which one a behaviour is about; the    *)
(* others keep one initial state.                                          *)
(*                                                                         *)
(* search: two files and a library, every graph without self-loops in      *)
(* which the library depends on nothing or on the first file and only the  *)
(* first file has an additional dependency; the mark counter wraps.        *)
(* loading: every include graph of a source file and two headers beside a  *)
(* library, every set of changed files, every order of visit.              *)
(* scanning: the same source file and headers in two versions, which first *)
(* include each other in a cycle and move an include with every edit.      *)
(* building: three projects, one of them built for two games, a group of   *)
(* one and a group of two, every line of up to three commands.             *)
(***************************************************************************)
EXTENDS DependencySearch, CacheInvalidation, DependencyCache, BuildSet

CONSTANTS a, b, cpp, h1, h2, lib,
          client, server, mathlib, client1, client2, server1, mathlib1, game, one

CONSTANT Parts

VARIABLE part

-----------------------------------------------------------------------------
SearchStart ==
  IF part = "search"
  THEN /\ dependencies \in {g \in [Node -> SUBSET Node] :
                              /\ \A n \in Node : n \notin g[n]
                              /\ g[lib] \in {{}, {a}}}
       /\ additional = [n \in Node |-> IF n = a THEN {lib} ELSE {}]
  ELSE dependencies = [n \in Node |-> {}] /\ additional = dependencies

\* A search that never starts is the same whatever it would have looked for.
SearchQuery ==
  query = [start |-> a, target |-> a, checkAdditional |-> FALSE,
           recurse |-> FALSE, pastLibs |-> FALSE]

LoadStart ==
  IF part = "loading"
  THEN /\ allFiles = File
       /\ includes \in {d \in [File -> SUBSET File] :
                          d[lib] = {} /\ \A f \in File : f \notin d[f]}
  ELSE allFiles = {} /\ includes = [f \in File |-> {}] /\ changed = {}

Includes(f, v) ==
  CASE f = cpp /\ v = 1 -> {h1}
    [] f = cpp /\ v = 2 -> {h1, h2}
    [] f = h1  /\ v = 1 -> {h2}
    [] f = h1  /\ v = 2 -> {}
    [] f = h2  /\ v = 1 -> {h1}
    [] f = h2  /\ v = 2 -> {cpp}
    [] OTHER -> {}

MCCandidates == [f \in File |-> [v \in 1..MaxVersion |-> Includes(f, v)]]

ASSUME IncludedAreSources == OnlySources

\* Only one header is created after the first run can have started.
CacheStart ==
  IF part = "scanning"
  THEN disk[cpp] = 1 /\ disk[h1] = 1 /\ disk[lib] = NotYet
  ELSE disk = [f \in File |-> NotYet]

BuildStart ==
  /\ commands \in IF part = "building" THEN UNION {[1..k -> Command] : k \in 0..3}
                  ELSE {<< >>}
  /\ members = [t \in Tag |-> IF t = game THEN {client, server}
                              ELSE IF t = one THEN {mathlib} ELSE {}]
  /\ owner = [n \in ProjectNode |-> CASE n = server1 -> server
                                      [] n = mathlib1 -> mathlib
                                      [] OTHER -> client]
  /\ dependsOn = {<<client2, mathlib1>>, <<server1, mathlib1>>}

MCInit ==
  /\ part \in Parts
  /\ SearchQuery /\ SearchStart /\ SearchInit
  /\ LoadStart /\ LoadInit
  /\ CacheInit /\ CacheStart
  /\ BuildStart /\ BuildInit

-----------------------------------------------------------------------------
Searching == part = "search" /\ SearchNext
Loading == part = "loading" /\ LoadNext
Building == part = "building" /\ BuildNext

\* The library of the loading part is no file of this one.
Scanning ==
  part = "scanning" /\ CacheNext /\ disk'[lib] = NotYet

MCNext ==
  /\ \/ Searching /\ UNCHANGED <<loadVars, cacheVars, buildVars>>
     \/ Loading /\ UNCHANGED <<searchVars, cacheVars, buildVars>>
     \/ Scanning /\ UNCHANGED <<searchVars, loadVars, buildVars>>
     \/ Building /\ UNCHANGED <<searchVars, loadVars, cacheVars>>
  /\ UNCHANGED part

others == <<searchVars, loadVars, cacheVars, buildVars>>

MCSpec == MCInit /\ [][MCNext]_<<part, others>>

\* What each part owes: a search, a load or a scan that began goes on.
MCFairSpec ==
  /\ MCSpec
  /\ WF_searchVars(Search)
  /\ WF_loadVars(part = "loading" /\ LoadStep)
  /\ WF_cacheVars(Scan) /\ WF_cacheVars(Save)

(***************************************************************************)
(* The graph, the table of the cache, the scan and the build set keep      *)
(* their types.                                                            *)
(***************************************************************************)
GraphsTypeOK == SearchTypeOK /\ LoadTypeOK /\ CacheTypeOK /\ BuildTypeOK

(***************************************************************************)
(* What walks over a graph ends, cyclic as it may be: a query over the     *)
(* dependencies, the passes over a loaded cache, and the scan that reads   *)
(* the includes.                                                           *)
(***************************************************************************)
GraphWorkEnds == QueryTerminates /\ LoadTerminates /\ ScanEnds
=============================================================================
