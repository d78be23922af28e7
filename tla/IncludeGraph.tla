---------------------------- MODULE IncludeGraph ----------------------------
(***************************************************************************)
(* Sets of files and the files they include.  `deps` is a function from a  *)
(* file to the set of files it depends on (m_Dependencies of its           *)
(* CDependency).  Nothing here says how such a set is computed: these are  *)
(* the references that the loops of the code are compared with.            *)
(***************************************************************************)

\* S holds every dependency of each of its members.
SelfContained(S, deps) == \A f \in S : deps[f] \subseteq S

(***************************************************************************)
(* The entries from which no chain of dependencies leads to an outdated    *)
(* one: those that lie in a self-contained set of entries up to date.      *)
(***************************************************************************)
Survivors(entries, deps, outdated) ==
  UNION {S \in SUBSET (entries \ outdated) : SelfContained(S, deps)}

\* The files of `all` that chains of dependencies lead to from `roots`.
ReachableFrom(roots, deps, all) ==
  {f \in all : \A S \in SUBSET all :
                 roots \subseteq S /\ SelfContained(S, deps) => f \in S}
=============================================================================
