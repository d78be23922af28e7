----------------------------- MODULE SourceFiles -----------------------------
(***************************************************************************)
(* The names that can appear in m_AllFiles of a CProjectDependencyGraph    *)
(* (src/utils/vpc/dependencies.cpp).                                       *)
(***************************************************************************)
EXTENDS IncludeGraph

CONSTANTS
  File,     \* the names
  Source    \* those IsSourceFile accepts (k_eDependencyType_SourceFile)

ASSUME SourceAssumption == Source \subseteq File
=============================================================================
