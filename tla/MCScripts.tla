----------------------------- MODULE MCScripts ------------------------------
(***************************************************************************)
(* How VPC reads a script: macros, conditions, folders and load addresses, *)
(* and the tables that the scripts of one run share, with their instances. *)
(* part says which one a behaviour is about; the others keep one initial   *)
(* state.                                                                  *)
(***************************************************************************)
EXTENDS MCMacroResolution, ExprEvaluator, MCFolderScript, LoadAddress,
        ProjectMacros

CONSTANT Parts

VARIABLE part

-----------------------------------------------------------------------------
(***************************************************************************)
(* Addresses have six bits and are aligned to four: the first pool ends at *)
(* 39, the second at 55. Lists have up to three entries.                   *)
(***************************************************************************)
MCLists == BoundedSeq([name : Image, length : {0, 5, 8, 63}, used : BOOLEAN], 3)

AddressStart(chosen) ==
  /\ ~chosen => bPad = FALSE /\ list = << >> /\ initial = CHOOSE first \in Bases : TRUE
  /\ AddressInit

-----------------------------------------------------------------------------
\* Every condition of up to MaxLength of these tokens.
ExprStart(chosen) == ExprInit

MCToken == {"(", ")", "!", "&&", "||", "0", "1", "&"}

-----------------------------------------------------------------------------
(***************************************************************************)
(* Two projects after each other, each with up to two statements out of    *)
(* ten; they share a macro, a required macro, a conditional and an alias.  *)
(***************************************************************************)
LOCAL Low(t) == <<t, "low">>

LOCAL Statements ==
  {[op |-> "macro", name |-> "M", value |-> Low("t"), when |-> NoCondition],
   [op |-> "macro", name |-> "M", value |-> <<"t", "UP">>, when |-> NoCondition],
   [op |-> "macro", name |-> "M", value |-> Low(Empty), when |-> NoCondition],
   [op |-> "macro", name |-> "PLATFORM", value |-> Low("t"), when |-> NoCondition],
   [op |-> "macro", name |-> "PROJECTDIR", value |-> Low("t"), when |-> "c"],
   [op |-> "required", name |-> "M", value |-> Low(Empty), when |-> NoCondition],
   [op |-> "required", name |-> "M", value |-> Low("u"), when |-> NoCondition],
   [op |-> "allowEmpty", name |-> "M", value |-> Low(Empty), when |-> NoCondition],
   [op |-> "conditional", name |-> "c", set |-> TRUE, when |-> NoCondition],
   [op |-> "alias", value |-> Low("u"), when |-> NoCondition]}

LOCAL Builds(name, dir) ==
  {[name |-> name, dir |-> dir, statements |-> s] : s \in BoundedSeq(Statements, 2)}

MCBatches ==
  {<<first, second>> : first \in Builds(Low("t"), Low("t")), second \in Builds(Low("u"), <<"t", "UP">>)}

SharedStart(chosen) == (~chosen => batch = CHOOSE one \in Batches : TRUE) /\ SharedInit

-----------------------------------------------------------------------------
\* The idle parts first, which have one state each.
MCInit ==
  /\ part \in Parts
  /\ part # "macros" => ResolveStart(FALSE)
  /\ part # "condition" => ExprStart(FALSE)
  /\ part # "folder" => FolderStart(FALSE)
  /\ part # "address" => AddressStart(FALSE)
  /\ part # "shared" => SharedStart(FALSE)
  /\ part = "macros" => ResolveStart(TRUE)
  /\ part = "condition" => ExprStart(TRUE)
  /\ part = "folder" => FolderStart(TRUE)
  /\ part = "address" => AddressStart(TRUE)
  /\ part = "shared" => SharedStart(TRUE)

Resolving == part = "macros" /\ ResolveNext
Evaluating == part = "condition" /\ ExprNext
Folding == part = "folder" /\ FolderNext
Addressing == part = "address" /\ AddressNext
Sharing == part = "shared" /\ SharedNext

MCNext ==
  /\ \/ Resolving /\ UNCHANGED <<exprVars, folderVars, addressVars, sharedVars>>
     \/ Evaluating /\ UNCHANGED <<resolveVars, folderVars, addressVars, sharedVars>>
     \/ Folding /\ UNCHANGED <<resolveVars, exprVars, addressVars, sharedVars>>
     \/ Addressing /\ UNCHANGED <<resolveVars, exprVars, folderVars, sharedVars>>
     \/ Sharing /\ UNCHANGED <<resolveVars, exprVars, folderVars, addressVars>>
  /\ UNCHANGED part

scriptsVars == <<resolveVars, exprVars, folderVars, addressVars, sharedVars>>

MCSpec == MCInit /\ [][MCNext]_<<part, scriptsVars>>

\* The loop of ResolveMacrosInString goes on by itself.
MCFairSpec == MCSpec /\ WF_resolveVars(Resolving)

(***************************************************************************)
(* Whatever reads a script keeps its types.                                *)
(***************************************************************************)
ScriptsTypeOK ==
  /\ ResolveTypeOK /\ ExprTypeOK /\ FolderTypeOK /\ AddressTypeOK /\ SharedTypeOK
=============================================================================
