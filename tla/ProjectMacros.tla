--------------------------- MODULE ProjectMacros ---------------------------
(***************************************************************************)
(* The tables that the scripts of one run share: m_Macros, the custom part *)
(* of m_Conditionals, and m_LoadAddressName.  Every project script begins  *)
(* with the reserved macros, sets macros, conditionals and its alias, and  *)
(* at its end CVPC::ParseProjectScript takes the macros away that a script *)
(* created (src/utils/vpc/macros.cpp, conditionals.cpp, projectscript.cpp).*)
(*                                                                         *)
(* A value is a text and the case it is written in, for what the table     *)
(* ignores.  Names are alike only if equal.  ROOTSCRIPT and CRCCHECK, which*)
(* are set like PROJECTNAME, are left out, as are environment variables.   *)
(***************************************************************************)
EXTENDS Integers, Sequences, FiniteSets, SequencesExt

CONSTANTS
  Builtin,    \* macros that VPC sets before it reads a script
  ScriptMacro,  \* other macros that scripts name
  Custom,     \* conditionals that are no platform and no game
  NoCondition,
  Text,       \* texts of values
  Letters,    \* the ways to write a text
  Empty,      \* the text of the empty value
  Batches     \* the lists of projects that a run may build

Value == (Text \cup {Empty}) \X Letters
Reserved == {"PROJECTNAME", "LOADADDRESSNAME", "PROJECTDIR"}
MacroName == Builtin \cup ScriptMacro \cup Reserved

\* A keyword with its condition, if any: $Macro, $MacroEmptyString,
\* $MacroRequired, $MacroRequiredAllowEmpty, $Conditional, $LoadAddressMacroAlias.
Statement ==
  [op : {"macro", "required", "allowEmpty"}, name : MacroName, value : Value,
   when : Custom \cup {NoCondition}]
  \cup [op : {"conditional"}, name : Custom, set : BOOLEAN, when : Custom \cup {NoCondition}]
  \cup [op : {"alias"}, value : Value, when : Custom \cup {NoCondition}]

Build == [name : Value, dir : Value, statements : Seq(Statement)]

ASSUME MacrosAssumption ==
  /\ Empty \notin Text
  /\ NoCondition \notin Custom
  /\ Builtin \cap (ScriptMacro \cup Reserved) = {}
  /\ IsFiniteSet(Builtin)
  /\ Letters # {}
  /\ Batches \subseteq Seq(Build)

MacroEntry == [name : MacroName, value : Value, internal : BOOLEAN]

VARIABLES
  batch,         \* the projects of this run (never changes)
  turn,          \* the project at hand
  nextStatement, \* the statement that comes next; 0 before the project begins
  tables         \* macros, conditions and alias, and whether a required macro was missing

sharedVars == <<batch, turn, nextStatement, tables>>

SharedTypeOK ==
  /\ turn \in 1..Len(batch) + 1
  /\ nextStatement \in Nat
  /\ tables.macros \in Seq(MacroEntry)
  /\ \A j, k \in 1..Len(tables.macros) :
       tables.macros[j].name = tables.macros[k].name => j = k
  /\ tables.conditions \in [Custom -> BOOLEAN]
  /\ tables.alias \in Value
  /\ tables.failed \in BOOLEAN

-----------------------------------------------------------------------------
\* FindOrCreateMacro: a value that differs in case only is not taken.
FindOrCreateMacro(macros, name, value) ==
  IF \E k \in 1..Len(macros) : macros[k].name = name
  THEN [k \in 1..Len(macros) |->
          IF macros[k].name = name /\ macros[k].value[1] # value[1]
          THEN [macros[k] EXCEPT !.value = value] ELSE macros[k]]
  ELSE Append(macros, [name |-> name, value |-> value, internal |-> FALSE])

SetMacro(macros, name, value) ==
  LET found == FindOrCreateMacro(macros, name, value)
  IN  [k \in 1..Len(found) |->
         IF found[k].name = name THEN [found[k] EXCEPT !.internal = TRUE] ELSE found[k]]

TextOf(macros, name) == {macros[k].value[1] : k \in {k \in 1..Len(macros) : macros[k].name = name}}

\* FindOrCreateConditional: one that nobody has set is not defined.
SetConditional(conditions, name, set) == [conditions EXCEPT ![name] = set]

\* Before the first script.
Startup ==
  [macros |-> SetToSeq({[name |-> b, value |-> <<Empty, CHOOSE c \in Letters : TRUE>>,
                         internal |-> TRUE] : b \in Builtin}),
   conditions |-> [c \in Custom |-> FALSE],
   alias |-> <<Empty, CHOOSE c \in Letters : TRUE>>,
   failed |-> FALSE]

\* BuildTargetProject names the project, and ParseProjectScript sets the
\* reserved macros from that.
Begin(t, project) ==
  [t EXCEPT
     !.alias = project.name,
     !.macros = SetMacro(FindOrCreateMacro(FindOrCreateMacro(@, "PROJECTNAME", project.name),
                                           "LOADADDRESSNAME", project.name),
                         "PROJECTDIR", project.dir)]

Lacks(macros, s) ==
  \/ TextOf(macros, s.name) = {}
  \/ s.op = "required" /\ TextOf(macros, s.name) = {Empty}

\* One statement.  A condition that is not defined skips it.
Execute(t, s) ==
  IF s.when # NoCondition /\ ~t.conditions[s.when] THEN t
  ELSE CASE s.op = "macro" ->
              [t EXCEPT !.macros = FindOrCreateMacro(@, s.name, s.value)]
         [] s.op \in {"required", "allowEmpty"} /\ ~Lacks(t.macros, s) -> t
         [] s.op \in {"required", "allowEmpty"} /\ Lacks(t.macros, s) ->
              IF s.op = "required" /\ s.value[1] = Empty
              THEN [t EXCEPT !.failed = TRUE]
              ELSE [t EXCEPT !.macros = FindOrCreateMacro(@, s.name, s.value)]
         [] s.op = "conditional" -> [t EXCEPT !.conditions = SetConditional(@, s.name, s.set)]
         [] s.op = "alias" ->
              [t EXCEPT !.alias = s.value,
                          !.macros = FindOrCreateMacro(@, "LOADADDRESSNAME", s.value)]

\* Slip: the loop ends one before the last macro.
RemoveAllButLast(macros) ==
  SelectSeq(Front(macros), LAMBDA m : m.internal) \o <<Last(macros)>>

RemoveScriptCreatedMacros(macros) ==
  LET kept[k \in 0..Len(macros)] ==
        IF k = 0 THEN << >>
        ELSE IF macros[k].internal THEN Append(kept[k - 1], macros[k]) ELSE kept[k - 1]
  IN  kept[Len(macros)]

-----------------------------------------------------------------------------
SharedInit ==
  /\ batch \in Batches
  /\ turn = 1
  /\ nextStatement = 0
  /\ tables = Startup

AtWork == turn <= Len(batch) /\ ~tables.failed

BeginProject ==
  /\ AtWork
  /\ nextStatement = 0
  /\ tables' = Begin(tables, batch[turn])
  /\ nextStatement' = 1
  /\ UNCHANGED <<batch, turn>>

Perform ==
  /\ AtWork
  /\ nextStatement \in 1..Len(batch[turn].statements)
  /\ tables' = Execute(tables, batch[turn].statements[nextStatement])
  /\ nextStatement' = nextStatement + 1
  /\ UNCHANGED <<batch, turn>>

EndProject ==
  /\ AtWork
  /\ nextStatement = Len(batch[turn].statements) + 1
  /\ tables' = [tables EXCEPT !.macros = RemoveScriptCreatedMacros(@)]
  /\ nextStatement' = 0
  /\ turn' = turn + 1
  /\ UNCHANGED batch

SharedDone == ~AtWork /\ UNCHANGED sharedVars

SharedNext == BeginProject \/ Perform \/ EndProject \/ SharedDone

SharedSpec == SharedInit /\ [][SharedNext]_sharedVars

-----------------------------------------------------------------------------
\* What the statements so far give when the project is the only one.
Alone ==
  LET after[k \in 0..Len(batch[turn].statements)] ==
        IF k = 0 THEN Begin(Startup, batch[turn])
        ELSE Execute(after[k - 1], batch[turn].statements[k])
  IN  after[nextStatement - 1]

\* What a script can read.
Visible(t) ==
  [macros |-> {<<t.macros[k].name, t.macros[k].value[1]>> : k \in 1..Len(t.macros)},
   conditions |-> t.conditions, alias |-> t.alias[1], failed |-> t.failed]

\* Writes what the run keeps on purpose or by accident: a macro of VPC, a
\* conditional.
Lasting(project) ==
  \E k \in 1..Len(project.statements) :
    LET s == project.statements[k]
    IN  s.op = "conditional" \/ (s.op # "alias" /\ s.name \in Builtin)

(***************************************************************************)
(* A script sees the macros, the alias and the missing macro that it would *)
(* see if its project were generated alone, whatever macros and aliases    *)
(* the scripts before it made, unless one of them set a conditional or a   *)
(* macro of VPC itself.                                                    *)
(***************************************************************************)
ProjectsAreIndependent ==
  turn <= Len(batch) /\ nextStatement > 0 /\ (\A j \in 1..turn - 1 : ~Lasting(batch[j])) =>
    Visible(tables) = Visible(Alone)
=============================================================================
