------------------------------ MODULE BuildSet ------------------------------
(***************************************************************************)
(* CVPC::GenerateBuildSet: which projects the commands on the command line *)
(* select (src/utils/vpc/groupscript.cpp), with the part of                *)
(* CProjectDependencyGraph::GetProjectDependencyTree that answers the `*`  *)
(* and `@` commands (src/utils/vpc/dependencies.cpp).                      *)
(*                                                                         *)
(* A command is a sign and the name of a group.  `+` adds its projects,    *)
(* `*` also whatever depends on them, `@` also whatever they depend on,    *)
(* `-` removes.  A word that starts with `/` and is neither an option nor  *)
(* a conditional is kept as a command too, and each of the two loops looks *)
(* only at the signs it excludes.                                          *)
(*                                                                         *)
(* The projects of one command are taken in an order left open.            *)
(***************************************************************************)
EXTENDS Integers, Sequences

CONSTANTS
  Project,   \* m_Projects, by index
  ProjectNode,      \* the CDependency_Project objects: a project has one per game
  Tag        \* the names that can follow a sign

Sign == {"+", "*", "@", "-", "/"}
Command == [sign : Sign, tag : Tag]

VARIABLES
  commands,   \* m_BuildCommands
  members,    \* the projects of all groups that a tag names; {} if undefined
  owner,      \* m_iProjectIndex of a CDependency_Project
  dependsOn,  \* pairs of nodes of which DependsOn says true
  pass,       \* "add", "remove" or "done"
  i,          \* index of the command
  working,    \* inside the loops over the projects of a command
  todo,       \* the projects these loops have still to handle
  targets     \* m_TargetProjects

input == <<commands, members, owner, dependsOn>>
buildVars == <<input, pass, i, working, todo, targets>>

BuildTypeOK ==
  /\ commands \in Seq(Command)
  /\ members \in [Tag -> SUBSET Project]
  /\ owner \in [ProjectNode -> Project]
  /\ dependsOn \in SUBSET (ProjectNode \X ProjectNode)
  /\ pass \in {"add", "remove", "done"}
  /\ i \in 1..Len(commands) + 1
  /\ working \in BOOLEAN
  /\ todo \in SUBSET Project
  /\ working => i <= Len(commands)
  /\ ~working => todo = {}
  /\ targets \in Seq(Project)

BuildInit ==
  /\ commands \in Seq(Command)
  /\ members \in [Tag -> SUBSET Project]
  /\ owner \in [ProjectNode -> Project]
  /\ dependsOn \in SUBSET (ProjectNode \X ProjectNode)
  /\ pass = "add"
  /\ i = 1
  /\ working = FALSE
  /\ todo = {}
  /\ targets = << >>

-----------------------------------------------------------------------------
(***************************************************************************)
(* GetProjectDependencyTree adds the project, and every other project one  *)
(* of whose nodes depends on one of its nodes (or, downwards, the other    *)
(* way round).                                                             *)
(***************************************************************************)
Dependents(p) ==
  {p} \cup {q \in Project : \E m, n \in ProjectNode : owner[m] = q /\ owner[n] = p
                                               /\ <<m, n>> \in dependsOn}

Dependencies(p) ==
  {p} \cup {q \in Project : \E m, n \in ProjectNode : owner[m] = p /\ owner[n] = q
                                               /\ <<m, n>> \in dependsOn}

\* projectsToAdd.
Selected(command) ==
  CASE command.sign = "*" -> UNION {Dependents(p) : p \in members[command.tag]}
    [] command.sign = "@" -> UNION {Dependencies(p) : p \in members[command.tag]}
    [] OTHER -> members[command.tag]

Adds(command) == command.sign # "-"
Removes(command) == command.sign \notin {"+", "*", "@"}

\* One command of a loop: its projects are collected, or it is passed over.
StartCommand(concerned, projects) ==
  /\ ~working
  /\ i <= Len(commands)
  /\ IF concerned
     THEN working' = TRUE /\ todo' = projects /\ i' = i
     ELSE working' = FALSE /\ todo' = {} /\ i' = i + 1
  /\ UNCHANGED <<input, pass, targets>>

StartAdd ==
  pass = "add" /\ StartCommand(Adds(commands[i]), Selected(commands[i]))

StartRemove ==
  pass = "remove" /\ StartCommand(Removes(commands[i]), members[commands[i].tag])

Listed(p) == \E k \in 1..Len(targets) : targets[k] = p

\* Slip: a project is added every time it is selected.
AddAlways(p) ==
  /\ pass = "add"
  /\ p \in todo
  /\ todo' = todo \ {p}
  /\ targets' = Append(targets, p)
  /\ UNCHANGED <<input, pass, i, working>>

Add(p) ==
  /\ pass = "add"
  /\ p \in todo
  /\ todo' = todo \ {p}
  /\ targets' = IF Listed(p) THEN targets ELSE Append(targets, p)
  /\ UNCHANGED <<input, pass, i, working>>

\* CUtlVector::FindAndRemove: the first occurrence goes, the rest move up.
Without(k) == [j \in 1..Len(targets) - 1 |-> IF j < k THEN targets[j] ELSE targets[j + 1]]

Remove(p) ==
  /\ pass = "remove"
  /\ p \in todo
  /\ todo' = todo \ {p}
  /\ \/ ~Listed(p) /\ targets' = targets
     \/ \E k \in 1..Len(targets) :
          /\ targets[k] = p
          /\ \A j \in 1..k - 1 : targets[j] # p
          /\ targets' = Without(k)
  /\ UNCHANGED <<input, pass, i, working>>

EndCommand ==
  /\ working
  /\ todo = {}
  /\ working' = FALSE
  /\ i' = i + 1
  /\ UNCHANGED <<input, pass, todo, targets>>

\* Slip: the second loop goes on where the first one stopped.
EndPassHere ==
  /\ ~working
  /\ i > Len(commands)
  /\ pass # "done"
  /\ pass' = IF pass = "add" THEN "remove" ELSE "done"
  /\ UNCHANGED <<input, i, working, todo, targets>>

\* The first loop is followed by the second.
EndPass ==
  /\ ~working
  /\ i > Len(commands)
  /\ pass # "done"
  /\ pass' = IF pass = "add" THEN "remove" ELSE "done"
  /\ i' = IF pass = "add" THEN 1 ELSE i
  /\ UNCHANGED <<input, working, todo, targets>>

BuildDone == pass = "done" /\ UNCHANGED buildVars

BuildStep ==
  \/ StartAdd
  \/ StartRemove
  \/ \E p \in Project : Add(p) \/ Remove(p)
  \/ EndCommand
  \/ EndPass

BuildNext == BuildStep \/ BuildDone

BuildSpec == BuildInit /\ [][BuildNext]_buildVars

-----------------------------------------------------------------------------
Asked(k) == UNION {Selected(commands[j]) : j \in {j \in 1..k : Adds(commands[j])}}

Refused(k) ==
  UNION {members[commands[j].tag] : j \in {j \in 1..k : Removes(commands[j])}}

\* The projects in m_TargetProjects.
Targets == {targets[k] : k \in 1..Len(targets)}

(***************************************************************************)
(* "Collect all the +XXX, remove all the -XXX.  This allows removal to be  *)
(* the expected trumping operation": what is selected in the end does not  *)
(* depend on the order of the commands, and a removed project stays out    *)
(* whichever command, group or dependency brought it in.                   *)
(***************************************************************************)
RemovalTrumps ==
  pass = "done" => Targets = Asked(Len(commands)) \ Refused(Len(commands))

(***************************************************************************)
(* No project is listed twice: it would be generated twice, and one        *)
(* removal, which takes out a single occurrence, would leave the other.    *)
(***************************************************************************)
NoProjectTwice ==
  \A j, k \in 1..Len(targets) : targets[j] = targets[k] => j = k
=============================================================================
