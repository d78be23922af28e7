---------------------------- MODULE SolutionRun ----------------------------
(***************************************************************************)
(* One run of the program from the selected projects to the solution file: *)
(* CVPC::IterateTargetProjects with its three visitors (the project        *)
(* generator, the dependency graph and the translation of indices to       *)
(* CDependency_Projects), the simulated /allgames of                       *)
(* BuildProjectDependencies, and the two phases of /windows, each with a   *)
(* CVPC of its own (src/utils/vpc/vpc.cpp, dependencies.cpp, main.cpp).    *)
(*                                                                         *)
(* What the visited script says is not modelled, nor                       *)
(* m_AdditionalDependencies, by which the solution orders its projects.    *)
(* Scripts exist.                                                          *)
(***************************************************************************)
EXTENDS Integers, Sequences

CONSTANTS
  Projects,  \* the indices of m_Projects, in order
  Games,     \* the game conditionals, in the order of m_Conditionals
  NoGame

Elements(s) == {s[k] : k \in 1..Len(s)}
Once(s) == \A j, k \in 1..Len(s) : s[j] = s[k] => j = k

ProjectIndex == Elements(Projects)
Game == Elements(Games)

\* m_Conditionals holds every name once.
ASSUME SolutionRunAssumption ==
  Projects \in Seq(ProjectIndex) /\ Games \in Seq(Game) /\ Once(Games) /\ NoGame \notin Game

Phase == 1..2
Graph == {"local", "member"}

(***************************************************************************)
(* A script's condition: the phases whose platform it allows and, if it    *)
(* names games, the games it allows.                                       *)
(***************************************************************************)
ScriptEntry == [phases : SUBSET Phase, hasGame : BOOLEAN, games : SUBSET Game]

\* A CDependency_Project, or one visit of the project generator.  Its VPC file
\* is that of the project and the script.
Node == [phase : Phase, project : ProjectIndex, script : Nat \ {0}, game : Game \cup {NoGame}]

VARIABLES
  scripts,     \* the scripts of each project
  target,      \* m_TargetProjects
  wanted,      \* the games on the command line
  twoPhase,    \* /windows
  mksln,       \* /mksln
  simulates,   \* the line has a `*` or `@` command
  phase,
  stage,       \* where ProcessCommandLine and main are
  position,    \* that of IterateTargetProjects: project, script, game
  defined,     \* m_bDefined of the games
  active,      \* m_bGameConditionActive of the games
  graphs,      \* m_Projects of GenerateBuildSet's own graph and m_dependencyGraph
  qualified,   \* m_bAnyProjectQualified
  built,       \* what the generator was asked for, in order
  phase1,      \* m_pPhase1Projects
  solution     \* what GenerateSolutionFile was given

input == <<scripts, target, wanted, twoPhase, mksln, simulates>>
results == <<graphs, built, phase1, solution>>
runVars == <<input, phase, stage, position, defined, active, qualified, results>>

Passes == {"simulate", "build", "graph", "translate"}
Stage == Passes \cup {"start", "built", "translated", "done", "error"}

RunTypeOK ==
  /\ phase \in Phase
  /\ stage \in Stage
  /\ position \in [project : Nat \ {0}, script : Nat \ {0}, game : Nat \ {0}]
  /\ defined \subseteq Game
  /\ active \subseteq Game
  /\ qualified \in BOOLEAN
  /\ graphs \in [Graph -> Seq(Node)]
  /\ built \in Seq(Node)
  /\ phase1 \in Seq(Node)
  /\ solution \in Seq(Node)

StartPosition == [project |-> 1, script |-> 1, game |-> 1]

\* GenerateBuildSet names no project twice (BuildSet).
RunInit ==
  /\ scripts \in [ProjectIndex -> Seq(ScriptEntry)]
  /\ target \in Seq(ProjectIndex) \ {<< >>}
  /\ Once(target)
  /\ wanted \in SUBSET Game
  /\ twoPhase \in BOOLEAN
  /\ mksln \in BOOLEAN
  /\ simulates \in BOOLEAN
  /\ phase = 1
  /\ stage = "start"
  /\ position = StartPosition
  /\ defined = wanted
  /\ active = {}
  /\ graphs = [g \in Graph |-> << >>]
  /\ qualified = FALSE
  /\ built = << >>
  /\ phase1 = << >>
  /\ solution = << >>

-----------------------------------------------------------------------------
\* projectList of the pass.
List == IF stage = "simulate" THEN Projects ELSE target
Current == List[position.project]
CurrentScript == scripts[Current][position.script]

\* EvaluateConditionalExpression: a game counts if it is defined and active.
Holds(script, games) ==
  phase \in script.phases /\ (script.hasGame => games \cap script.games # {})

NodeOf(game) ==
  [phase |-> phase, project |-> Current, script |-> position.script, game |-> game]

SameFile(m, n) == m.project = n.project /\ m.script = n.script

(***************************************************************************)
(* The visitors.  CGameFilterProjectIterator takes the first project of    *)
(* the graph with the script's file name and stops with an error if there  *)
(* is none.                                                                *)
(***************************************************************************)
VisitBuild(n) ==
  /\ stage = "build"
  /\ built' = Append(built, n)
  /\ UNCHANGED <<stage, graphs, phase1, solution>>

VisitGraph(n) ==
  /\ \/ stage = "simulate" /\ graphs' = [graphs EXCEPT !["local"] = Append(@, n)]
     \/ stage = "graph" /\ graphs' = [graphs EXCEPT !["member"] = Append(@, n)]
  /\ UNCHANGED <<stage, built, phase1, solution>>

VisitTranslate(n) ==
  /\ stage = "translate"
  /\ \/ \E k \in 1..Len(graphs["member"]) :
          /\ SameFile(graphs["member"][k], n)
          /\ \A j \in 1..k - 1 : ~SameFile(graphs["member"][j], n)
          /\ solution' = Append(solution, graphs["member"][k])
          /\ UNCHANGED stage
     \/ /\ \A k \in 1..Len(graphs["member"]) : ~SameFile(graphs["member"][k], n)
        /\ stage' = "error"
        /\ UNCHANGED solution
  /\ UNCHANGED <<graphs, built, phase1>>

\* BuildTargetProject.
BuildTargetProject(game, games) ==
  \/ /\ Holds(CurrentScript, games)
     /\ qualified' = TRUE
     /\ VisitBuild(NodeOf(game)) \/ VisitGraph(NodeOf(game)) \/ VisitTranslate(NodeOf(game))
  \/ ~Holds(CurrentScript, games) /\ UNCHANGED <<stage, qualified, results>>

InLoop == stage \in Passes /\ position.project <= Len(List)
InScript == InLoop /\ position.script <= Len(scripts[Current])

NextProject ==
  /\ InLoop
  /\ position.script > Len(scripts[Current])
  /\ position' = [project |-> position.project + 1, script |-> 1, game |-> 1]
  /\ UNCHANGED <<input, phase, stage, defined, active, qualified, results>>

PlainScript ==
  /\ InScript
  /\ ~CurrentScript.hasGame
  /\ BuildTargetProject(NoGame, active \cap defined)
  /\ position' = [position EXCEPT !.script = @ + 1]
  /\ UNCHANGED <<input, phase, defined, active>>

GamesExhausted ==
  /\ InScript
  /\ CurrentScript.hasGame
  /\ position.game > Len(Games)
  /\ position' = [position EXCEPT !.script = @ + 1, !.game = 1]
  /\ UNCHANGED <<input, phase, stage, defined, active, qualified, results>>

SkipGame ==
  /\ InScript
  /\ CurrentScript.hasGame
  /\ position.game <= Len(Games)
  /\ Games[position.game] \notin defined
  /\ position' = [position EXCEPT !.game = @ + 1]
  /\ UNCHANGED <<input, phase, stage, defined, active, qualified, results>>

\* "only one game condition is active during project generation"
Activate(game) == active' = {game}

GameScript ==
  /\ InScript
  /\ CurrentScript.hasGame
  /\ position.game <= Len(Games)
  /\ Games[position.game] \in defined
  /\ Activate(Games[position.game])
  /\ BuildTargetProject(Games[position.game], active' \cap defined)
  /\ position' = [position EXCEPT !.game = @ + 1]
  /\ UNCHANGED <<input, phase, defined>>

-----------------------------------------------------------------------------
Ended(pass) == stage = pass /\ position.project > Len(List)

\* Start of a pass.  IterateTargetProjects forgets what had qualified.
BeginPass(pass) == stage' = pass /\ position' = StartPosition /\ qualified' = FALSE

(***************************************************************************)
(* GenerateBuildSet: a `*` or `@` command builds the dependencies of all   *)
(* projects for all games, with a graph that ProcessCommandLine keeps on   *)
(* its stack.                                                              *)
(***************************************************************************)
StartSimulation ==
  /\ stage = "start"
  /\ simulates
  /\ BeginPass("simulate")
  /\ defined' = Game
  /\ UNCHANGED <<input, phase, active, results>>

\* Slip: the games stay defined.
EndSimulationAllGames ==
  /\ Ended("simulate")
  /\ BeginPass("build")
  /\ UNCHANGED <<input, phase, defined, active, graphs, built, phase1, solution>>

\* The old state of the games comes back, and BuildTargetProjects starts.
EndSimulation ==
  /\ Ended("simulate")
  /\ defined' = wanted
  /\ BeginPass("build")
  /\ UNCHANGED <<input, phase, active, graphs, built, phase1, solution>>

StartBuild ==
  /\ stage = "start"
  /\ ~simulates
  /\ BeginPass("build")
  /\ UNCHANGED <<input, phase, defined, active, results>>

\* BuildTargetProjects reports failure if no script qualified, which only
\* HandleMKSLN, in the last phase, is kept from by it.
EndBuild ==
  /\ Ended("build")
  /\ IF mksln /\ (qualified \/ (twoPhase /\ phase = 1))
     THEN BeginPass("graph")
     ELSE stage' = "built" /\ UNCHANGED <<position, qualified>>
  /\ UNCHANGED <<input, phase, defined, active, results>>

(***************************************************************************)
(* HandleMKSLN, and GetProjectDependencies after phase 1, build the        *)
(* dependencies of the target projects in m_dependencyGraph.               *)
(***************************************************************************)
EndGraph ==
  /\ Ended("graph")
  /\ BeginPass("translate")
  /\ UNCHANGED <<input, phase, defined, active, graphs, built, phase1, solution>>

\* Slip: the projects of phase 1 are left out of the solution.
EndTranslateOnePhase ==
  /\ Ended("translate")
  /\ IF twoPhase /\ phase = 1
     THEN phase1' = solution /\ solution' = << >> /\ stage' = "built"
     ELSE solution' = solution /\ stage' = "done" /\ UNCHANGED phase1
  /\ UNCHANGED <<input, phase, position, defined, active, qualified, graphs, built>>

EndTranslate ==
  /\ Ended("translate")
  /\ IF twoPhase /\ phase = 1
     THEN phase1' = solution /\ solution' = << >> /\ stage' = "built"
     ELSE solution' = solution \o phase1 /\ stage' = "done" /\ UNCHANGED phase1
  /\ UNCHANGED <<input, phase, position, defined, active, qualified, graphs, built>>

\* main deletes the CVPC, with its conditionals and graph, and makes another.
SecondPhase ==
  /\ stage = "built" /\ twoPhase /\ phase = 1
  /\ phase' = 2
  /\ stage' = "start"
  /\ defined' = wanted
  /\ active' = {}
  /\ graphs' = [g \in Graph |-> << >>]
  /\ UNCHANGED <<input, position, qualified, built, phase1, solution>>

Exit ==
  /\ stage = "built" /\ (twoPhase => phase = 2)
  /\ stage' = "done"
  /\ UNCHANGED <<input, phase, position, defined, active, qualified, results>>

RunEnded == stage \in {"done", "error"} /\ UNCHANGED runVars

Iterate == NextProject \/ PlainScript \/ GamesExhausted \/ SkipGame \/ GameScript

RunStep ==
  \/ Iterate
  \/ StartSimulation \/ EndSimulation \/ StartBuild \/ EndBuild
  \/ EndGraph \/ EndTranslate \/ SecondPhase \/ Exit

RunNext == RunStep \/ RunEnded

RunSpec == RunInit /\ [][RunNext]_runVars

-----------------------------------------------------------------------------
\* The projects that the command line asks for in phase f.
GamesAsked(f, script) ==
  IF f \notin script.phases THEN {}
  ELSE IF script.hasGame THEN wanted \cap script.games ELSE {NoGame}

AskedOf(f, p) ==
  UNION {{[phase |-> f, project |-> p, script |-> k, game |-> g] :
            g \in GamesAsked(f, scripts[p][k])} : k \in 1..Len(scripts[p])}

AskedIn(f) == UNION {AskedOf(f, p) : p \in Elements(target)}

(***************************************************************************)
(* Each phase generates every project and game the command line asks for,  *)
(* none other and none twice, also after the simulation of /allgames and   *)
(* whatever games the passes before left active.                           *)
(***************************************************************************)
BuiltAsAsked ==
  stage \in {"graph", "translate", "built", "done"} =>
    /\ Elements(built) = AskedIn(1) \cup (IF phase = 2 THEN AskedIn(2) ELSE {})
    /\ Once(built)

(***************************************************************************)
(* "CGameFilterProjectIterator::VisitProject - no project found by that    *)
(* name" is never met: the pass that translates visits nothing that the    *)
(* pass that filled the graph did not.                                     *)
(***************************************************************************)
EveryProjectFound == stage # "error"

\* Every VPC file asked for, of either phase, is in the solution.
SolutionHasEveryFile ==
  stage = "done" /\ solution # << >> =>
    \A f \in IF twoPhase THEN Phase ELSE {1} : \A n \in AskedIn(f) :
      \E k \in 1..Len(solution) : solution[k].phase = f /\ SameFile(solution[k], n)

(***************************************************************************)
(* The hand-over of the projects to the solution is complete: none is      *)
(* looked for in vain, and each VPC file of either phase arrives.          *)
(***************************************************************************)
HandOverComplete == EveryProjectFound /\ SolutionHasEveryFile

(***************************************************************************)
(* dependencies.h: "based on what games were specified on the command      *)
(* line, it builds the list of CDependency_Project*s": the solution has    *)
(* the projects of every game.                                             *)
(***************************************************************************)
SolutionHasEveryGame ==
  stage = "done" /\ solution # << >> =>
    \A f \in IF twoPhase THEN Phase ELSE {1} : AskedIn(f) \subseteq Elements(solution)
=============================================================================
