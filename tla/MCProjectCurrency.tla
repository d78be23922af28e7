------------------------ MODULE MCProjectCurrency ------------------------
(***************************************************************************)
(* A project script that can include a second, which can include a third.  *)
(* In `busy` the user edits at any time, deletes outputs, forces runs and  *)
(* changes options.  In `faulty` the project script can include the third  *)
(* itself too, so that it is read twice, and things go wrong.              *)
(***************************************************************************)
EXTENDS ProjectCurrency

CONSTANTS root, common, macros, definitions

IncludeOnce ==
  [s \in Script |->
     CASE s = root   -> {<< >>, <<common>>}
       [] s = common -> {<< >>, <<macros>>}
       [] OTHER      -> {<< >>}]
IncludeTwice ==
  [s \in Script |->
     CASE s = root   -> {<<common>>, <<common, macros>>}
       [] s = common -> {<< >>, <<macros>>}
       [] OTHER      -> {<< >>}]

busy == [mayInclude |-> IncludeOnce, options |-> {"release", "retail"},
         acts |-> {"force", "delete", "race"}, faults |-> {"header"}]
faulty == [mayInclude |-> IncludeTwice, options |-> {"release"},
           acts |-> {}, faults |-> {"source", "save", "header"}]
forcedIncomplete == [mayInclude |-> IncludeOnce, options |-> {"release"},
                     acts |-> {"force"}, faults |-> {"source"}]

CurrencyStart(chosen) ==
  /\ scenario \in IF chosen THEN Scenario ELSE {CHOOSE c \in Scenario : TRUE}
  /\ script \in {s \in [Script -> {[text |-> 0, includes |-> i] :
                                    i \in UNION {scenario.mayInclude[r] : r \in Script}}] :
                  chosen \/ \A r \in Script : s[r].includes = CHOOSE i \in scenario.mayInclude[r] : TRUE}
  /\ options \in IF chosen THEN scenario.options ELSE {CHOOSE o \in scenario.options : TRUE}
  /\ CurrencyInit

MCScenario == {busy, faulty}

ASSUME ScenariosAreCareful == \A c \in MCScenario : Careful(c)

MCMissing == {forcedIncomplete}
=============================================================================
