# Verification of VPC

VPC (Valve Project Creator, `src/utils/vpc`) reads `.vpc` scripts and writes project and
solution files for Visual Studio, make, CodeLite and Xcode. It is a batch program of one
thread, built on a platform layer (`tier0`) that is made for many. What makes the program
itself hard to get right is not concurrency but

- state that outlives a step it was meant for: marks of an earlier search, game conditionals
  of an earlier pass, macros of an earlier project, the settings of an earlier file, flags
  that say "already done";
- state that outlives the process: `vpc.cache` and the `.vpc_crc` files, read by a later run
  after anybody has edited, deleted or half written anything;
- algorithms over cyclic graphs of heap objects;
- small interpreters (macros, conditions, folders, load addresses, byte formats) with several
  passes over one text.

The platform layer has the concurrency: locks made of a compare-and-swap, events made of a
condition variable, a thread object that two threads write, a call channel with timeouts, a
queue and a lock-free list.

The modules here model both in TLA+. TLC checks them on small instances, and TLAPS proves
the properties that hold of them for every instance, but for the values of conditions. Where a comment of
the code promises more than the code keeps, a run shows the difference or the statement names it as its limit.

## The system

### Components, their state and operations

| Component | Code | State | Operations |
|---|---|---|---|
| Command line | `vpc.cpp`, `main.cpp` | `m_BuildCommands`, conditionals, options string | `ParseBuildOptions`, `HandleSingleCommandLineArg`, `GenerateOptionsCRCString`; `/windows` runs two phases |
| Group script | `groupscript.cpp` | `m_Projects`, `m_Groups`, tags | parse `$Project`, `$Group`, `$Games`; `GenerateBuildSet` |
| Project script | `projectscript.cpp`, `configuration.cpp`, `scriptsource.cpp` | script stack and position, `m_ScriptList`, missing file count | `ParseProjectScript` and some 60 keywords: `$Folder`, `$File`, `$LoadAddressMacroAuto`, `$Macro` and others |
| Conditions | `conditionals.cpp`, `tier1/exprevaluator.cpp` | `m_Conditionals` (defined, active) | resolve symbols, evaluate `[ ... ]`, `$Conditional` |
| Macros | `macros.cpp` | `m_Macros` | set, resolve in strings and conditions, remove script macros |
| Dependency graph | `dependencies.cpp` | `m_Projects`, `m_AllFiles`, marks | build, scan includes, load and save the cache, `DependsOn` |
| CRC check | `projectscript.cpp`, `vpccrccheck` | `.vpc_crc` files | expand file patterns, write, compare |
| Project data, generators | `baseprojectdatacollector.cpp`, `projectgenerator_*.cpp` | folders, file dictionary, property tables | `StartFile`, `RemoveFile`, write projects |
| Solution generators | `solutiongenerator_*.cpp` | none | write solutions, ask `DependsOn` |
| Perforce | `p4sln.cpp` | none | a solution for a changelist |
| tier0 locks and events | `threadtools.h`, `threadtools.cpp` | lock words, counts, `m_cSet` | `CThreadSpinRWLock`, `CThreadFastMutex`, `CThreadRWLock`, `CThreadEvent` |
| tier0 threads and calls | `threadtools.inl`, `threadtools.cpp` | `m_threadId`, `m_threadZombieId`, `m_Param`, `m_ReturnVal` | `Start`, `ThreadProc`, `Join`, `Stop`; `Call`, `WaitForCall`, `Reply` |
| tier0 containers | `threadtools.h`, `tslist.h` | `Head`, `Tail`; `m_Head` | `CMessageQueue`, `CTSListBase` |
| the rest of tier0, tier1, vstdlib, interfaces | | | platform layer and containers, shared with other programs |

### How they interact

`main` makes a `CVPC` and calls `ProcessCommandLine` (twice, with a new `CVPC`, for
`/windows`). That parses the group scripts, selects projects (`GenerateBuildSet`, which for
`*` and `@` commands builds a dependency graph of all projects in all games), and then
iterates over scripts and games three or four times with different visitors: to generate
projects that are not current, to fill the dependency graph, and to translate project indices
to `CDependency_Project`s. Project scripts go through macro resolution and conditions line by
line; what they say of files goes to the generator, which keeps folders and a dictionary. The
tables of macros and conditionals are those of the run, so one script can see what another
left. The dependency graph reads `vpc.cache` before its scan and writes it after. The solution
generator gets the list of `CDependency_Project`s and asks `DependsOn` of each pair.

All of it shares the one global `g_pVPC`; nothing is locked. Other actors are the user, who
edits scripts and sources between runs and during them, the compiler, which runs
`vpccrccheck` before each build, and whatever stops the process.

In tier0 the parts build on each other: `CThreadRWLock` is a `CThreadMutex` and two events,
`CWorkerThread` is a `CThread` with a mutex and two events, `CMessageQueue` a mutex and an
event. VPC is linked with them but starts no thread; they are modelled as the library they
are, with any number of threads and any order of calls that their comments allow.

### What makes each component correct

| Component | Correctness | Where |
|---|---|---|
| `DependsOn` | answers reachability, whatever earlier searches marked; ends on cycles | `DependencySearch`, proved |
| Cache validation | exactly the entries that cannot reach a changed file stay, no pointer dangles | `CacheInvalidation`, proved |
| Cache over runs | where no record was torn and all included files are source files, a run with the cache finds nothing that a run without it would not, and all of it if no header appeared that an entry had missed; the limits are below | `DependencyCache`, proved |
| Cache format | what is read is what was written; a torn file costs one record | `CacheFormat`, proved |
| Build set | removal beats addition in any order; no project twice | `BuildSet`, proved |
| Run and phases | each project and game asked for is generated once, and each VPC file arrives in the solution; that each of its games does, is not kept (`solution_games`) | `SolutionRun`, the first two proved |
| CRC check | a project that passes is what its scripts would generate; one just generated passes | `ProjectCurrency`, proved |
| CRC text | the CRC changes when files appear or go that the project would take: kept for the first pattern of a line if it has no macro and no search is left open, not otherwise (`disk_names` and the limits below) | `CRCScript`, proved |
| Macros | longest match, conditionals first, the loop ends | `MacroResolution`, the first two proved |
| Conditions | a condition has the value that its grammar gives it: that of the comments beside the functions, which is C's, as the file's head promises, unless an `&&` follows an `\|\|` between the same parentheses | `ExprEvaluator` |
| Shared tables | a script sees what it would see alone | `ProjectMacros`, proved |
| `$Folder`, `$File` | each file gets its own settings, each brace ends what it began | `FolderScript`, proved |
| Load addresses | images do not overlap and end below the limit | `LoadAddress`, proved |
| Files of a project | folders, dictionary and collector agree; none twice, none deleted in use | `ProjectFiles`, proved |
| Reader-writer locks | many readers or one writer; nobody is forgotten | `SpinRWLock`, `ThreadRWLock`, refinement proved |
| Mutex | one owner until all its nested calls are given back | `FastMutex`, proved |
| Event | a wait ends only by a signal or its limit, and no signal is lost | `ThreadEvent`, refinement proved |
| Thread object | what the owner knows, and joins, is what runs | `ThreadStart`, proved |
| Worker calls | each call gets its own answer and returns | `WorkerThread`, the first proved |
| Queue | a FIFO whose readers look without the lock | `MessageQueue`, refinement proved |
| List | a stack, although nodes come back while others look at them: in the 32-bit layout | `TSList`, refinement proved for it |

## The modules

Every module is written from the code; `PROJECT.json` names the lines behind each definition.
Names of variables and actions are those of the code. A comment "Slip" in front of an operator
marks a mutated form, kept to show that a property can fail: no specification uses it.

### VPC

**`DependencySearch`** - `CDependency::DependsOn` and `FindDependency_Internal`. State: the two
dependency lists of each file (`m_Dependencies`, `m_AdditionalDependencies`), the counter of
the graph and the mark of each file, the recursion as a `stack` of frames, and the query at
hand. One step is the entry of a call up to its first nested call, or one turn of its loop.
The lists are sets and the next child is any of them, so results hold for every order. The
counter wraps at `MarkMax` (2^32 - 1 in the program). `ClearAllDependencyMarks` is modelled
with its reset.

**`CacheInvalidation`** - what `LoadCache` does with the entries it has read:
`CheckCacheEntries` sets the dirty flags, `RemoveDirtyCacheEntries` repeats passes that spread
them and then deletes, `MarkAllCacheEntriesValid` marks what is left. One step visits one
entry; the order of the table is left open and new in every pass. **`IncludeGraph`** holds
the reference definitions: the survivors as the largest set without outdated entries that
holds its own dependencies, and reachability as a least closed set. **`SourceFiles`** holds the
constants that the two cache modules share.

**`DependencyCache`** - several runs of `BuildProjectDependencies` with the full set: load,
scan, save, each file parsed and each `#include` looked up in a step, with an environment that
edits, deletes and creates files at any time and a process that can die while it scans or
saves. The size and the modification time of a file stand for its version. The histories `late` and `cacheLate`
remember which files were created since the includes of an entry, or of a record, were looked for:
`AddIncludesForFile` does not look again for those of an entry that survived the load.

**`CacheFormat`** - the bytes. `SaveCache` is an operator from records to a byte sequence; the
reader is a state machine, one field per step. `Init` chooses the records and a prefix of the
file. `IntpWidth` is the width of `intp`.

**`BuildSet`** - `GenerateBuildSet`, one project of one command per step, additions in a first
pass, removals in a second. A word beginning with `/` that no option claims is a command that
both passes look at, as in the code. The relation `dependsOn` is an input: what
`DependencySearch` shows `DependsOn` to answer.

**`SolutionRun`** - `IterateTargetProjects` (one script or one game per step) with the visitor of
the current stage, the simulated `/allgames` with its saving and restoring of the games, the
two phases and the hand-over between them, up to the list given to `GenerateSolutionFile`.

**`ProjectCurrency`** - `IsProjectCurrent` with `VPC_CheckProjectDependencyCRCs`, and a
generation: each script read for its CRC and read again to be parsed, its includes read before
what follows them, the two files of a 2010 project saved, the CRC file written. A CRC stands
for the text it is taken from; edits never bring an old text back. A script names its project,
which saves it, after everything that it includes.

**`CRCScript`** - what that text covers. `PerformFileSubstitions` looks through each line for the
first `$FilePattern` and adds the names on disk that match it, the word being taken as it stands; the parser
resolves the macros in every pattern of the line and in every `$os` name (`Resolved`) and adds what these match. A generation takes its CRC, files come and go
on disk, and a check takes it again. Whether a keyword is still being looked for is a `static`
of the function and a variable here, so that it survives from one load to the next.

**`MacroResolution`** - `ResolveMacrosInStringInternal` with its two buffers and its two flags,
one macro per step, and `Sys_ReplaceString`. Macro names of one length may come in any order,
since `qsort` leaves it open. Values that refer back to their own macro are outside the model
(`Acyclic`; the loop in the code then runs until its buffer is full). The reference is `Scan`:
the string is read once, at each reference the longest name wins, and what is put in is the
value of the macro, scanned itself (`Expanded`).

**`ExprEvaluator`** - the recursive descent of `CExpressionEvaluator` as operators that return
success, position and value, and a state machine that feeds it every sequence of tokens,
followed by whatever the buffer held before. Its references are two grammars over whole
sequences: the one in the comments of the functions (`Flat`), where `&&` and `||` bind alike, and that of C
(`COr`), which the head of the file names.

**`ProjectMacros`** - the tables that outlive a project. `ParseProjectScript` sets the reserved
macros, the statements of the script run one per step (`$Macro`, `$MacroRequired`,
`$Conditional`, the load address alias), and at the end `RemoveScriptCreatedMacros` takes away
what is not marked internal. A value is a text and the case it is written in, since the table
ignores case and then keeps the old spelling. The reference is the same script run alone.

**`FolderScript`** - `VPC_Keyword_Folder`, `VPC_Keyword_AddFile` and the configurations of a
folder. The text is a tree of items laid out as tokens; the parser has one position in it, which
file lists, sections and build steps save and restore. Modelled are the conditions and missing
files of a list (with the loop that skips one after it removes one), `$os` names, a section
that is parsed once per file, custom build steps, nested and unity folders, and the
configurations that a folder applies to the files after it. What the generator is told is kept as
a set of facts and compared with what the tree means (`Meant`).

**`LoadAddress`** - `Internal_LoadAddressMacroAuto` in words that wrap: the list is read line by
line, each project picks the entry with its name, and the padded variant shares out what is
left of the address space and rounds up.

**`ProjectFiles`** - the files of a project, kept in the folders (what is saved), the dictionary
and the base collector. Folders are opened, files listed, listed again and removed in any order.

### tier0

**`Threads`** holds the constants and two operators for program counters (`Goto`, `At`).
A step of these modules is one access to shared memory, or what happens with a mutex held. Memory
is sequentially consistent; the code uses full barriers or compare-and-swap at the places where it
matters on x86.

Abstract specifications, each a page: **`RWLock`** (readers or one writer), **`SyncEvent`** (an event of
either kind with waits that may have a limit), **`Fifo`** and **`NodeStack`**.

- **`SpinRWLock`** - `CThreadSpinRWLock`: one word with a count and a writer's bit, and a separate
  `m_writerId`. Implements `RWLock` (`SpinLockImplementsRWLock`).
- **`ThreadRWLock`** - `CThreadRWLock`: three counts under a mutex, two events, and a reader that gives
  the mutex up to wait. Implements `RWLock` (`RWLockImplementsPromise`).
- **`FastMutex`** - `CThreadFastMutex`: `m_ownerID` by compare-and-swap, `m_depth` as a plain `int` whose
  `++` and `--` are a read and a write each.
- **`ThreadEvent`** - the POSIX `CThreadEvent`: `m_cSet`, `m_bWakeForEvent` and a condition variable that
  wakes one thread per signal, may wake for nothing, and may lose a signal to a wait that
  times out. Implements `SyncEvent` (`EventImplementsPromise`).
- **`WorkerThread`** - `CWorkerThread`: clients call over one channel, with timeouts, late answers, the end
  of the worker and restarts. Its events are those that `SyncEvent` promises.
- **`ThreadStart`** - `CThread` of the POSIX build: `Start` and `ThreadProc` with the two locals they
  share, a failing `Init`, `Join`, `Stop` and the end of the thread, over several starts.
- **`MessageQueue`** - `CMessageQueue`, with readers that look at `Head` without the mutex. Implements `Fifo`.
- **`TSList`** - `CTSListBase::Push`, `Pop` and `Detach`, with `Depth` and `Sequence` as halves of one integer.
  `WholeHead` says whether `value64` covers the pointer and that integer, as it does with 4-byte pointers, or
  the pointer alone, as in a 64-bit build without the native list of Windows. Implements `NodeStack` in the first case.
- **`LinkedList`** - the nodes that a chain of pointers leads to, for the queue and the list.

### Composition and instances

`MCThreads` puts the modules of tier0 side by side, `MCGraphs` the four modules of the
dependency graph, `MCScripts` those that read a script and `MCGeneration` those about what a run
writes. In each, a variable `part` says which module a behaviour is about, and the others keep one
initial state: the components are independent at this level, and the runs explore the sum and not the
product of their states. `MCMacroResolution`, `MCFolderScript`, `MCSolutionRun` and
`MCProjectCurrency` hold instances too long for that.

Modules meet at stated boundaries. `CacheInvalidation` shows what the loops inside `LoadCache`
leave, and `DependencyCache` takes that as one step through the same operator `Survivors` of
`IncludeGraph`. `CacheFormat` shows that a torn file loses one record, and
`DependencyCache!Crash` leaves such files, remembered in the history variable `torn`. `BuildSet` takes from
`DependencySearch` that `DependsOn` is a relation that does not depend on earlier queries, and
`SolutionRun` takes the result of `BuildSet` as a list without duplicates, which is `NoProjectTwice`.
`ProjectCurrency` takes a CRC for the text, and `CRCScript` says what text that is. `ThreadRWLock` and
`WorkerThread` use events as `SyncEvent` describes them, and `ThreadEvent` is shown to implement
`SyncEvent`: the detailed event can stand in for the abstract one.

## Runs

### Runs that pass

| Run | Properties | Instance |
|---|---|---|
| `graphs` | `AnswerCorrect`; `ExactlySurvivorsStay`; `IncludesChecked`, `SameAsWithoutCache`; `RemovalTrumps`, `NoProjectTwice` | search: 3 files, one of them a library, graphs with cycles and diamonds, counter of two bits (wraps several times), all flags. loading: 3 source files and a library, all graphs, all sets of changed files. scanning: a source file and two headers, two versions each, the first ones cyclic, crashes in the scan and in the save. building: 3 projects, one for two games, 3 tags, all lines of up to 3 commands |
| `graph_progress` | `GraphWorkEnds` | the first three with `MarkMax` 2 and one version |
| `scripts` | `GreedyMatch`, `ConditionUntouched`, `ResolutionEnds`; `LeftToRight`; `FoldersReadAsWritten`; `AreasFit`; `ProjectsAreIndependent` | macros `a`, `ab`, `c` and a longer one, conditionals `ab` and `d`, acyclic values out of nothing, `.`, `b`, `$a`, `$ab` and `$c.`, strings of up to two of 6 pieces (four references, `b` and `.`); all sequences of up to 6 of 8 tokens; folder trees of two items (three after a `$Configuration`), two folders deep, over files that exist, are missing, are `$os` names or have a build step; load address lists of up to 3 entries, lengths 0, 5, 8 and 63, in words of 6 bits aligned to 4, from 5 bases; two projects with up to 2 of 10 statements each |
| `generation` | `ReadAsWritten`; `FilesAccounted`; `CRCFollowsDisk`; `BuiltAsAsked`, `HandOverComplete`; `CurrentMeansGenerated`, `GeneratedIsCurrent` | cache: `intp` of 4 bytes, two names, up to two dependencies, every prefix. files: 3 names, two of which sort alike, a folder in the project, up to 3 objects. CRC text: scripts of up to two of 10 lines and some of three with an empty one between, two patterns, one of them also behind a macro, one `$os` name, 4 files on disk. solution: 2 projects, one with up to two scripts with game conditions, 2 games, both phases. currency: chain of 3 scripts and a generator definition, 2 edits, in two scenarios (below) |
| `threads` | `SpinLockImplementsRWLock`; `OwnershipNests`; `NobodyIsForgotten`, `RWLockImplementsPromise`; `NoWakeupLost`, `EventImplementsPromise`; `CallsAreAnswered`; `OwnerKeepsTrack`; `QueueImplementsFifo`; `NodesAccounted`, `ListImplementsStack` | 3 threads, reader limit 4, nesting 2, both kinds of event; 2 clients with 2 calls and a worker that runs twice; 3 starts; 2 writers, 2 readers and 3 messages; 2 users with 2 nodes, 3 depths, 2 sequence numbers, the 32-bit layout |
| `progress` | `LocksProgress`, `CallsReturn`, `OwnerReturns`, `QueueDrains` | as `threads`, with one run of the worker, 2 starts, one writer and 2 messages |

Each passing run that checks invariants also checks the conjunction of the type invariants of its
modules (`GraphsTypeOK`, `ScriptsTypeOK`, `GenerationTypeOK`, `ThreadsTypeOK`). Some properties are
conjunctions of named parts that say one thing together: `NobodyIsForgotten`, for example, is
`CountsHold /\ OneWriteToken /\ ReadersAreWoken`. The parts have a comment each in the module.

The two scenarios of the currency part are separate on purpose. `busy` has edits at any time, 2
options, forced runs and deleted outputs; `faulty` a script read twice, missing sources, stops while
saving and while writing the header of the CRC file. A forced run or one with other options that fails
on the way leaves an older CRC file that still matches (`currency_missing`), so the property holds of
what each scenario allows and not of both together.

Why the bounds are enough. A mark can be stale in one way only: it was left by an earlier sweep
or by the constructor, and two bits let the counter pass its limit with both kinds present.
The order of passes in the cache validation matters from a chain of three entries on, which
three source files give in all orders. A record boundary can be lost inside a name, a number
or a list, and the two names are chosen on both sides of the difference between the widths.
Removal and addition interact through at most two commands that meet in one project; three
allow one in between. Two games and two phases are where the first of something can be taken
for all of it. Two edits let a script change between its two reads and again before the check.
Six tokens hold a parenthesis with an operator inside and a negation outside. What one item of a
folder leaves in the parser reaches the next item or the next brace, so two items with one level
below them, and a third where a configuration has to come first, have every neighbour. A project
can find in the tables what one project before it left. Three list entries have one before, one
after and one between, and words of 6 bits overflow with them. Three threads are two that meet and
one that comes in between; the theorems remove this bound. Two
calls let a late answer meet the next one, two runs of the worker are a restart. Two messages behind
one signal are what one `Set` has to stand for. Two nodes and two users give every form in
which a node comes back while another thread looks at it, short of as many pushes as there are
sequence numbers, which is the bound of `SwapPush`: there the list can be deceived, in the program
after 65536 pushes during one `Pop`.

Fairness. Only what one thread does once it has been called is assumed to go on: weak fairness
of the steps of a search, of a load, of a scan and of a macro resolution, and in tier0 of the steps
by which a thread acquires, waits, releases, starts or ends (`SpinFairness`, `RWFairness`,
`WorkerFairness`, `StartFairness`, `QueueFairness`): a scheduler that runs every thread. A worker
may stop answering: its callers have their limit. Whoever holds a lock is assumed to give it back. Strong fairness is assumed of three steps: `WaitSignal`
and `TakeMessage` of a reader of the queue, which need a mutex or a signal that others may take
first again and again, and `TimeOutReply`, because a limit runs out whatever the worker does in
the meantime. Nothing is assumed of users, of files, of calls being made, or of a run being started.

`LocksProgress` is what these locks give and no more: `CThreadSpinRWLock` and `CThreadRWLock` do not
promise a turn to each thread. Somebody gets the spin lock; a writer gets the other one; a
pending reader gets it unless a writer comes, since writers go first there.

`CHECK_DEADLOCK FALSE` stands in the configurations of `MCThreads` (`threads`, `progress`), of
`WorkerThread` and of `ThreadStart`: when the calls, starts and messages of the instance are used up,
all threads rest. The other runs check deadlock: a part that has come to its end has an explicit
step that changes nothing.

### Where the code and its comments disagree

Six runs check a property that a comment or a message of the code states, and TLC finds a
behaviour of the code that violates it. `PROJECT.json` quotes the lines. Other disagreements are the
limits of the properties that hold, in the next section.

| Run | Property | What happens |
|---|---|---|
| `format_64` | `RoundTrip` | A 64-bit build cannot read the cache it writes: eight bytes written, four read. |
| `solution_games` | `SolutionHasEveryGame` | Of a project with one script for two games the solution has the first game twice and the second not at all. |
| `currency_missing` | `CurrentMeansGenerated` | After a complete generation, a forced one with source files missing leaves an incomplete project and the old CRC file, and the project passes for current. |
| `disk_names` | `NewFilesNoticed` | The CRC text never has the files of an `$os` name: one that appears goes unnoticed. |
| `worker_restart` | `CallBlocksForResponse` | The exit event of a worker that has ended stays set, and the first call after a restart takes the new worker for gone. |
| `thread_start` | `StartReportsInit` | `Start` of the POSIX build can overwrite what `ThreadProc` reports: a thread whose `Init` failed counts as started. |

### Limits in the statements

The properties that hold are limited where the code does less than one might expect; the
limits are part of their statements, which the runs and the theorems share:

- `AnswerCorrect` leaves out the sweep at the counter's limit. The constructor
  stores 0 - 1 as the mark of a new file (`dependencies.cpp:66`), so that one sweep in 2^32
  takes every file for visited.
- A header created after an entry of the cache was parsed is not found as long as the entry stays:
  `RemoveDirtyCacheEntries` keeps an entry whose own file is unchanged, `MarkAllCacheEntriesValid` marks it, and
  `AddIncludesForFile` (`dependencies.cpp:300`) does not look for its includes again. So `SameAsWithoutCache` promises
  that the graph has nothing but what a run without a cache would find, and all of it only where no entry includes
  such a file (`NothingMissed`); `IncludesChecked` speaks of the files that were there then. "This class builds a graph
  of all dependencies" (`dependencies.h:139`) is not kept beyond that. Files that were edited or deleted
  are covered, and so is every created file that is included from an entry parsed again.
- `IncludesChecked` and `SameAsWithoutCache` leave out what follows a cache cut off inside its
  records: `MarkAllCacheEntriesValid` (`dependencies.cpp:1033`) also marks entries that exist
  only as names, their includes are not read in that run, and the run saves them so.
- The same two are stated for files that include source files only (`OnlySources`). `IsSourceFile` (`dependencies.cpp:47`)
  does not know `.inl`, and such a file (`public/tier0/threadtools.inl`) comes back from the cache
  as a scanned file without includes.
- `CurrentMeansGenerated` holds of the scenarios that `Careful` describes, as those of the run are. It leaves
  out a CRC file cut off after its header, which passes whatever the rest of the scripts contain
  (`crccheck_shared.cpp:454`); forced runs, other options and deleted outputs where a run can fail on
  the way, since the CRC file of the run before stays and may fit again (`currency_missing`); and
  edits during a run whose scripts include one script twice, or the project's own: it is recorded
  once for the CRC file and parsed twice.
- `CRCFollowsDisk` speaks of the pattern that comes right after the keyword, if
  it has no macro: a second pattern of a line and an `$os` name (`disk_names`) are never looked for; the parser resolves macros first (`projectscript.cpp:239`), the CRC takes the word as it stands
  and warns that changes "won't trigger automatic project rebuild" (`crccheck_shared.cpp:183`).
  A keyword that ends a line leaves the flag up for the next line with a word, and the flag of the last line for
  the next load in the same process: the lines that such a search can reach are left out (`OpenBefore`). With
  `SecondPatternScript`, `MacroScript` or `OpenScript` of `MCGeneration` for `OsScript` in `MCDiskNames.cfg`,
  TLC finds `NewFilesNoticed` violated as it is there.
- `GreedyMatch` speaks of strings and values in which each reference stays what it is (`ReferencesStand`). It leaves
  out a reference directly followed by a symbol of names, since the value put there is read together with it by
  the next macro of the pass; a value that continues a name which an earlier `$` began (`Free`); and a reference that
  comes out of a value after its own macro in the pass (`ComesLate`): a shorter macro whose name begins it takes
  it in the same pass. With `c` = `$ab`, and macros `a`, `ab` and `c`, the names sort `ab`, `a`, `c` or `ab`, `c`, `a`,
  and in the second order `$c` comes out as the value of `a` followed by `b`, whatever `ab` is: "greedy" is true of a
  pass, not of what a pass puts in. Dropping any one of these conditions lets TLC find a string that comes out otherwise.
- `ConditionUntouched` is stated for texts that mention none of the longest macros (`LongestUnmentioned`), which
  sort before all others, as the long names do that every run of VPC defines. Otherwise a macro that a conditional blocks and
  that comes first empties the condition (`macros.cpp:124` copies from a buffer not yet
  filled), and an empty condition counts as true.
- After a macro that a conditional blocks, no further macro of a condition is replaced
  (`macros.cpp:92`): nothing is claimed of conditions that mix both.
- `LeftToRight` speaks of the grammar of the comments in the functions (`exprevaluator.cpp:292`), in which `&&` and
  `||` have one precedence. The head of the file promises "C style" expressions (`exprevaluator.cpp:4`), which is
  another grammar: the values are C's unless an `&&` follows an `||` between the same parentheses (`OrThenAnd`), as
  in `1 || 0 && 0`, which is false here. It leaves out a negation directly after a negation (`! ! 0` is true, since the second
  `!` takes the place of the first, `exprevaluator.cpp:246`), and says nothing of what is not an expression (`(1` is accepted).
- `ProjectsAreIndependent` leaves out what follows a project that sets a conditional or a macro
  which VPC created itself: both stay for the projects after it. It compares values up to case, as
  the table does: a macro keeps the spelling of whoever set it first.
- `FoldersReadAsWritten` leaves out two kinds of lists. Of a list with an `$os` name and no file that is
  there, the section is left unread (`projectscript.cpp:435`), its configuration is read as one of the
  folder, and its brace ends the folder. Of two missing files after each other, the loop with
  `files.Remove(i)` (`projectscript.cpp:350`) does not check the second.
- `AreasFit` needs a list that leaves space: a sum that passed the end of the words or of the range, or a padding
  smaller than the alignment, can let areas overlap. The comment of the keyword assumes a list that is packed and
  ends below the limit (`projectscript.cpp:1387`). A list of which no entry counts has no areas; if the
  list is padded, the code then divides by their number, zero (`projectscript.cpp:1348`).
- `BuiltAsAsked` says that a script without games is generated once, and not under which game: the one that the pass
  before activated last is still active then (`vpc.cpp:1528`), and what its conditions give is not modelled.
- `FilesAccounted` leaves out names that were removed from within another folder than their own:
  `RemoveFile` takes the name out of the dictionary and reports success, the file stays in its folder,
  and the next `$File` of that name lists it again.
- `NoWakeupLost` leaves out a signal that a wait used up while it timed out, which POSIX allows.
- `CallsAreAnswered` leaves out what follows a call that was given up: its late answer can meet the
  next call, or overwrite that one's.
- `OwnerKeepsTrack` leaves out what follows a `Start` that timed out, one that overwrote a failed
  `Init` (`thread_start`), and a `Stop` that did not stop.
- `ListImplementsStack` and `NodesAccounted` are of the layout in which `value64` covers pointer, depth and sequence
  number (`WholeHead`). On 64-bit builds other than those for Windows, which use its native list, it covers the
  pointer: with `Parts = {"list"}`, `WholeHead = FALSE` and `ListImplementsStack` alone in `MCThreads.cfg`, TLC finds a `Pop` that puts a node on
  the list which another thread has.
- `FoldersReadAsWritten` takes an `$os` name that resolves for the file it resolves to. The `.cpp` siblings which
  the code lists as excluded from the build (`projectscript.cpp:441`) are not in the model, nor are scripts read
  with the check for missing files or unity builds switched off.
- `SpinLockImplementsRWLock` needs fewer threads than the count of readers can hold, 65536 in the
  program; nothing in the code enforces that.
- `SolutionRun` has no dependencies between the phases: `HandleMKSLN` (`vpc.cpp:2214`) does not
  hand the projects of phase 1 to `BuildProjectDependencies`, so the dependencies that
  `ResolveAdditionalProjectDependencies` describes are not added to that graph.

Observed while modelling, without a property that takes a side: a wait without a limit for a manual
POSIX event may return false although the event is set; `Set` signals one waiter, and the others find
out by polling every 10 ms; the "infinite" wait of `Call` ends after 30 seconds; a condition after a
`$FilePattern` is always an error.

## Proofs

Seven modules `..._proofs` prove that the components are correct for every value of their constants.
Each theorem states a property that TLC had checked on the instances above, and has the same form: an
inductive invariant is a conjunction of named parts, and a step or a lemma for each action shows that
the action keeps it. The properties alone are not inductive, for they speak of moments at which something
has been finished. The tables name the invariant of each proof and what makes it hold.

`Graphs_proofs` (files, includes, projects)

| Theorem | Statement | Argument |
|---|---|---|
| `AnswerIsCorrect` | `SearchSpec => []AnswerCorrect` | `Frontier`: a successor of a visited file is visited, is being entered, or is pending in a frame of the stack. With an empty stack the visited files are a closed set without the target. `OnlyReachable` gives the answer true. |
| `MarksAreFresh` | `SearchSpec => []FreshMarks` | `MarkBound`: a mark is at most the counter, or the initial one; so a bumped counter is new, except at the limit |
| `NoPointerDangles`, `SurvivorsStay` | `LoadSpec => []NoDanglingPointer`, `[]ExactlySurvivorsStay` | Two halves: an entry that could stay never becomes dirty (`NeverTooDirty`), because the survivors hold their own dependencies; and when a pass found nothing new, no clean entry it has visited has a dirty child (`PassClean`), because the dirty set has not changed since the pass began. Deletion needs the second, the reference set the first. |
| `CheckedAreComplete` | `OnlySources` gives `CacheSpec => []IncludesChecked` | `CacheInv`. The clock never goes back, so what was read from an outdated file stays outdated (`StampInv`), and what has been found with what is still to be tried is all that a file names (`FrameInv`). Records point at records, or at what `SaveCache` still has to write (`RecordsInv`), so that no survivor of a load lacks a child. |
| `CacheIsTransparent` | `OnlySources` gives `CacheSpec => []SameAsWithoutCache` | From the same invariant: in a quiet run all entries are up to date (`QuietInv`), so the graph has only what the disk has, and no more is reached along fewer dependencies (`MoreReach`). What an entry lacks was created after it was parsed (`late`); with `NothingMissed` the graph agrees with the disk on all that the roots reach. |
| `NeverTwice`, `BuildSetCorrect` | `BuildSpec => []NoProjectTwice`, `[]RemovalTrumps` | During the first pass targets and pending projects make up what was asked for so far, during the second the targets without the pending ones are what was asked for without what was refused so far. `FindAndRemove` takes out one occurrence, so the second half needs `NoProjectTwice`. |

`Format_proofs` (the bytes of the cache)

| Theorem | Statement | Argument |
|---|---|---|
| `CacheReadAsWritten` | `IntpWidth = 4` gives `FormatSpec => []ReadAsWritten` | `FileWritten` says where each field of each record lies in the file, `StringRead` and `FieldRead` what the reader makes of a field that is there and of one that is cut off. `FormatInv`: after n whole records the table holds these and bare names, and the reader is at the field that its position says, or behind the end with one torn record. |

`Solution_proofs` (a run, and load addresses)

| Theorem | Statement | Argument |
|---|---|---|
| `GeneratedAsAsked` | `RunSpec => []BuiltAsAsked` | A pass visits slots: a place in the targets, one of its scripts, one game. `RunInv` says that what the visitor has collected is what the slots behind the position qualify for, and that the position goes through them in order, so that each comes once. |
| `SolutionIsComplete` | `RunSpec => []HandOverComplete` | The third pass meets the slots that the second has put into the graph, under the same conditions (`GraphInv`), so that its search succeeds; `HandOverInv` carries the list of phase 1 to the end of phase 2. |
| `AreasAllFit` | `AddressSpec => []AreasFit` | `AddressInv`: an entry's area ends where the next begins, before rounding (`Before`, `Below`). Rounding moves an address by less than an alignment, and the padding before an entry grows with its place in the list (`PadsGrow`). |

`Generation_proofs` (project currency and the text of a CRC)

| Theorem | Statement | Argument |
|---|---|---|
| `CurrentIsGenerated` | `CurrencySpec => [](Careful(scenario) => CurrentMeansGenerated)` | Versions grow, so that a CRC file that does not fit the disk never fits again (`NumbersInv`). During a run the lines recorded for it and the lines parsed are of the same scripts (`Recording`) and agree wherever a recorded line is still up to date (`Agreeing`), and what was parsed is what the project leads to (`Closing`). Where runs can fail, none starts while the CRC file fits (`FragileInv`). |
| `GeneratedPasses` | `CurrencySpec => GeneratedIsCurrent` | A step property: what `WriteCRCCheckFile` writes is up to date if nothing was edited since it was read, and it has one line for a script. |
| `PatternsAreFollowed` | `CRCSpec => CRCFollowsDisk` | `CRCInv`: a load gives each line its text from the disk of that moment, with a search on or off before each line as the line before left it, and on only where an earlier line opened one (`IsLoad`, `SearchGoesOn`); the record is of the disk of the last generation. Two loads that begin without a search have the same searches (`SameSearches`). |

`Scripts_proofs` (files, tables and macros)

| Theorem | Statement | Argument |
|---|---|---|
| `FilesStayAccounted` | `FilesSpec => []FilesAccounted` | No object is in two places (`PlacesInv`), which `FilesAccounted` does not say and which a removal from one folder needs; the dictionary names a file once, and misses strayed names only (`NamesInv`). |
| `ScriptsAreIndependent` | `SharedSpec => []ProjectsAreIndependent` | What a statement shows afterwards depends on what was shown before it and on which macros are VPC's own (`SeenAlike`, `Owned`). Between two projects only these are left, with `PROJECTDIR`, if no script changed one (`BetweenInv`). |
| `MatchIsGreedy` | `ResolveSpec => []GreedyMatch` | `GreedyInv`: the buffer always scans to what `pString` scans to, since a replacement leaves standing references standing (`ReplacedReadsTheSame`); and a macro that the pass has behind it is in the buffer only if a later macro has put it there. A pass that replaced nothing has left no reference, and such a text scans to itself. `Expanded` is a fixpoint since a macro has fewer macros below it than there are (`ExpandedIs`). |
| `ConditionsAreUntouched` | `LongestUnmentioned` gives `ResolveSpec => []ConditionUntouched` | Nothing replaces the first macro in the order, so both buffers hold `pString` after it (`ResolveInv`), and a guarded `$` gives every later macro the same text back. |

`Folder_proofs` (the text of a folder)

| Theorem | Statement | Argument |
|---|---|---|
| `FoldersAreReadAsWritten` | `FolderSpec => []FoldersReadAsWritten` | A place is an item of a folder, or the brace behind its last item; `Place` is its position in the text, `Told` the facts that the items before it mean. `FolderInv`: between two items the parser is at a place and has told what is before it, with the open folders, the unity files and the braces of that place (`AtItem`, `Inside`); within a list it has also told of the files before the one it works on (`Works`), and is at the section or behind it depending on whether a file was parsed (`AnyRead`). Each action leads to a place again, or past the last brace (`Finished`). |

Neither half of the property is inductive: `SettingsReachOwnFiles` says nothing before the end, and
`FoldersMatchBraces` does not say which folders are open. That the section of a list is parsed once per file and ends
behind its brace is shown from where the tokens of the tree lie (`TreeLaid`, `SectionFound`). That a list tells what the tree means
needs that the loop with `files.Remove(i)` keeps what exists and drops the rest, unless two missing files are
neighbours (`FilesChecked`). The two exemptions are those of the property. Where they differ the invariant does too: braces match
in texts without an unread section (`Calm`), and facts are those meant in texts without either list (`Clean`).

`Threads_proofs` (locks, events, threads, queue and list)

| Theorem | Statement | Argument |
|---|---|---|
| `MutexNests` | `MutexSpec => []OwnershipNests` | `MutexInv`: the owner is the one thread inside (`OwnerIsInside`), and at every step between the read and the write of `m_depth` it and the value read are known (`DepthAt`). Exclusion alone does not say what another thread may have done to `m_depth`. |
| `SpinWordTrue` | `SpinSpec => []WordCountsHolders` | `SpinInv`: the word is the number of readers while nobody writes and just the bit while somebody does; a count below the limit does not reach the bit. |
| `SpinRefines` | `SpinSpec => SpinLockImplementsRWLock` | Each step is a step of `RWLock` or a stutter: the swap is where the lock is taken, since it succeeds only for the word that was tested. |
| `RWNobodyForgotten` | `RWSpec => []NobodyIsForgotten` | The three parts and `Exclusion` are inductive together and none alone: who is woken depends on the counts, the counts on who holds the lock. |
| `RWRefines` | `RWSpec => RWLockImplementsPromise` | From the same invariant, action by action. |
| `EventWakes` | `EventSpec => []NoWakeupLost` | `SignalInv`: while the event is set, whoever is blocked polls, or somebody who was woken is on the way. |
| `EventRefines` | `EventSpec => EventImplementsPromise` | `EventInv`: the wake flag is up only while the event is set, and only a wait with a limit times out. |
| `CallsGetOwnAnswer` | `WorkerSpec => []CallsAreAnswered` | `CallInv`: who is in a call holds `m_Lock`, the worker cannot end meanwhile, and where the worker is says how far the call has come (`Served`) and what the channel holds (`ChannelAt`). |
| `OwnerKnows` | `StartSpec => OwnerKeepsTrack` | `StartInv`: all threads before the latest have ended, and what the latest has written into the locals of `Start` follows from where it is (`Reported`). |
| `QueueIsFifo` | `QueueSpec => QueueImplementsFifo` | `QueueInv`: there is a sequence that is the chain from `Head` and ends at `Tail`, and a message that was not sent points to none. What `Chain` computes is this sequence (`QueueReads`). |
| `ListIsStack` | `WholeHead` gives `ListSpec => ListImplementsStack` | `PopInv`: the sequence number in the head tells how many pushes there were since a `Pop` loaded it. Without one the list has only become shorter, so that an equal head means an unchanged list, and the successor that was read is still right. |
| `ListAccounts` | `WholeHead` gives `ListSpec => []NodesAccounted` | `ListHolds`: the list is a chain of the nodes that no thread has, as long as its depth says; and no two threads have the same node (`HandsApart`). |

The type invariants (`SearchTyped`, `CRCTyped` and so on) are theorems too, but for those of `CacheFormat`,
`FolderScript` and `ExprEvaluator`. Of a reader that meets only what a writer wrote, and of a parser in a text without
an unread section, `FormatInv` and `FolderInv` say more.

The proofs assume what the modules state, and TLC evaluates it on every run: sets of threads, nodes,
messages and names are finite, where one is counted; fewer threads than `ReaderLimit`, fewer nodes than
`DepthCount`; a "none" is not one of the things it stands beside; bounds such as `CallMax`, `RunMax`,
`StartMax` and `MaxEdits` are natural numbers; games are listed once; names in the cache have between 1 and 65535
characters and numbers two bytes; no keyword is a pattern and each pattern or `$os` name resolves to one; a list of load addresses has entries; macro names, values
and texts are sequences; a tree of items is two folders deep, and no missing file is an `$os` name. Some theorems
have a hypothesis of their own, each
with its reason above: `OnlySources`, `LongestUnmentioned`, `Careful`, `IntpWidth = 4` and `WholeHead`. `MCGraphs`, `MCMacroResolution`
and `MCProjectCurrency` state the first three
as assumptions, so that TLC confirms that the instances meet them; the other two are values of the configurations.

`Iteration` has what the library does not give in a form the provers can use: induction over the numbers, from
the least element of a set, and that a function defined by recursion over the numbers, or backwards over the
positions of a sequence, exists and is what its equation says. It also says where the parts of a text that is put together lie in it (`PartsLie`), which the records of
`CacheFormat` and the items of `FolderScript` share. `Chain`, the tables of `ProjectMacros`, the loads of `CRCScript`,
the replacements of `MacroResolution` and the file lists of `FolderScript` are reasoned about with it.

Only model-checked:

- `LeftToRight` of `ExprEvaluator`: the descent and the grammars are `RECURSIVE` operators over sequences, which the
  provers cannot use.
- Liveness, which needs fairness: `GraphWorkEnds`, `ResolutionEnds`, `LocksProgress`, `CallsReturn`, `OwnerReturns`,
  `QueueDrains`.
- The six disagreements that runs show, which are counterexamples.

## Not modelled

- Most of the repository's lines. Of some 109,700 lines of implementation the larger part is
  shared platform code that VPC is linked with and hardly calls: allocators (`dlmalloc`, `memstd`,
  `memdbg`), `keyvalues`, string and path functions, vector mathematics, console variables, profiling
  and logging. Another part is the text of output files and property tables, where each line writes
  one string (`solutiongenerator_xcode.cpp`, `projectgenerator_*.cpp`). Neither has state or order that
  a model would tell more about than a reading; the modules cover the parts that do.
- Use of freed memory after phase 1 (`main.cpp:172`): the projects of phase 1 keep pointers into
  a deleted graph. `SolutionRun` keeps the projects as values.
- Include directories per project: `DependencyCache` has one list, and so cannot show that the
  first project to reach a header decides for all where its includes are looked for.
- The tokenizer, line numbers and the limit of the script stack; parsing of groups and of the command
  line; `$Include`, libraries, shaders, schema files and the property keywords of configurations.
- Macros whose values lead back to themselves, environment variables as macros or conditionals, macros
  for compiler defines.
- The saving order of generators other than that of 2010 projects; `$AdditionalProjectDependencies`;
  restarting VPC from another directory.
- Perforce, which is driven by the answers of a server.
- `exprsimplifier.cpp`, an older copy of the evaluator that nothing calls.
- In tier0: priorities, affinity and suspension of threads, `CThreadFullMutex`, `CThreadLocal`, the
  reentrant variant of the spin lock, `CTSQueue` and `CTSPool`, the Windows builds of event and thread, and
  memory weaker than sequential consistency.

## Plan

Done, in the order of what it tells about the program: the dependency graph with its cache and
the build set; the solution run and project currency; macros and conditions; the shared tables,
folders, load addresses, project files and CRC text; the locks, events, threads, queue and list of tier0
with their abstract specifications and refinements; and the proofs of all of these but `LeftToRight`.

What would come next:

1. `ScriptStack` - push, pop and peek with line numbers and ownership of buffers.
2. `DataCollector` - configurations and their defaults; which property a file gets.
3. Include directories per project in `DependencyCache`.
4. `p4sln` - the projects a changelist touches, as a use of `DependsOn`.
