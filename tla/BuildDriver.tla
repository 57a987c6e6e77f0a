----------------------------- MODULE BuildDriver -----------------------------
(***************************************************************************)
(* The build driver (compile/src/compiler.cpp): it loads a tree of         *)
(* projects from their config.json files into ProjectList, then compiles   *)
(* each project after the projects it depends on, running rc.exe and       *)
(* cl.exe.  The recursion of the constructor, of compile() and depend() is *)
(* an explicit stack; any command may fail.                                *)
(***************************************************************************)
EXTENDS Naturals, Sequences, FiniteSets

CONSTANTS
  Projects,   \* project directories
  Root,       \* the directory the driver starts in
  Workspaces, \* bound: the contents of the config.json files to explore
  Missing,    \* nullptr, what FindProject returns for an unknown name
  MaxStack    \* bound: calls to depend() the thread's stack has room for

ASSUME BuildAssumption ==
  /\ Root \in Projects
  /\ Missing \notin Projects
  /\ MaxStack \in Nat \ {0}
  /\ \A w \in Workspaces : Root \in DOMAIN w /\ DOMAIN w \subseteq Projects
  /\ \A w \in Workspaces : \A p \in DOMAIN w :
       /\ w[p].parts \in Seq(DOMAIN w)   \* "subproject", in order
       /\ w[p].depends \in Seq({w[p].depends[i] : i \in DOMAIN w[p].depends})  \* names
       /\ w[p].rc \in Nat                \* number of resource scripts
       /\ w[p].sources \in BOOLEAN       \* whether source() finds any file
       /\ w[p].readable \in BOOLEAN      \* whether config.json can be read

VARIABLES
  config,     \* the configuration of every project
  phase,      \* "start", "load", "build", "done", "crashed"
  list,       \* ProjectList, head first
  stack,      \* the active calls, innermost last
  cursor,     \* main's position in the list
  success,    \* main's success
  compiled,   \* project::compiled
  ran,        \* history: what cl.exe built, in order
  rcFailed    \* history: projects one of whose rc.exe commands failed

vars ==
  <<config, phase, list, stack, cursor, success, compiled, ran, rcFailed>>

Listed == {list[i] : i \in DOMAIN list}
Frames == [proj : Projects, at : {"load", "depend", "resource", "command"},
           i : Nat \ {0}]
Call(p, at) == [proj |-> p, at |-> at, i |-> 1]
Top == stack[Len(stack)]
Pop == SubSeq(stack, 1, Len(stack) - 1)
Advanced == [stack EXCEPT ![Len(stack)].i = @ + 1]
Running(at) == stack # <<>> /\ Top.at = at

\* FindProject: the first project of the list with that name, or nullptr.
FindProject(name) ==
  LET found == {i \in DOMAIN list : config[list[i]].name = name}
  IN  IF found = {} THEN Missing
      ELSE list[CHOOSE i \in found : \A j \in found : i <= j]

\* The projects, and perhaps nullptr, that p's "depends" resolve to.
Depends(p) ==
  IF p = Missing THEN {}
  ELSE {FindProject(config[p].depends[i]) : i \in DOMAIN config[p].depends}

\* Everything that include() visits, starting from p's depends.
Reach(p) ==
  LET reach[n \in 0 .. Len(list)] ==
        IF n = 0 THEN Depends(p)
        ELSE UNION {{q} \cup Depends(q) : q \in reach[n - 1]}
  IN  reach[Len(list)]

Cyclic == \E p \in Listed : p \in Reach(p)

Init ==
  /\ config \in Workspaces
  /\ phase = "start"
  /\ list = <<>>
  /\ stack = <<>>
  /\ cursor = 1
  /\ success = TRUE
  /\ compiled = [p \in DOMAIN config |-> FALSE]
  /\ ran = <<>>
  /\ rcFailed = {}

\* A false return, which every caller passes on at once to main, or an
\* exception, which main catches.
Fail ==
  /\ success' = FALSE
  /\ stack' = <<>>
  /\ UNCHANGED <<config, list, cursor, compiled, ran, rcFailed>>

\* A null dereference or an exhausted stack: the process is gone.
Crash ==
  /\ phase' = "crashed"
  /\ UNCHANGED <<config, list, stack, cursor, success, compiled, ran, rcFailed>>

\* A step of the calls alone.
Goes(calls) ==
  /\ stack' = calls
  /\ UNCHANGED <<config, phase, list, cursor, success, compiled, ran, rcFailed>>

\* The caller's loop goes on to its next name and compile() calls depend().
Enter(q) ==
  IF Len(stack) < MaxStack THEN Goes(Append(Advanced, Call(q, "depend")))
  ELSE Crash

-------------------------------------------------------------------------------
(***************************************************************************)
(* Faulty variants.                                                        *)
(***************************************************************************)
DependNext_SkipsUnknown ==     \* an unknown dependency is only reported
  /\ Running("depend")
  /\ Top.i <= Len(config[Top.proj].depends)
  /\ LET q == FindProject(config[Top.proj].depends[Top.i])
     IN  IF q = Missing \/ compiled[q] THEN Goes(Advanced) ELSE Enter(q)

DependNext_SameIndex ==        \* the loop does not go to the next name
  /\ Running("depend")
  /\ Top.i <= Len(config[Top.proj].depends)
  /\ LET q == FindProject(config[Top.proj].depends[Top.i])
     IN  CASE q = Missing -> Fail /\ UNCHANGED phase
           [] q # Missing /\ compiled[q] -> Goes(stack)
           [] OTHER -> Enter(q)

Compile_MarksAtOnce(p) ==      \* compiled is set before the dependencies
  /\ compiled' = [compiled EXCEPT ![p] = TRUE]
  /\ stack' = IF compiled[p] THEN stack ELSE Append(stack, Call(p, "depend"))

CommandFails_Ignored ==        \* the exit code of cl.exe is not looked at
  /\ compiled' = [compiled EXCEPT ![Top.proj] = TRUE]
  /\ stack' = Pop
  /\ UNCHANGED <<config, phase, list, cursor, success, ran, rcFailed>>

-------------------------------------------------------------------------------
(***************************************************************************)
(* project::project : read the configuration, link the project at the head *)
(* of the list, then construct its subprojects in order.                   *)
(***************************************************************************)
Construct(p, callers) ==
  IF config[p].readable
  THEN /\ list' = <<p>> \o list
       /\ stack' = Append(callers, Call(p, "load"))
       /\ phase' = "load"
       /\ UNCHANGED <<config, cursor, success, compiled, ran, rcFailed>>
  ELSE Fail /\ phase' = "build"

LoadRoot == phase = "start" /\ Construct(Root, <<>>)

LoadPart ==
  /\ Running("load")
  /\ Top.i <= Len(config[Top.proj].parts)
  /\ Construct(config[Top.proj].parts[Top.i], Advanced)

Loaded ==
  /\ Running("load")
  /\ Top.i > Len(config[Top.proj].parts)
  /\ stack' = Pop
  /\ phase' = IF Len(stack) = 1 THEN "build" ELSE "load"
  /\ UNCHANGED <<config, list, cursor, success, compiled, ran, rcFailed>>

(***************************************************************************)
(* main : compile every project of the list until one fails, then free the *)
(* list and report.                                                        *)
(***************************************************************************)
Compile(p) ==
  /\ stack' = IF compiled[p] THEN stack ELSE Append(stack, Call(p, "depend"))
  /\ UNCHANGED compiled

NextProject ==
  /\ phase = "build" /\ stack = <<>> /\ success
  /\ cursor <= Len(list)
  /\ Compile(list[cursor])
  /\ cursor' = cursor + 1
  /\ UNCHANGED <<config, phase, list, success, ran, rcFailed>>

Report ==
  /\ phase = "build" /\ stack = <<>>
  /\ ~ success \/ cursor > Len(list)
  /\ phase' = "done"
  /\ UNCHANGED <<config, list, stack, cursor, success, compiled, ran, rcFailed>>

(***************************************************************************)
(* project::depend : compile the projects this one depends on.             *)
(***************************************************************************)
DependNext ==
  /\ Running("depend")
  /\ Top.i <= Len(config[Top.proj].depends)
  /\ LET q == FindProject(config[Top.proj].depends[Top.i])
     IN  CASE q = Missing -> Fail /\ UNCHANGED phase
           [] q # Missing /\ compiled[q] -> Goes(Advanced)
           [] OTHER -> Enter(q)

DependsDone ==
  /\ Running("depend")
  /\ Top.i > Len(config[Top.proj].depends)
  /\ Goes(Append(Pop, Call(Top.proj, "resource")))

(***************************************************************************)
(* project::resource : one rc.exe for each script; a script that fails is  *)
(* left out of the command line and nothing more.                          *)
(***************************************************************************)
Resource(ok) ==
  /\ Running("resource")
  /\ Top.i <= config[Top.proj].rc
  /\ stack' = Advanced
  /\ rcFailed' = IF ok THEN rcFailed ELSE rcFailed \cup {Top.proj}
  /\ UNCHANGED <<config, phase, list, cursor, success, compiled, ran>>

\* A project without source files is compiled without a command.
ResourcesDone ==
  /\ Running("resource")
  /\ Top.i > config[Top.proj].rc
  /\ IF config[Top.proj].sources
     THEN stack' = Append(Pop, Call(Top.proj, "command")) /\ UNCHANGED compiled
     ELSE stack' = Pop /\ compiled' = [compiled EXCEPT ![Top.proj] = TRUE]
  /\ UNCHANGED <<config, phase, list, cursor, success, ran, rcFailed>>

(***************************************************************************)
(* The command line: include() walks the dependencies again, trusting      *)
(* FindProject; then cl.exe runs.                                          *)
(***************************************************************************)
CommandSucceeds ==
  /\ ran' = Append(ran, Top.proj)
  /\ compiled' = [compiled EXCEPT ![Top.proj] = TRUE]
  /\ stack' = Pop
  /\ UNCHANGED <<config, phase, list, cursor, success, rcFailed>>

CommandFails == Fail /\ UNCHANGED phase

Command(ok) ==
  /\ Running("command")
  /\ CASE Missing \in Reach(Top.proj) -> Crash
       [] Missing \notin Reach(Top.proj) /\ ok -> CommandSucceeds
       [] OTHER -> CommandFails

Step ==
  \/ LoadRoot \/ LoadPart \/ Loaded
  \/ NextProject \/ Report
  \/ DependNext \/ DependsDone
  \/ ResourcesDone
  \/ \E ok \in BOOLEAN : Resource(ok) \/ Command(ok)

Next == phase # "crashed" /\ Step

Spec == Init /\ [][Next]_vars

\* The driver is one thread: it runs until it ends.
FairSpec == Spec /\ WF_vars(Next)

-------------------------------------------------------------------------------
(***************************************************************************)
(* Properties.                                                             *)
(***************************************************************************)
TypeOK ==
  /\ phase \in {"start", "load", "build", "done", "crashed"}
  /\ list \in Seq(Projects)
  /\ stack \in Seq(Frames)
  /\ cursor \in 1 .. Len(list) + 1
  /\ success \in BOOLEAN
  /\ compiled \in [DOMAIN config -> BOOLEAN]
  /\ ran \in Seq(Projects)
  /\ rcFailed \subseteq Projects

\* A project is compiled only after every project it depends on that has
\* sources, whatever the order of the list and whichever commands fail.
BuildOrder ==
  \A i \in DOMAIN ran : \A q \in Depends(ran[i]) :
    /\ q # Missing
    /\ config[q].sources => \E j \in 1 .. i - 1 : ran[j] = q

\* However many projects depend on it, a project is compiled once.
BuiltOnce ==
  \A i, j \in DOMAIN ran : ran[i] = ran[j] => i = j

\* The order of the build, each project once, whatever the graph.
DriverInv == TypeOK /\ BuildOrder /\ BuiltOnce

\* include() dereferences what FindProject returns without a test: when it
\* runs, every name it will look up is in the list.
IncludeFinds == Running("command") => Missing \notin Reach(Top.proj)

\* The driver reports SUCCESSFUL only when every loaded project is compiled,
\* and its command succeeded if it has sources.
ReportIsTrue ==
  phase = "done" /\ success =>
    \A p \in Listed :
      /\ compiled[p]
      /\ config[p].sources => \E i \in DOMAIN ran : ran[i] = p

\* A project that depends on itself, through any number of others, is never
\* marked compiled.
CyclesNotCompiled == \A p \in Listed : compiled[p] => p \notin Reach(p)

\* Only such a cycle exhausts the stack: without one the recursion of
\* compile() and depend() is no deeper than there are projects.
OnlyCyclesCrash == phase = "crashed" => Cyclic

\* Only cycles of dependencies go wrong: nothing else crashes the driver, no
\* project of a cycle counts as compiled, and whatever include() looks up exists
\* (compiler.cpp:305-386).
CyclesAloneFail == OnlyCyclesCrash /\ CyclesNotCompiled /\ IncludeFinds

\* The driver ends, with a report unless a cycle has crashed it.
DriverEnds == <>(phase \in {"done", "crashed"})

(***************************************************************************)
(* What the comments of compiler.cpp say of the code.                      *)
(***************************************************************************)
\* "whether project has successfully built in current build task".
CompiledMeansBuilt == \A p \in Listed : compiled[p] => p \notin rcFailed
===============================================================================
