-------------------------- MODULE BuildDriverProofs --------------------------
(***************************************************************************)
(* Proofs about BuildDriver, for any projects: whatever the graph of the   *)
(* dependencies, the order of the list and the commands that fail, a       *)
(* project is compiled once and after those it depends on, the report is   *)
(* true, and only a cycle of dependencies crashes the driver.              *)
(***************************************************************************)
EXTENDS BuildDriver, DataLemmas, FiniteSetTheorems

\* What the j-th name of p's "depends" resolves to.
Dep(p, j) == FindProject(config[p].depends[j])
Ready(q) == q # Missing /\ compiled[q]

Names == /\ config \in Workspaces
         /\ list \in Seq(DOMAIN config)

CallType == [proj : DOMAIN config, at : {"load", "depend", "resource", "command"}, i : Nat \ {0}]

BdType ==
  /\ Names
  /\ phase \in {"start", "load", "build", "done", "crashed"}
  /\ stack \in Seq(CallType)
  /\ cursor \in 1 .. Len(list) + 1
  /\ success \in BOOLEAN
  /\ compiled \in [DOMAIN config -> BOOLEAN]
  /\ ran \in Seq(DOMAIN config)
  /\ rcFailed \subseteq DOMAIN config

\* Until the tree is loaded nothing is compiled, and the calls are the loader's.
Loading ==
  /\ phase \in {"start", "load"} =>
       /\ ran = <<>> /\ cursor = 1
       /\ \A p \in DOMAIN config : ~ compiled[p]
  /\ phase \in {"start", "done"} => stack = <<>>
  /\ \A k \in DOMAIN stack : (stack[k].at = "load") <=> (phase = "load")

\* A call waits for the one above it; the names before the n-th are done.
Below(f, g) == /\ f.at = "depend" /\ f.i - 1 \in 1 .. Len(config[f.proj].depends)
               /\ Dep(f.proj, f.i - 1) = g.proj
Settled(f, n) == \A j \in 1 .. Len(config[f.proj].depends) :
                   f.at # "depend" \/ j < n => Ready(Dep(f.proj, j))

\* Every call on the stack waits for the next, and none of their projects is
\* compiled.
Waiting ==
  phase # "load" =>
    /\ \A k \in 1 .. Len(stack) : ~ compiled[stack[k].proj]
    /\ \A k \in 1 .. Len(stack) - 1 : \A f \in {stack[k]}, g \in {stack[k + 1]} :
         Below(f, g) /\ Settled(f, f.i - 1)
    /\ stack # <<>> => \A f \in {Top} : Settled(f, f.i)

\* What is compiled has been built, and all that it depends on is compiled.
Built ==
  /\ \A p \in DOMAIN config : compiled[p] =>
       /\ \A q \in Depends(p) : Ready(q)
       /\ config[p].sources => \E i \in DOMAIN ran : ran[i] = p
  /\ \A i \in DOMAIN ran : compiled[ran[i]]

\* main's loop: the projects before the cursor are compiled, or the last of them
\* is at the bottom of the stack.
Progress ==
  phase \in {"build", "done"} /\ success =>
    /\ \A k \in 1 .. cursor - 1 :
         compiled[list[k]] \/ (k = cursor - 1 /\ stack # <<>> /\ stack[1].proj = list[k])
    /\ phase = "done" => cursor > Len(list)

BuildInv ==
  /\ BdType /\ Loading /\ Waiting /\ Built /\ Progress
  /\ BuildOrder /\ BuiltOnce /\ CyclesNotCompiled

-------------------------------------------------------------------------------
(***************************************************************************)
(* Names and what is reached from them.                                    *)
(***************************************************************************)
LEMMA Workspace ==
  ASSUME Names
  PROVE  /\ Root \in DOMAIN config /\ DOMAIN config \subseteq Projects
         /\ Missing \notin DOMAIN config
         /\ \A p \in DOMAIN config :
              /\ config[p].parts \in Seq(DOMAIN config)
              /\ Len(config[p].depends) \in Nat
              /\ DOMAIN config[p].depends = 1 .. Len(config[p].depends)
<1>1. config \in Workspaces
  BY DEF Names
<1>2. Root \in DOMAIN config /\ DOMAIN config \subseteq Projects /\ Missing \notin DOMAIN config
  BY <1>1, BuildAssumption
<1>3. ASSUME NEW p \in DOMAIN config
      PROVE  /\ config[p].parts \in Seq(DOMAIN config)
             /\ Len(config[p].depends) \in Nat
             /\ DOMAIN config[p].depends = 1 .. Len(config[p].depends)
  <2>1. /\ config[p].parts \in Seq(DOMAIN config)
        /\ config[p].depends \in Seq({config[p].depends[i] : i \in DOMAIN config[p].depends})
    BY <1>1, BuildAssumption
  <2> QED
    BY <2>1
<1> QED
  BY <1>2, <1>3

\* FindProject answers with a project of the list or nullptr.
LEMMA Found ==
  ASSUME Names, NEW name
  PROVE  FindProject(name) = Missing \/ FindProject(name) \in Listed
<1> DEFINE found == {i \in DOMAIN list : config[list[i]].name = name}
<1>1. CASE found = {}
  BY <1>1 DEF FindProject
<1>2. CASE found # {}
  <2>1. found \in SUBSET Nat
    BY DEF Names
  <2>2. \E i \in found : \A j \in found : i <= j
    BY <1>2, <2>1, LeastNumber
  <2>3. FindProject(name) = list[CHOOSE i \in found : \A j \in found : i <= j]
    BY <1>2 DEF FindProject
  <2> QED
    BY <2>2, <2>3 DEF Listed
<1> QED
  BY <1>1, <1>2

LEMMA DependsAre ==
  ASSUME Names, NEW p \in DOMAIN config
  PROVE  /\ Depends(p) = {Dep(p, j) : j \in 1 .. Len(config[p].depends)}
         /\ \A q \in Depends(p) : q = Missing \/ q \in Listed
<1>1. p # Missing /\ DOMAIN config[p].depends = 1 .. Len(config[p].depends)
  BY Workspace
<1>2. Depends(p) = {Dep(p, j) : j \in 1 .. Len(config[p].depends)}
  BY <1>1 DEF Depends, Dep
<1> QED
  BY <1>2, Found DEF Dep

\* One more step of include() from the projects of S.
Onward(S) == UNION {{q} \cup Depends(q) : q \in S}

\* The recursive function that Reach reads exists.
LEMMA ReachSteps ==
  ASSUME Names, NEW p
  PROVE  \E r : /\ r = [n \in 0 .. Len(list) |-> IF n = 0 THEN Depends(p) ELSE Onward(r[n - 1])]
                /\ Reach(p) = r[Len(list)]
<1> DEFINE Is(r, m) == r = [n \in 0 .. m |-> IF n = 0 THEN Depends(p) ELSE Onward(r[n - 1])]
           T == {m \in Nat : \E r : Is(r, m)}
<1>1. 0 \in T
  <2>1. Is([n \in 0 .. 0 |-> Depends(p)], 0)
    OBVIOUS
  <2> QED
    BY <2>1
<1>2. ASSUME NEW m \in Nat, m \in T
      PROVE  m + 1 \in T
  <2> PICK r : Is(r, m)
    BY <1>2
  <2> DEFINE s == [n \in 0 .. m + 1 |-> IF n = m + 1 THEN Onward(r[m]) ELSE r[n]]
  <2>1. \A n \in 0 .. m + 1 : s[n] = IF n = 0 THEN Depends(p) ELSE Onward(s[n - 1])
    <3> SUFFICES ASSUME NEW n \in 0 .. m + 1
                 PROVE  s[n] = IF n = 0 THEN Depends(p) ELSE Onward(s[n - 1])
      OBVIOUS
    <3>1. CASE n = 0
      BY <3>1
    <3>2. CASE n \in 1 .. m
      <4>1. s[n] = r[n] /\ s[n - 1] = r[n - 1]
        BY <3>2
      <4>2. r[n] = Onward(r[n - 1])
        BY <3>2
      <4> QED
        BY <3>2, <4>1, <4>2
    <3>3. CASE n = m + 1
      BY <3>3
    <3> QED
      BY <3>1, <3>2, <3>3
  <2>2. DOMAIN s = 0 .. m + 1 /\ s = [n \in 0 .. m + 1 |-> s[n]]
    OBVIOUS
  <2> HIDE DEF s
  <2>3. Is(s, m + 1)
    BY <2>1, <2>2
  <2> QED
    BY <2>3
<1> HIDE DEF T
<1>3. Len(list) \in T
  BY <1>1, <1>2, NumberInduction DEF Names
<1>4. PICK r : Is(r, Len(list))
  BY <1>3 DEF T
<1> QED
  BY <1>4 DEF Reach, Onward

\* What is reached stays in a set that the dependencies do not leave.
LEMMA ReachInside ==
  ASSUME Names, NEW p, NEW C, Depends(p) \subseteq C, \A q \in C : Depends(q) \subseteq C
  PROVE  Reach(p) \subseteq C
<1>1. PICK r : /\ r = [n \in 0 .. Len(list) |-> IF n = 0 THEN Depends(p) ELSE Onward(r[n - 1])]
               /\ Reach(p) = r[Len(list)]
  BY ReachSteps
<1> DEFINE T == {n \in Nat : n <= Len(list) => r[n] \subseteq C}
<1>2. Len(list) \in Nat
  BY DEF Names
<1>3. 0 \in T
  BY <1>1, <1>2
<1>4. ASSUME NEW n \in Nat, n \in T
      PROVE  n + 1 \in T
  <2> SUFFICES ASSUME n + 1 <= Len(list) PROVE r[n + 1] \subseteq C
    OBVIOUS
  <2>1. n + 1 \in 0 .. Len(list) /\ n + 1 # 0 /\ (n + 1) - 1 = n
    BY <1>2
  <2>2. r[n + 1] = Onward(r[n])
    BY <1>1, <2>1
  <2>3. r[n] \subseteq C
    BY <1>2, <1>4
  <2> QED
    BY <2>2, <2>3 DEF Onward
<1> HIDE DEF T
<1>5. Len(list) \in T
  BY <1>2, <1>3, <1>4, NumberInduction
<1> QED
  BY <1>1, <1>2, <1>5 DEF T

\* A path of at most as many edges as the list is long is reached.
LEMMA ReachPath ==
  ASSUME Names, NEW path, NEW k \in Nat, NEW m \in Nat, k < m, m - k <= Len(list) + 1,
         \A i \in k .. m - 1 : path[i + 1] \in Depends(path[i])
  PROVE  path[m] \in Reach(path[k])
<1>1. PICK r : /\ r = [n \in 0 .. Len(list) |-> IF n = 0 THEN Depends(path[k]) ELSE Onward(r[n - 1])]
               /\ Reach(path[k]) = r[Len(list)]
  BY ReachSteps
<1>2. Len(list) \in Nat
  BY DEF Names
<1> DEFINE T == {n \in Nat : n <= Len(list) /\ k + n + 1 <= m => path[k + n + 1] \in r[n]}
           U == {n \in Nat : (m - k - 1) + n <= Len(list) => path[m] \in r[(m - k - 1) + n]}
<1>3. 0 \in T
  BY <1>1, <1>2
<1>4. ASSUME NEW n \in Nat, n \in T
      PROVE  n + 1 \in T
  <2> SUFFICES ASSUME n + 1 <= Len(list), k + (n + 1) + 1 <= m
               PROVE  path[k + (n + 1) + 1] \in r[n + 1]
    OBVIOUS
  <2>1. r[n + 1] = Onward(r[n])
    BY <1>1, <1>2
  <2>2. path[k + n + 1] \in r[n]
    BY <1>2, <1>4
  <2>3. path[k + (n + 1) + 1] \in Depends(path[k + n + 1])
    <3>1. k + n + 1 \in k .. m - 1 /\ (k + n + 1) + 1 = k + (n + 1) + 1
      OBVIOUS
    <3> QED
      BY <3>1
  <2> QED
    BY <2>1, <2>2, <2>3 DEF Onward
<1>5. m - k - 1 \in Nat /\ k + (m - k - 1) + 1 = m /\ m - k - 1 <= Len(list)
  BY <1>2
<1>6. m - k - 1 \in T
  <2> HIDE DEF T
  <2> QED
    BY <1>3, <1>4, <1>5, NumberInduction
<1>7. path[m] \in r[m - k - 1]
  BY <1>5, <1>6
<1>8. 0 \in U
  BY <1>5, <1>7
<1>9. ASSUME NEW n \in Nat, n \in U
      PROVE  n + 1 \in U
  <2> SUFFICES ASSUME (m - k - 1) + (n + 1) <= Len(list)
               PROVE  path[m] \in r[(m - k - 1) + (n + 1)]
    OBVIOUS
  <2>1. r[(m - k - 1) + (n + 1)] = Onward(r[(m - k - 1) + n])
    <3> DEFINE l == (m - k - 1) + (n + 1)
    <3>1. l \in 0 .. Len(list) /\ l # 0 /\ l - 1 = (m - k - 1) + n
      BY <1>2, <1>5
    <3> QED
      BY <1>1, <3>1
  <2>2. path[m] \in r[(m - k - 1) + n]
    BY <1>2, <1>5, <1>9
  <2> QED
    BY <2>1, <2>2 DEF Onward
<1>10. Len(list) - (m - k - 1) \in U
  <2>1. Len(list) - (m - k - 1) \in Nat
    BY <1>2, <1>5
  <2> HIDE DEF U
  <2> QED
    BY <1>8, <1>9, <2>1, NumberInduction
<1>11. (m - k - 1) + (Len(list) - (m - k - 1)) = Len(list)
  BY <1>2, <1>5
<1> QED
  BY <1>1, <1>2, <1>10, <1>11

-------------------------------------------------------------------------------
(***************************************************************************)
(* The steps.                                                              *)
(***************************************************************************)
\* The names mean the same as long as the list stays.
LEMMA NamesStay ==
  ASSUME UNCHANGED <<config, list>>
  PROVE  /\ \A p : Depends(p)' = Depends(p) /\ Reach(p)' = Reach(p)
         /\ \A p, j : Dep(p, j)' = Dep(p, j)
         /\ Listed' = Listed
  BY DEF Depends, Reach, Dep, FindProject, Listed

\* As long as nothing is compiled, what is compiled stays in order.
LEMMA Steady ==
  ASSUME BuildInv, UNCHANGED <<config, list, compiled, ran>>
  PROVE  Built' /\ BuildOrder' /\ BuiltOnce' /\ CyclesNotCompiled'
<1>1. /\ \A p : Depends(p)' = Depends(p) /\ Reach(p)' = Reach(p)
      /\ Listed' = Listed
  BY NamesStay
<1>2. Built'
  BY <1>1 DEF BuildInv, Built, Ready
<1>3. BuildOrder' /\ BuiltOnce'
  BY <1>1 DEF BuildInv, BuildOrder, BuiltOnce
<1>4. CyclesNotCompiled'
  BY <1>1 DEF BuildInv, CyclesNotCompiled
<1> QED
  BY <1>2, <1>3, <1>4

LEMMA Initially == Init => BuildInv
<1> SUFFICES ASSUME Init PROVE BuildInv
  OBVIOUS
<1>1. Names
  BY DEF Init, Names
<1>2. BdType
  BY <1>1, Workspace DEF Init, BdType
<1>3. Loading /\ Waiting /\ Progress
  BY DEF Init, Loading, Waiting, Progress
<1>4. \A p \in DOMAIN config : ~ compiled[p]
  BY DEF Init
<1>5. Built /\ BuildOrder /\ BuiltOnce
  BY <1>4 DEF Init, Built, BuildOrder, BuiltOnce
<1>6. CyclesNotCompiled
  BY DEF Init, CyclesNotCompiled, Listed
<1> QED
  BY <1>2, <1>3, <1>5, <1>6 DEF BuildInv

\* A stack whose calls wait for each other.
LEMMA Waits ==
  ASSUME Names, UNCHANGED <<config, list, compiled>>, NEW s, stack' = s, Len(s) \in Nat,
         \A k \in 1 .. Len(s) : ~ compiled[s[k].proj],
         \A k \in 1 .. Len(s) - 1 : Below(s[k], s[k + 1]) /\ Settled(s[k], s[k].i - 1),
         s # <<>> => Settled(s[Len(s)], s[Len(s)].i)
  PROVE  Waiting'
<1>1. \A p, j : Dep(p, j)' = Dep(p, j)
  BY NamesStay
<1>2. \A f, g : Below(f, g)' <=> Below(f, g)
  BY <1>1 DEF Below
<1>3. \A f, n : Settled(f, n)' <=> Settled(f, n)
  BY <1>1 DEF Settled, Ready
<1> QED
  BY <1>2, <1>3 DEF Waiting, Top

\* While the tree is loaded nothing is compiled yet.
LEMMA NothingCompiled ==
  ASSUME BdType', ran' = <<>>, cursor' = 1, \A p \in DOMAIN config' : ~ compiled'[p]
  PROVE  /\ Built' /\ BuildOrder' /\ BuiltOnce' /\ CyclesNotCompiled'
         /\ phase' # "done" => Progress'
<1>1. phase' # "done" => Progress'
  BY DEF Progress
<1>2. Built' /\ BuildOrder' /\ BuiltOnce'
  BY DEF Built, BuildOrder, BuiltOnce
<1>3. CyclesNotCompiled'
  BY DEF CyclesNotCompiled, Listed, BdType, Names
<1> QED
  BY <1>1, <1>2, <1>3

LEMMA ConstructStep ==
  ASSUME BuildInv, phase \in {"start", "load"}, NEW p \in DOMAIN config,
         NEW callers \in Seq(CallType), \A k \in DOMAIN callers : callers[k].at = "load",
         Construct(p, callers)
  PROVE  BuildInv'
<1>1. BdType /\ Loading
  BY DEF BuildInv
<1>2. /\ config' = config /\ ran' = <<>> /\ cursor' = 1 /\ compiled' = compiled
      /\ \A q \in DOMAIN config : ~ compiled[q]
      /\ rcFailed' = rcFailed
  BY <1>1 DEF Construct, Fail, Loading
<1>3. CASE config[p].readable
  <2>1. list' = <<p>> \o list /\ stack' = Append(callers, Call(p, "load")) /\ phase' = "load"
    BY <1>3 DEF Construct
  <2>2. list' \in Seq(DOMAIN config)
    BY <1>1, <2>1 DEF BdType, Names
  <2>3. Call(p, "load") \in CallType /\ Call(p, "load").at = "load"
    BY DEF Call, CallType
  <2>4. stack' \in Seq(CallType) /\ \A k \in DOMAIN stack' : stack'[k].at = "load"
    BY <2>1, <2>3
  <2>5. BdType'
    BY <1>1, <1>2, <1>3, <2>1, <2>2, <2>4 DEF BdType, Names, CallType, Construct
  <2>6. Loading' /\ Waiting'
    BY <1>2, <2>1, <2>4 DEF Loading, Waiting
  <2> QED
    BY <1>2, <2>1, <2>5, <2>6, NothingCompiled DEF BuildInv
<1>4. CASE ~ config[p].readable
  <2>1. list' = list /\ stack' = <<>> /\ phase' = "build" /\ success' = FALSE
    BY <1>4 DEF Construct, Fail
  <2>2. BdType'
    <3>1. Names' /\ cursor' \in 1 .. Len(list') + 1
      BY <1>1, <1>2, <2>1 DEF BdType, Names
    <3>2. <<>> \in Seq(CallType') /\ <<>> \in Seq(DOMAIN config')
      OBVIOUS
    <3> QED
      BY <1>1, <1>2, <2>1, <3>1, <3>2 DEF BdType
  <2>3. Loading' /\ Waiting'
    BY <2>1 DEF Loading, Waiting
  <2> QED
    BY <1>2, <2>1, <2>2, <2>3, NothingCompiled DEF BuildInv
<1> QED
  BY <1>3, <1>4

LEMMA LoadRootStep == BuildInv /\ LoadRoot => BuildInv'
<1> SUFFICES ASSUME BuildInv, LoadRoot PROVE BuildInv'
  OBVIOUS
<1>1. Root \in DOMAIN config
  BY Workspace DEF BuildInv, BdType
<1>2. <<>> \in Seq(CallType) /\ DOMAIN <<>> = {}
  OBVIOUS
<1> QED
  BY <1>1, <1>2, ConstructStep DEF LoadRoot

\* The stack with its last call at its next name.
LEMMA AdvancedIs ==
  ASSUME BdType, stack # <<>>
  PROVE  /\ Len(stack) \in Nat \ {0} /\ Top \in CallType
         /\ Advanced \in Seq(CallType) /\ Len(Advanced) = Len(stack)
         /\ \A k \in 1 .. Len(stack) - 1 : Advanced[k] = stack[k]
         /\ Advanced[Len(stack)] = [Top EXCEPT !.i = @ + 1]
<1>1. stack \in Seq(CallType)
  BY DEF BdType
<1>2. Len(stack) \in Nat \ {0} /\ Top \in CallType
  BY <1>1 DEF Top
<1>3. [Top EXCEPT !.i = @ + 1] \in CallType
  BY <1>2 DEF CallType
<1>4. Advanced = [stack EXCEPT ![Len(stack)] = [Top EXCEPT !.i = @ + 1]]
  BY DEF Advanced, Top
<1> HIDE DEF CallType
<1> QED
  BY <1>1, <1>2, <1>3, <1>4

LEMMA PopIs ==
  ASSUME BdType, stack # <<>>
  PROVE  /\ Pop \in Seq(CallType) /\ Len(Pop) = Len(stack) - 1
         /\ \A k \in 1 .. Len(stack) - 1 : Pop[k] = stack[k]
<1>1. stack \in Seq(CallType)
  BY DEF BdType
<1> QED
  BY <1>1, FrontIs DEF Pop

LEMMA LoadPartStep == BuildInv /\ LoadPart => BuildInv'
<1> SUFFICES ASSUME BuildInv, LoadPart PROVE BuildInv'
  OBVIOUS
<1>1. BdType /\ Loading /\ stack # <<>> /\ Top.at = "load" /\ Construct(config[Top.proj].parts[Top.i], Advanced)
  BY DEF LoadPart, Running, BuildInv
<1>2. phase = "load"
  BY <1>1, AdvancedIs DEF Loading, Top
<1>3. config[Top.proj].parts[Top.i] \in DOMAIN config
  <2>1. Top.proj \in DOMAIN config /\ Top.i \in Nat \ {0} /\ Top.i <= Len(config[Top.proj].parts)
    BY <1>1, AdvancedIs DEF CallType, LoadPart
  <2>2. config[Top.proj].parts \in Seq(DOMAIN config)
    BY <1>1, <2>1, Workspace DEF BdType
  <2> QED
    BY <2>1, <2>2
<1>4. \A k \in DOMAIN Advanced : Advanced[k].at = "load"
  <2>1. \A k \in 1 .. Len(stack) : stack[k].at = "load"
    BY <1>1, <1>2 DEF Loading, BdType
  <2>2. [Top EXCEPT !.i = @ + 1].at = "load"
    BY <1>1, AdvancedIs DEF CallType
  <2> QED
    <3>1. DOMAIN Advanced = 1 .. Len(stack) /\ Len(stack) \in Nat
      BY <1>1, AdvancedIs
    <3>2. \A k \in 1 .. Len(stack) - 1 : Advanced[k].at = "load"
      BY <1>1, <2>1, <3>1, AdvancedIs
    <3>3. Advanced[Len(stack)].at = "load"
      BY <1>1, <2>2, AdvancedIs
    <3> QED
      BY <3>1, <3>2, <3>3
<1> QED
  BY <1>1, <1>2, <1>3, <1>4, AdvancedIs, ConstructStep

LEMMA LoadedStep == BuildInv /\ Loaded => BuildInv'
<1> SUFFICES ASSUME BuildInv, Loaded PROVE BuildInv'
  OBVIOUS
<1>1. /\ BdType /\ Loading /\ stack # <<>> /\ Top.at = "load" /\ stack' = Pop
      /\ UNCHANGED <<config, list, cursor, success, compiled, ran, rcFailed>>
      /\ phase' = IF Len(stack) = 1 THEN "build" ELSE "load"
  BY DEF Loaded, Running, BuildInv
<1>2. phase = "load" /\ ran = <<>> /\ cursor = 1 /\ \A p \in DOMAIN config : ~ compiled[p]
  BY <1>1, AdvancedIs DEF Loading, Top
<1>3. BdType'
  BY <1>1, PopIs DEF BdType, Names, CallType
<1>4. Loading'
  <2>1. \A k \in DOMAIN stack' : stack'[k].at = "load"
    <3>1. \A k \in 1 .. Len(stack) : stack[k].at = "load"
      BY <1>1, <1>2 DEF Loading, BdType
    <3>2. DOMAIN stack' = 1 .. Len(stack) - 1
      BY <1>1, PopIs
    <3> QED
      BY <1>1, <3>1, <3>2, PopIs
  <2>2. Len(stack) = 1 => DOMAIN stack' = {}
    BY <1>1, PopIs
  <2> QED
    BY <1>1, <1>2, <2>1, <2>2 DEF Loading
<1>5. Waiting'
  <2>1. Len(stack) = 1 => stack' = <<>>
    BY <1>1, PopIs
  <2> QED
    BY <1>1, <2>1 DEF Waiting
<1> QED
  BY <1>1, <1>2, <1>3, <1>4, <1>5, NothingCompiled DEF BuildInv

\* A step that compiles nothing.
LEMMA Calm ==
  ASSUME BuildInv, UNCHANGED <<config, list, compiled, ran>>,
         BdType', Loading', Waiting', Progress'
  PROVE  BuildInv'
  BY Steady DEF BuildInv

LEMMA FailStep ==
  ASSUME BuildInv, phase = "build", Fail, UNCHANGED phase
  PROVE  BuildInv'
<1>1. /\ stack' = <<>> /\ success' = FALSE /\ phase' = "build"
      /\ UNCHANGED <<config, list, cursor, compiled, ran, rcFailed>>
  BY DEF Fail
<1>2. BdType'
  <2>1. Names' /\ stack' \in Seq(CallType')
    BY <1>1 DEF BuildInv, BdType, Names
  <2> QED
    BY <1>1, <2>1 DEF BuildInv, BdType
<1>3. Loading' /\ Waiting' /\ Progress'
  BY <1>1 DEF Loading, Waiting, Progress
<1> QED
  BY <1>1, <1>2, <1>3, Calm

LEMMA CrashStep ==
  ASSUME BuildInv, phase = "build", Crash
  PROVE  BuildInv'
<1>1. /\ phase' = "crashed"
      /\ UNCHANGED <<config, list, stack, cursor, success, compiled, ran, rcFailed>>
  BY DEF Crash
<1>2. BdType'
  BY <1>1 DEF BuildInv, BdType, Names, CallType
<1>3. Loading' /\ Progress'
  BY <1>1 DEF BuildInv, Loading, Progress
<1>4. Waiting'
  <2>1. BdType /\ Waiting /\ Len(stack) \in Nat
    BY DEF BuildInv, BdType
  <2> QED
    BY <1>1, <2>1, Waits DEF Waiting, BdType, Top
<1> QED
  BY <1>1, <1>2, <1>3, <1>4, Calm

\* Where a call is when it runs: its project is not compiled, and the calls below
\* it wait.
LEMMA Runs ==
  ASSUME BuildInv, stack # <<>>, Top.at # "load"
  PROVE  /\ phase \notin {"start", "load", "done"}
         /\ Names /\ Len(stack) \in Nat \ {0} /\ Top \in CallType
         /\ ~ compiled[Top.proj] /\ Settled(Top, Top.i)
         /\ \A k \in 1 .. Len(stack) : ~ compiled[stack[k].proj]
         /\ \A k \in 1 .. Len(stack) - 1 : Settled(stack[k], stack[k].i - 1)
         /\ \A k \in 1 .. Len(stack) - 1 : Below(stack[k], stack[k + 1])
<1>1. BdType /\ Loading /\ Waiting
  BY DEF BuildInv
<1>2. Names /\ Len(stack) \in Nat \ {0} /\ Top \in CallType /\ Top = stack[Len(stack)] /\ Len(stack) \in DOMAIN stack
  BY <1>1, AdvancedIs DEF BdType, Top
<1>3. phase \notin {"start", "load", "done"}
  BY <1>1, <1>2 DEF Loading
<1> QED
  BY <1>1, <1>2, <1>3 DEF Waiting

\* The last call goes on to its next name, or script.
LEMMA GoesOn ==
  ASSUME BuildInv, phase = "build", stack # <<>>, stack' = Advanced,
         UNCHANGED <<config, phase, list, cursor, success, compiled, ran>>,
         rcFailed' \in SUBSET DOMAIN config,
         Settled(Top, Top.i + 1)
  PROVE  BuildInv'
<1>1. BdType /\ Loading /\ Waiting /\ Progress
  BY DEF BuildInv
<1>2. /\ Len(stack) \in Nat \ {0} /\ Top \in CallType /\ Len(Advanced) = Len(stack)
      /\ Advanced \in Seq(CallType)
      /\ \A k \in 1 .. Len(stack) - 1 : Advanced[k] = stack[k]
      /\ Advanced[Len(stack)] = [Top EXCEPT !.i = @ + 1]
  BY <1>1, AdvancedIs
<1>3. DOMAIN stack = 1 .. Len(stack) /\ DOMAIN Advanced = 1 .. Len(stack)
  BY <1>1, <1>2 DEF BdType
<1>4. Top.at # "load" /\ Top = stack[Len(stack)]
  BY <1>1, <1>2, <1>3 DEF Loading, Top
<1> DEFINE g == [Top EXCEPT !.i = @ + 1]
<1>5. g = Advanced[Len(stack)] /\ g.proj = Top.proj /\ g.at = Top.at /\ g.i = Top.i + 1
  BY <1>2 DEF CallType
<1> HIDE DEF g
<1>11. ASSUME NEW k \in 1 .. Len(stack)
       PROVE  Advanced[k].proj = stack[k].proj /\ Advanced[k].at = stack[k].at
  <2>1. CASE k = Len(stack)
    BY <1>4, <1>5, <2>1
  <2>2. CASE k # Len(stack)
    <3>1. k \in 1 .. Len(stack) - 1
      BY <1>2, <2>2
    <3> QED
      BY <1>2, <3>1
  <2> QED
    BY <2>1, <2>2
<1>6. Settled(g, g.i)
  BY <1>5 DEF Settled
<1>7. BdType'
  BY <1>1, <1>2 DEF BdType, Names, CallType
<1>8. Loading'
  BY <1>1, <1>3, <1>11 DEF Loading
<1>9. Waiting'
  <2>2. \A k \in 1 .. Len(stack) : ~ compiled[Advanced[k].proj]
    BY <1>4, <1>11, Runs
  <2>3. ASSUME NEW k \in 1 .. Len(stack) - 1
        PROVE  Below(Advanced[k], Advanced[k + 1]) /\ Settled(Advanced[k], Advanced[k].i - 1)
    <3>1. Below(stack[k], stack[k + 1]) /\ Settled(stack[k], stack[k].i - 1)
      BY <1>4, Runs
    <3>2. Advanced[k] = stack[k] /\ Advanced[k + 1].proj = stack[k + 1].proj
      BY <1>2, <1>11
    <3> QED
      BY <3>1, <3>2 DEF Below
  <2>4. Names /\ Advanced # <<>> /\ Advanced[Len(Advanced)] = g
    BY <1>1, <1>2, <1>5 DEF BdType
  <2> QED
    BY <1>2, <1>6, <2>2, <2>3, <2>4, Waits
<1>10. Progress'
  <2>1. stack' # <<>> /\ stack'[1].proj = stack[1].proj
    BY <1>2, <1>11
  <2> QED
    BY <1>1, <2>1 DEF Progress
<1> QED
  BY <1>7, <1>8, <1>9, <1>10, Calm

\* Its loop comes to a project that is not compiled, which is called.
LEMMA EnterStep ==
  ASSUME BuildInv, phase = "build", stack # <<>>, Top.at = "depend",
         Top.i <= Len(config[Top.proj].depends),
         NEW q \in DOMAIN config, q = Dep(Top.proj, Top.i), ~ compiled[q], Enter(q)
  PROVE  BuildInv'
<1>1. BdType /\ Loading /\ Waiting /\ Progress
  BY DEF BuildInv
<1>2. /\ Len(stack) \in Nat \ {0} /\ Top \in CallType /\ Len(Advanced) = Len(stack)
      /\ Advanced \in Seq(CallType)
      /\ \A k \in 1 .. Len(stack) - 1 : Advanced[k] = stack[k]
      /\ Advanced[Len(stack)] = [Top EXCEPT !.i = @ + 1]
  BY <1>1, AdvancedIs
<1>3. CASE Len(stack) >= MaxStack
  <2>1. Crash
    BY <1>2, <1>3, BuildAssumption DEF Enter
  <2> QED
    BY <2>1, CrashStep
<1>4. CASE Len(stack) < MaxStack
  <2> DEFINE c == Call(q, "depend")
             s == Append(Advanced, c)
             n == Len(stack)
  <2>1. /\ stack' = s
        /\ UNCHANGED <<config, phase, list, cursor, success, compiled, ran, rcFailed>>
    BY <1>4 DEF Enter, Goes
  <2>2. c \in CallType /\ c.proj = q /\ c.at = "depend" /\ c.i = 1
    BY DEF Call, CallType
  <2> HIDE DEF c
  <2>3. /\ s \in Seq(CallType) /\ Len(s) = n + 1 /\ s[n + 1] = c
        /\ \A k \in 1 .. n : s[k] = Advanced[k]
    BY <1>2, <2>2
  <2> HIDE DEF s
  <2>4. s[n].proj = Top.proj /\ s[n].at = "depend" /\ s[n].i = Top.i + 1
    <3>1. s[n] = [Top EXCEPT !.i = @ + 1]
      BY <1>2, <2>3
    <3>2. Top \in CallType /\ Top.at = "depend"
      BY <1>2
    <3> QED
      BY <3>1, <3>2 DEF CallType
  <2>5. \A k \in 1 .. n - 1 : s[k] = stack[k]
    BY <1>2, <2>3
  <2>6. ASSUME NEW k \in 1 .. n
        PROVE  s[k].proj = stack[k].proj /\ s[k].at = stack[k].at
    <3>1. CASE k = n
      BY <2>4, <3>1 DEF Top
    <3>2. CASE k # n
      <4>1. k \in 1 .. n - 1
        BY <1>2, <3>2
      <4> QED
        BY <2>5, <4>1
    <3> QED
      BY <3>1, <3>2
  <2>7. BdType'
    BY <1>1, <2>1, <2>3 DEF BdType, Names, CallType
  <2>8. Loading'
    <3>1. \A k \in 1 .. n + 1 : s[k].at # "load"
      <4>1. \A k \in 1 .. n : stack[k].at # "load"
        BY <1>1 DEF Loading, BdType
      <4> QED
        BY <1>2, <2>2, <2>3, <2>6, <4>1
    <3>2. DOMAIN s = 1 .. n + 1
      BY <2>3
    <3> QED
      BY <1>1, <2>1, <3>1, <3>2 DEF Loading
  <2>9. Waiting'
    <3>1. ASSUME NEW k \in 1 .. n + 1
          PROVE  ~ compiled[s[k].proj]
      <4>1. CASE k = n + 1
        BY <2>2, <2>3, <4>1
      <4>2. CASE k # n + 1
        <5>1. k \in 1 .. n
          BY <1>2, <4>2
        <5> QED
          BY <2>6, <5>1, Runs
      <4> QED
        BY <4>1, <4>2
    <3>2. ASSUME NEW k \in 1 .. n
          PROVE  Below(s[k], s[k + 1]) /\ Settled(s[k], s[k].i - 1)
      <4>1. CASE k = n
        <5>1. Below(s[n], s[n + 1])
          BY <1>2, <2>2, <2>3, <2>4 DEF Below, CallType
        <5>2. Settled(Top, Top.i)
          BY Runs
        <5>3. Settled(s[n], s[n].i - 1)
          <6>1. s[n].i - 1 = Top.i
            BY <1>2, <2>4 DEF CallType
          <6> QED
            BY <2>4, <5>2, <6>1 DEF Settled
        <5> QED
          BY <4>1, <5>1, <5>3
      <4>2. CASE k # n
        <5>1. k \in 1 .. n - 1 /\ k + 1 \in 1 .. n
          BY <1>2, <4>2
        <5>2. Below(stack[k], stack[k + 1]) /\ Settled(stack[k], stack[k].i - 1)
          BY <5>1, Runs
        <5>3. s[k] = stack[k] /\ s[k + 1].proj = stack[k + 1].proj
          BY <2>5, <2>6, <5>1
        <5> QED
          BY <5>2, <5>3 DEF Below
      <4> QED
        BY <4>1, <4>2
    <3>3. Settled(s[n + 1], s[n + 1].i)
      BY <2>2, <2>3 DEF Settled
    <3>4. Names /\ Len(s) \in Nat /\ Len(s) - 1 = n
      BY <1>1, <1>2, <2>3 DEF BdType
    <3> QED
      BY <2>1, <2>3, <3>1, <3>2, <3>3, <3>4, Waits
  <2>10. Progress'
    <3>1. stack' # <<>> /\ stack'[1].proj = stack[1].proj
      BY <1>2, <2>1, <2>3, <2>6
    <3> QED
      BY <1>1, <2>1, <3>1 DEF Progress
  <2> QED
    BY <2>1, <2>7, <2>8, <2>9, <2>10, Calm
<1> QED
  BY <1>2, <1>3, <1>4, BuildAssumption

LEMMA DependNextStep == BuildInv /\ phase # "crashed" /\ DependNext => BuildInv'
<1> SUFFICES ASSUME BuildInv, phase # "crashed", DependNext PROVE BuildInv'
  OBVIOUS
<1> DEFINE q == FindProject(config[Top.proj].depends[Top.i])
<1>1. /\ stack # <<>> /\ Top.at = "depend" /\ Top.i <= Len(config[Top.proj].depends)
      /\ \/ q = Missing /\ Fail /\ UNCHANGED phase
         \/ q # Missing /\ compiled[q] /\ Goes(Advanced)
         \/ q # Missing /\ ~ compiled[q] /\ Enter(q)
  BY DEF DependNext, Running
<1>2. BdType /\ Loading /\ phase = "build" /\ Names /\ Top \in CallType /\ Settled(Top, Top.i)
  BY <1>1, Runs DEF BuildInv, BdType
<1>3. q = Dep(Top.proj, Top.i)
  BY DEF Dep
<1>4. q = Missing \/ q \in DOMAIN config
  BY <1>2, Found DEF Listed, Names
<1>5. CASE q = Missing
  BY <1>1, <1>2, <1>5, FailStep
<1>6. CASE q # Missing /\ compiled[q]
  <2>1. Settled(Top, Top.i + 1)
    BY <1>2, <1>3, <1>6 DEF Settled, Ready, CallType
  <2>2. rcFailed' \in SUBSET DOMAIN config
    BY <1>1, <1>2, <1>6 DEF Goes, BdType
  <2> QED
    BY <1>1, <1>2, <1>6, <2>1, <2>2, GoesOn DEF Goes
<1>7. CASE q # Missing /\ ~ compiled[q]
  <2> HIDE DEF q
  <2> QED
    BY <1>1, <1>2, <1>3, <1>4, <1>7, EnterStep
<1> QED
  BY <1>5, <1>6, <1>7

\* A call that is through with its names goes to its commands.
LEMMA TurnsTo ==
  ASSUME BuildInv, phase = "build", stack # <<>>, NEW at \in {"resource", "command"},
         Settled([Top EXCEPT !.at = at], 1),
         stack' = Append(Pop, Call(Top.proj, at)),
         UNCHANGED <<config, phase, list, cursor, success, compiled, ran, rcFailed>>
  PROVE  BuildInv'
<1>1. BdType /\ Loading /\ Waiting /\ Progress
  BY DEF BuildInv
<1> DEFINE c == Call(Top.proj, at)
           s == Append(Pop, c)
           n == Len(stack)
<1>2. n \in Nat \ {0} /\ Top \in CallType /\ Top = stack[n] /\ Names
  BY <1>1, AdvancedIs DEF Top, BdType
<1>3. c \in CallType /\ c.proj = Top.proj /\ c.at = at /\ c.i = 1
  BY <1>2 DEF Call, CallType
<1>4. Pop \in Seq(CallType) /\ Len(Pop) = n - 1 /\ \A k \in 1 .. n - 1 : Pop[k] = stack[k]
  BY <1>1, PopIs
<1>5. stack' = s
  OBVIOUS
<1> HIDE DEF c
<1>6. s \in Seq(CallType) /\ Len(s) = n /\ s[n] = c /\ \A k \in 1 .. n - 1 : s[k] = stack[k]
  BY <1>2, <1>3, <1>4
<1> HIDE DEF s
<1>7. ASSUME NEW k \in 1 .. n
      PROVE  s[k].proj = stack[k].proj /\ s[k].at # "load"
  <2>1. stack[k].at # "load"
    BY <1>1 DEF Loading, BdType
  <2>2. CASE k = n
    BY <1>2, <1>3, <1>6, <2>2
  <2>3. CASE k # n
    <3>1. k \in 1 .. n - 1
      BY <1>2, <2>3
    <3> QED
      BY <1>6, <2>1, <3>1
  <2> QED
    BY <2>2, <2>3
<1>8. Top.at # "load"
  BY <1>1, <1>2 DEF Loading, BdType
<1>9. BdType'
  BY <1>1, <1>5, <1>6 DEF BdType, Names, CallType
<1>10. Loading'
  <2>1. DOMAIN s = 1 .. n
    BY <1>6
  <2> QED
    BY <1>1, <1>5, <1>7, <2>1 DEF Loading
<1>11. Waiting'
  <2>1. \A k \in 1 .. n : ~ compiled[s[k].proj]
    BY <1>7, <1>8, Runs
  <2>2. ASSUME NEW k \in 1 .. n - 1
        PROVE  Below(s[k], s[k + 1]) /\ Settled(s[k], s[k].i - 1)
    <3>1. Below(stack[k], stack[k + 1]) /\ Settled(stack[k], stack[k].i - 1)
      BY <1>8, Runs
    <3>2. s[k] = stack[k] /\ s[k + 1].proj = stack[k + 1].proj
      BY <1>2, <1>6, <1>7
    <3> QED
      BY <3>1, <3>2 DEF Below
  <2>3. Settled(s[n], s[n].i)
    BY <1>2, <1>3, <1>6 DEF Settled, CallType
  <2> QED
    BY <1>2, <1>5, <1>6, <2>1, <2>2, <2>3, Waits
<1>12. Progress'
  <2>1. stack' # <<>> /\ stack'[1].proj = stack[1].proj
    BY <1>2, <1>5, <1>6, <1>7
  <2> QED
    BY <1>1, <2>1 DEF Progress
<1> QED
  BY <1>9, <1>10, <1>11, <1>12, Calm

LEMMA DependsDoneStep == BuildInv /\ phase # "crashed" /\ DependsDone => BuildInv'
<1> SUFFICES ASSUME BuildInv, phase # "crashed", DependsDone PROVE BuildInv'
  OBVIOUS
<1>1. /\ stack # <<>> /\ Top.at = "depend" /\ Top.i > Len(config[Top.proj].depends)
      /\ Goes(Append(Pop, Call(Top.proj, "resource")))
  BY DEF DependsDone, Running
<1>2. phase = "build" /\ Names /\ Top \in CallType /\ Settled(Top, Top.i)
  BY <1>1, Runs DEF BuildInv, BdType
<1>3. Settled([Top EXCEPT !.at = "resource"], 1)
  <2>1. Len(config[Top.proj].depends) \in Nat
    BY <1>2, Workspace DEF CallType
  <2>2. \A j \in 1 .. Len(config[Top.proj].depends) : j < Top.i
    BY <1>1, <1>2, <2>1 DEF CallType
  <2>3. \A j \in 1 .. Len(config[Top.proj].depends) : Ready(Dep(Top.proj, j))
    BY <1>2, <2>2 DEF Settled
  <2>4. [Top EXCEPT !.at = "resource"].proj = Top.proj
    BY <1>2 DEF CallType
  <2> QED
    BY <2>3, <2>4 DEF Settled
<1> QED
  BY <1>1, <1>2, <1>3, TurnsTo DEF Goes

LEMMA ResourceStep == BuildInv /\ phase # "crashed" /\ (\E ok \in BOOLEAN : Resource(ok)) => BuildInv'
<1> SUFFICES ASSUME BuildInv, phase # "crashed", NEW ok \in BOOLEAN, Resource(ok) PROVE BuildInv'
  OBVIOUS
<1>1. /\ stack # <<>> /\ Top.at = "resource" /\ stack' = Advanced
      /\ UNCHANGED <<config, phase, list, cursor, success, compiled, ran>>
      /\ rcFailed' = rcFailed \/ rcFailed' = rcFailed \cup {Top.proj}
  BY DEF Resource, Running
<1>2. BdType /\ phase = "build" /\ Top \in CallType /\ Settled(Top, Top.i)
  BY <1>1, Runs DEF BuildInv, BdType
<1>3. rcFailed' \in SUBSET DOMAIN config
  BY <1>1, <1>2 DEF BdType, CallType
<1>4. Settled(Top, Top.i + 1)
  BY <1>1, <1>2 DEF Settled
<1> QED
  BY <1>1, <1>2, <1>3, <1>4, GoesOn

\* The calls that are left after one returns, whose project is compiled now.
LEMMA WaitsAfter ==
  ASSUME Names, UNCHANGED <<config, list>>,
         \A q \in DOMAIN config : compiled[q] => compiled'[q],
         NEW s, stack' = s, Len(s) \in Nat,
         \A k \in 1 .. Len(s) : ~ compiled'[s[k].proj],
         \A k \in 1 .. Len(s) - 1 : Below(s[k], s[k + 1]) /\ Settled(s[k], s[k].i - 1),
         s # <<>> => \A j \in 1 .. Len(config[s[Len(s)].proj].depends) :
                       s[Len(s)].at # "depend" \/ j < s[Len(s)].i =>
                         \A q \in {Dep(s[Len(s)].proj, j)} : q # Missing /\ compiled'[q]
  PROVE  Waiting'
<1>1. \A p, j : Dep(p, j)' = Dep(p, j)
  BY NamesStay
<1>2. \A f, g : Below(f, g)' <=> Below(f, g)
  BY <1>1 DEF Below
<1>3. ASSUME NEW f, NEW n, Settled(f, n)
      PROVE  Settled(f, n)'
  <2>1. \A j : Dep(f.proj, j) = Missing \/ Dep(f.proj, j) \in DOMAIN config
    BY Found DEF Dep, Listed, Names
  <2> QED
    BY <1>1, <1>3, <2>1 DEF Settled, Ready
<1>4. s # <<>> => Settled(s[Len(s)], s[Len(s)].i)'
  <2>1. \A f, n : Settled(f, n)' <=> \A j \in 1 .. Len(config[f.proj].depends) :
                     f.at # "depend" \/ j < n => Dep(f.proj, j) # Missing /\ compiled'[Dep(f.proj, j)]
    BY <1>1 DEF Settled, Ready
  <2> QED
    BY <2>1
<1> QED
  BY <1>2, <1>3, <1>4 DEF Waiting, Top

\* The call's project is compiled.
LEMMA Completes ==
  ASSUME BuildInv, phase = "build", stack # <<>>, Top.at \in {"resource", "command"},
         stack' = Pop, compiled' = [compiled EXCEPT ![Top.proj] = TRUE],
         UNCHANGED <<config, phase, list, cursor, success, rcFailed>>,
         \/ ran' = ran /\ ~ config[Top.proj].sources
         \/ ran' = Append(ran, Top.proj)
  PROVE  BuildInv'
<1> DEFINE p == Top.proj
           n == Len(stack)
           C == {q \in DOMAIN config : compiled[q]}
<1>1. /\ BdType /\ Loading /\ Waiting /\ Progress /\ Built
      /\ BuildOrder /\ BuiltOnce /\ CyclesNotCompiled
  BY DEF BuildInv
<1>2. n \in Nat \ {0} /\ Top \in CallType /\ Top = stack[n] /\ Names
  BY <1>1, AdvancedIs DEF Top, BdType
<1>3. p \in DOMAIN config /\ ~ compiled[p] /\ p # Missing
  <2>1. p \in DOMAIN config
    BY <1>2 DEF CallType
  <2> QED
    BY <1>2, <2>1, Runs, Workspace
<1>4. \A j \in 1 .. Len(config[p].depends) : Ready(Dep(p, j))
  BY Runs DEF Settled
<1>5. \A q \in Depends(p) : Ready(q)
  BY <1>2, <1>3, <1>4, DependsAre
<1>6. ASSUME NEW k \in 1 .. n - 1
      PROVE  stack[k].proj # p
  <2>1. Below(stack[k], stack[k + 1]) /\ ~ compiled[stack[k + 1].proj]
    BY <1>2, Runs
  <2> QED
    BY <1>4, <2>1 DEF Below, Ready
<1>7. Depends(p) \subseteq C
  BY <1>2, <1>3, <1>5, DependsAre DEF Ready, Listed, Names
<1>8. ASSUME NEW q \in C
      PROVE  Depends(q) \subseteq C
  BY <1>1, <1>2, <1>8, DependsAre DEF Built, Ready, Listed, Names
<1>9. Reach(p) \subseteq C
  BY <1>2, <1>7, <1>8, ReachInside
<1>10. /\ \A q : Depends(q)' = Depends(q) /\ Reach(q)' = Reach(q)
       /\ Listed' = Listed
  BY NamesStay
<1>11. compiled \in [DOMAIN config -> BOOLEAN] /\ ran \in Seq(DOMAIN config)
  BY <1>1 DEF BdType
<1>12. /\ compiled' \in [DOMAIN config -> BOOLEAN]
       /\ compiled'[p]
       /\ \A q \in DOMAIN config : compiled'[q] <=> compiled[q] \/ q = p
  BY <1>3, <1>11
<1>13. Pop \in Seq(CallType) /\ Len(Pop) = n - 1 /\ \A k \in 1 .. n - 1 : Pop[k] = stack[k]
  BY <1>1, PopIs
<1>14. ran' \in Seq(DOMAIN config)
  BY <1>3, <1>11
<1> HIDE DEF p
<1>15. BdType'
  BY <1>1, <1>12, <1>13, <1>14 DEF BdType, Names, CallType
<1>16. Loading'
  <2>1. DOMAIN stack' = 1 .. n - 1 /\ DOMAIN stack = 1 .. n
    BY <1>1, <1>13 DEF BdType
  <2> QED
    BY <1>1, <1>13, <2>1 DEF Loading
<1>17. Waiting'
  <2>1. \A k \in 1 .. n - 1 : stack[k].proj \in DOMAIN config
    <3>1. \A k \in 1 .. n - 1 : stack[k] \in CallType
      BY <1>1, <1>2 DEF BdType
    <3> QED
      BY <3>1 DEF CallType
  <2>2. \A k \in 1 .. n - 1 : ~ compiled'[Pop[k].proj]
    BY <1>2, <1>6, <1>12, <1>13, <2>1, Runs
  <2>3. \A k \in 1 .. n - 2 : Below(Pop[k], Pop[k + 1]) /\ Settled(Pop[k], Pop[k].i - 1)
    <3> SUFFICES ASSUME NEW k \in 1 .. n - 2
                 PROVE  Below(Pop[k], Pop[k + 1]) /\ Settled(Pop[k], Pop[k].i - 1)
      OBVIOUS
    <3>1. k \in 1 .. n - 1 /\ k + 1 \in 1 .. n - 1
      BY <1>2
    <3> QED
      BY <1>13, <3>1, Runs
  <2>4. ASSUME Pop # <<>>, NEW j \in 1 .. Len(config[Pop[n - 1].proj].depends),
               Pop[n - 1].at # "depend" \/ j < Pop[n - 1].i
        PROVE  Dep(Pop[n - 1].proj, j) # Missing /\ compiled'[Dep(Pop[n - 1].proj, j)]
    <3> DEFINE f == stack[n - 1]
    <3>1. n - 1 \in 1 .. n - 1 /\ (n - 1) + 1 = n /\ Pop[n - 1] = f
      BY <1>2, <1>13, <2>4
    <3>2. Below(f, Top) /\ Settled(f, f.i - 1) /\ f \in CallType
      BY <1>1, <1>2, <3>1, Runs DEF BdType
    <3>3. f.at = "depend" /\ Dep(f.proj, f.i - 1) = p
      BY <3>2 DEF Below, p
    <3>4. CASE j = f.i - 1
      BY <1>3, <1>12, <3>1, <3>3, <3>4 DEF p
    <3>5. CASE j # f.i - 1
      <4>1. j < f.i - 1
        BY <2>4, <3>1, <3>2, <3>3, <3>5 DEF CallType
      <4>2. Ready(Dep(f.proj, j))
        BY <2>4, <3>1, <3>2, <4>1 DEF Settled
      <4>3. Dep(f.proj, j) \in DOMAIN config
        BY <1>2, <4>2, Found DEF Dep, Ready, Listed, Names
      <4> QED
        BY <1>12, <3>1, <4>2, <4>3 DEF Ready
    <3> QED
      BY <3>4, <3>5
  <2>5. /\ Len(Pop) = n - 1 /\ n - 1 \in Nat /\ (n - 1) - 1 = n - 2
        /\ \A q \in DOMAIN config : compiled[q] => compiled'[q]
    BY <1>2, <1>12, <1>13
  <2> QED
    BY <1>2, <2>2, <2>3, <2>4, <2>5, WaitsAfter
<1>18. Built'
  <2>1. \A i \in DOMAIN ran : i \in DOMAIN ran' /\ ran'[i] = ran[i]
    BY <1>11
  <2>2. ASSUME NEW q \in DOMAIN config, compiled'[q]
        PROVE  /\ \A d \in Depends(q) : d # Missing /\ compiled'[d]
               /\ config[q].sources => \E i \in DOMAIN ran' : ran'[i] = q
    <3>1. CASE compiled[q]
      <4>1. \A d \in Depends(q) : Ready(d) /\ d \in DOMAIN config
        BY <1>1, <1>2, <3>1, DependsAre DEF Built, Ready, Listed, Names
      <4>2. config[q].sources => \E i \in DOMAIN ran : ran[i] = q
        BY <1>1, <3>1 DEF Built
      <4> QED
        BY <1>12, <2>1, <4>1, <4>2 DEF Ready
    <3>2. CASE q = p
      <4>1. \A d \in Depends(q) : d # Missing /\ compiled'[d]
        BY <1>5, <1>7, <1>12, <3>2 DEF Ready, p
      <4>2. config[p].sources => ran' = Append(ran, p)
        BY DEF p
      <4>3. config[p].sources => Len(ran) + 1 \in DOMAIN ran' /\ ran'[Len(ran) + 1] = p
        BY <1>11, <4>2
      <4> QED
        BY <3>2, <4>1, <4>3
    <3> QED
      BY <1>12, <2>2, <3>1, <3>2
  <2>3. \A i \in DOMAIN ran' : compiled'[ran'[i]]
    <3>1. \A i \in DOMAIN ran : compiled[ran[i]] /\ ran[i] \in DOMAIN config
      BY <1>1, <1>11 DEF Built
    <3>2. ran' = ran \/ ran' = Append(ran, p)
      BY DEF p
    <3> QED
      BY <1>11, <1>12, <3>1, <3>2 DEF p
  <2> QED
    BY <1>10, <2>2, <2>3 DEF Built, Ready
<1>19. BuildOrder' /\ BuiltOnce'
  <2>1. CASE ran' = ran
    BY <1>1, <1>10, <2>1 DEF BuildOrder, BuiltOnce
  <2>2. CASE ran' = Append(ran, p)
    <3> DEFINE m == Len(ran)
    <3>1. /\ m \in Nat /\ DOMAIN ran = 1 .. m /\ DOMAIN ran' = 1 .. m + 1 /\ ran'[m + 1] = p
          /\ \A i \in 1 .. m : ran'[i] = ran[i] /\ ran[i] # p
      <4>1. \A i \in DOMAIN ran : compiled[ran[i]]
        BY <1>1 DEF Built
      <4>2. \A i \in DOMAIN ran : ran[i] # p
        BY <1>3, <4>1 DEF p
      <4> QED
        BY <1>11, <2>2, <4>2
    <3> HIDE DEF m
    <3>2. BuiltOnce'
      <4>1. \A i, j \in 1 .. m : ran[i] = ran[j] => i = j
        BY <1>1, <3>1 DEF BuiltOnce
      <4>2. \A i \in 1 .. m + 1 : i = m + 1 \/ i \in 1 .. m
        BY <3>1
      <4> QED
        BY <3>1, <4>1, <4>2 DEF BuiltOnce
    <3>3. ASSUME NEW i \in 1 .. m + 1, NEW q \in Depends(ran'[i])
          PROVE  /\ q # Missing
                 /\ config[q].sources => \E j \in 1 .. i - 1 : ran'[j] = q
      <4>1. CASE i = m + 1
        <5>1. Ready(q) /\ q \in DOMAIN config
          BY <1>5, <1>7, <3>1, <3>3, <4>1 DEF p
        <5>2. config[q].sources => \E j \in DOMAIN ran : ran[j] = q
          BY <1>1, <5>1 DEF Built, Ready
        <5> QED
          BY <3>1, <4>1, <5>1, <5>2 DEF Ready
      <4>2. CASE i # m + 1
        <5>1. i \in 1 .. m /\ i - 1 <= m
          BY <3>1, <4>2
        <5>2. q \in Depends(ran[i])
          BY <3>1, <3>3, <5>1
        <5>3. q # Missing /\ (config[q].sources => \E j \in 1 .. i - 1 : ran[j] = q)
          BY <1>1, <3>1, <5>1, <5>2 DEF BuildOrder
        <5>4. \A j \in 1 .. i - 1 : ran'[j] = ran[j]
          BY <3>1, <5>1
        <5> QED
          BY <5>3, <5>4
      <4> QED
        BY <4>1, <4>2
    <3> QED
      BY <1>10, <3>1, <3>2, <3>3 DEF BuildOrder
  <2> QED
    BY <2>1, <2>2 DEF p
<1>20. CyclesNotCompiled'
  <2>1. p \notin Reach(p)
    BY <1>3, <1>9 DEF p
  <2>2. Listed \subseteq DOMAIN config
    BY <1>2 DEF Listed, Names
  <2> QED
    BY <1>1, <1>10, <1>12, <2>1, <2>2 DEF CyclesNotCompiled
<1>21. Progress'
  <2>1. cursor \in 1 .. Len(list) + 1 /\ list \in Seq(DOMAIN config)
    BY <1>1 DEF BdType, Names
  <2>2. ASSUME success, NEW k \in 1 .. cursor - 1
        PROVE  compiled'[list[k]] \/ (k = cursor - 1 /\ stack' # <<>> /\ stack'[1].proj = list[k])
    <3>1. list[k] \in DOMAIN config
      BY <2>1
    <3>2. compiled[list[k]] \/ (k = cursor - 1 /\ stack[1].proj = list[k])
      BY <1>1, <2>2 DEF Progress
    <3>3. CASE n = 1
      BY <1>2, <1>12, <3>1, <3>2, <3>3 DEF p
    <3>4. CASE n # 1
      <4>1. stack' # <<>> /\ stack'[1] = stack[1]
        BY <1>2, <1>13, <3>4
      <4> QED
        BY <1>12, <3>1, <3>2, <4>1
    <3> QED
      BY <3>3, <3>4
  <2> QED
    BY <2>2 DEF Progress
<1> QED
  BY <1>15, <1>16, <1>17, <1>18, <1>19, <1>20, <1>21 DEF BuildInv

LEMMA ResourcesDoneStep == BuildInv /\ phase # "crashed" /\ ResourcesDone => BuildInv'
<1> SUFFICES ASSUME BuildInv, phase # "crashed", ResourcesDone PROVE BuildInv'
  OBVIOUS
<1>1. /\ stack # <<>> /\ Top.at = "resource"
      /\ UNCHANGED <<config, phase, list, cursor, success, ran, rcFailed>>
      /\ \/ config[Top.proj].sources /\ stack' = Append(Pop, Call(Top.proj, "command"))
            /\ UNCHANGED compiled
         \/ ~ config[Top.proj].sources /\ stack' = Pop
            /\ compiled' = [compiled EXCEPT ![Top.proj] = TRUE]
  BY DEF ResourcesDone, Running
<1>2. phase = "build" /\ Top \in CallType /\ Settled(Top, Top.i)
  BY <1>1, Runs DEF BuildInv, BdType
<1>3. Settled([Top EXCEPT !.at = "command"], 1)
  <2>1. [Top EXCEPT !.at = "command"].proj = Top.proj
    BY <1>2 DEF CallType
  <2> QED
    BY <1>1, <1>2, <2>1 DEF Settled
<1>4. CASE config[Top.proj].sources
  BY <1>1, <1>2, <1>3, <1>4, TurnsTo
<1>5. CASE ~ config[Top.proj].sources
  BY <1>1, <1>2, <1>5, Completes
<1> QED
  BY <1>4, <1>5

LEMMA CommandStep == BuildInv /\ phase # "crashed" /\ (\E ok \in BOOLEAN : Command(ok)) => BuildInv'
<1> SUFFICES ASSUME BuildInv, phase # "crashed", NEW ok \in BOOLEAN, Command(ok) PROVE BuildInv'
  OBVIOUS
<1>1. /\ stack # <<>> /\ Top.at = "command"
      /\ Crash \/ CommandSucceeds \/ CommandFails
  BY DEF Command, Running
<1>2. phase = "build"
  BY <1>1, Runs DEF BuildInv, BdType
<1>3. CASE Crash
  BY <1>2, <1>3, CrashStep
<1>4. CASE CommandSucceeds
  BY <1>1, <1>2, <1>4, Completes DEF CommandSucceeds
<1>5. CASE CommandFails
  BY <1>2, <1>5, FailStep DEF CommandFails
<1> QED
  BY <1>1, <1>3, <1>4, <1>5

LEMMA NextProjectStep == BuildInv /\ NextProject => BuildInv'
<1> SUFFICES ASSUME BuildInv, NextProject PROVE BuildInv'
  OBVIOUS
<1> DEFINE p == list[cursor]
           c == Call(p, "depend")
<1>1. /\ phase = "build" /\ stack = <<>> /\ success /\ cursor <= Len(list)
      /\ stack' = IF compiled[p] THEN stack ELSE Append(stack, c)
      /\ cursor' = cursor + 1
      /\ UNCHANGED <<config, phase, list, success, compiled, ran, rcFailed>>
  BY DEF NextProject, Compile
<1>2. BdType /\ Names /\ Progress
  BY DEF BuildInv, BdType
<1>3. p \in DOMAIN config /\ cursor \in Nat \ {0} /\ Len(list) \in Nat
  BY <1>1, <1>2 DEF BdType, Names
<1>4. c \in CallType /\ c.proj = p /\ c.at = "depend" /\ c.i = 1
  BY <1>3 DEF Call, CallType
<1> HIDE DEF c, p
<1> DEFINE s == IF compiled[p] THEN <<>> ELSE <<c>>
<1>5. stack' = s /\ s \in Seq(CallType)
  BY <1>1, <1>4
<1>6. /\ Len(s) \in {0, 1}
      /\ Len(s) = 0 => s = <<>> /\ DOMAIN s = {} /\ compiled[p]
      /\ Len(s) = 1 => s # <<>> /\ DOMAIN s = {1} /\ s[1] = c /\ ~ compiled[p]
  <2>1. Len(<<c>>) = 1 /\ DOMAIN <<c>> = {1} /\ <<c>>[1] = c /\ <<c>> # <<>>
    OBVIOUS
  <2> QED
    BY <2>1
<1> HIDE DEF s
<1>7. BdType'
  BY <1>1, <1>2, <1>3, <1>5 DEF BdType, Names, CallType
<1>8. Loading'
  BY <1>1, <1>4, <1>5, <1>6 DEF Loading
<1>9. Waiting'
  <2>1. Settled(c, 1)
    BY <1>4 DEF Settled
  <2>2. \A k \in 1 .. Len(s) : k = 1 /\ Len(s) = 1
    BY <1>6
  <2>3. \A k \in 1 .. Len(s) - 1 : FALSE
    <3>1. Len(s) = 0 \/ Len(s) = 1
      BY <1>6
    <3>2. \A m \in {0, 1} : \A k \in 1 .. m - 1 : FALSE
      OBVIOUS
    <3> QED
      BY <3>1, <3>2
  <2> QED
    BY <1>1, <1>2, <1>4, <1>5, <1>6, <2>1, <2>2, <2>3, Waits
<1>10. Progress'
  <2>1. \A k \in 1 .. cursor - 1 : compiled[list[k]]
    BY <1>1, <1>2 DEF Progress
  <2>2. compiled[list[cursor]] \/ (stack' # <<>> /\ stack'[1].proj = list[cursor])
    BY <1>4, <1>5, <1>6 DEF p
  <2>3. ASSUME NEW k \in 1 .. cursor
        PROVE  compiled[list[k]] \/ (k = cursor /\ stack' # <<>> /\ stack'[1].proj = list[k])
    BY <1>3, <2>1, <2>2
  <2>4. cursor' - 1 = cursor
    BY <1>1, <1>3
  <2> QED
    BY <1>1, <2>3, <2>4 DEF Progress
<1> QED
  BY <1>1, <1>7, <1>8, <1>9, <1>10, Calm

LEMMA ReportStep == BuildInv /\ Report => BuildInv'
<1> SUFFICES ASSUME BuildInv, Report PROVE BuildInv'
  OBVIOUS
<1>1. /\ phase = "build" /\ stack = <<>> /\ phase' = "done"
      /\ ~ success \/ cursor > Len(list)
      /\ UNCHANGED <<config, list, stack, cursor, success, compiled, ran, rcFailed>>
  BY DEF Report
<1>2. BdType'
  BY <1>1 DEF BuildInv, BdType, Names, CallType
<1>3. Loading' /\ Progress'
  <2>1. stack' = <<>> /\ phase' = "done"
    BY <1>1
  <2>2. Loading'
    BY <2>1 DEF Loading
  <2>3. Progress'
    BY <1>1 DEF BuildInv, Progress
  <2> QED
    BY <2>2, <2>3
<1>4. Waiting'
  <2>1. stack' = <<>>
    BY <1>1
  <2>2. \A k \in 1 .. Len(stack') : FALSE
    BY <2>1
  <2>3. \A k \in 1 .. Len(stack') - 1 : FALSE
    BY <2>1
  <2> QED
    BY <2>1, <2>2, <2>3 DEF Waiting
<1> QED
  BY <1>1, <1>2, <1>3, <1>4, Calm

LEMMA StutterStep == BuildInv /\ UNCHANGED vars => BuildInv'
<1> SUFFICES ASSUME BuildInv, UNCHANGED vars PROVE BuildInv'
  OBVIOUS
<1>1. UNCHANGED <<config, phase, list, stack, cursor, success, compiled, ran, rcFailed>>
  BY DEF vars
<1>2. BdType' /\ Loading' /\ Progress'
  BY <1>1 DEF BuildInv, BdType, Names, CallType, Loading, Progress
<1>3. Waiting'
  <2>1. BdType /\ Waiting /\ Len(stack) \in Nat
    BY DEF BuildInv, BdType
  <2>2. CASE phase = "load"
    BY <1>1, <2>2 DEF Waiting
  <2>3. CASE phase # "load"
    BY <1>1, <2>1, <2>3, Waits DEF Waiting, BdType, Top
  <2> QED
    BY <2>2, <2>3
<1> QED
  BY <1>1, <1>2, <1>3, Calm

LEMMA BuildInvStep == BuildInv /\ [Next]_vars => BuildInv'
  BY LoadRootStep, LoadPartStep, LoadedStep, NextProjectStep, ReportStep, DependNextStep,
     DependsDoneStep, ResourceStep, ResourcesDoneStep, CommandStep, StutterStep
     DEF Next, Step

LEMMA BuildInvariance == Spec => []BuildInv
  BY Initially, BuildInvStep, PTL DEF Spec

-------------------------------------------------------------------------------
(***************************************************************************)
(* What the driver does.                                                   *)
(***************************************************************************)
\* A project is compiled after all it depends on, and once (depend() and compile(),
\* compiler.cpp:305-386), whatever the list, the names and the failing commands.
THEOREM DriverCorrect == Spec => []DriverInv
<1>1. ASSUME BuildInv PROVE DriverInv
  <2>1. BdType /\ BuildOrder /\ BuiltOnce /\ DOMAIN config \subseteq Projects
    BY <1>1, Workspace DEF BuildInv, BdType
  <2>2. CallType \subseteq Frames
    BY <2>1 DEF CallType, Frames
  <2>3. TypeOK
    BY <2>1, <2>2 DEF BdType, Names, TypeOK
  <2> QED
    BY <2>1, <2>3 DEF DriverInv
<1> QED
  BY <1>1, BuildInvariance, PTL

\* The report SUCCESSFUL is true: main's loop has compiled every project it loaded,
\* and ran the command of each that has sources.
THEOREM ReportCorrect == Spec => []ReportIsTrue
<1>1. ASSUME BuildInv, phase = "done", success, NEW p \in Listed
      PROVE  compiled[p] /\ (config[p].sources => \E i \in DOMAIN ran : ran[i] = p)
  <2>1. BdType /\ Loading /\ Built /\ Progress
    BY <1>1 DEF BuildInv
  <2>2. PICK k \in 1 .. Len(list) : list[k] = p
    BY <2>1 DEF Listed, BdType, Names
  <2>3. k \in 1 .. cursor - 1 /\ stack = <<>>
    BY <1>1, <2>1 DEF Progress, Loading, BdType, Names
  <2>4. compiled[p] /\ p \in DOMAIN config
    BY <1>1, <2>1, <2>2, <2>3 DEF Progress, BdType, Names
  <2> QED
    BY <2>1, <2>4 DEF Built
<1>2. BuildInv => ReportIsTrue
  BY <1>1 DEF ReportIsTrue
<1> QED
  BY <1>2, BuildInvariance, PTL

(***************************************************************************)
(* What goes wrong is a cycle.  The calls on the stack are a path of       *)
(* dependencies in the list; a path with more projects than the list has   *)
(* comes back to one of them.                                              *)
(***************************************************************************)
\* The stack has room for a call for each project.
RoomEnough == \A w \in Workspaces : IsFiniteSet(DOMAIN w) /\ Cardinality(DOMAIN w) <= MaxStack

\* Calls are of listed projects, and only a cycle has crashed the driver.
Standing == /\ \A k \in DOMAIN stack : stack[k].proj \in Listed
            /\ OnlyCyclesCrash

LEMMA CountTo == \A b \in Nat : IsFiniteSet(1 .. b) /\ Cardinality(1 .. b) = b
<1> SUFFICES ASSUME NEW b \in Nat
             PROVE  IsFiniteSet(1 .. b) /\ Cardinality(1 .. b) = b
  OBVIOUS
<1>1. 1 \in Int /\ b \in Int
  OBVIOUS
<1>2. /\ IsFiniteSet(1 .. b)
      /\ Cardinality(1 .. b) = IF 1 > b THEN 0 ELSE b - 1 + 1
  BY <1>1, FS_Interval
<1> QED
  BY <1>2

LEMMA ListedFinite ==
  ASSUME Names, RoomEnough
  PROVE  /\ IsFiniteSet(Listed) /\ Cardinality(Listed) \in Nat
         /\ Cardinality(Listed) <= Len(list) /\ Cardinality(Listed) <= MaxStack
<1>1. Len(list) \in Nat /\ Listed = {list[i] : i \in 1 .. Len(list)} /\ Listed \subseteq DOMAIN config
  BY DEF Names, Listed
<1>2. IsFiniteSet(DOMAIN config) /\ Cardinality(DOMAIN config) <= MaxStack
  BY DEF Names, RoomEnough
<1>3. /\ IsFiniteSet(Listed) /\ Cardinality(Listed) <= Cardinality(DOMAIN config)
  BY <1>1, <1>2, FS_Subset
<1>4. Cardinality(Listed) \in Nat /\ Cardinality(DOMAIN config) \in Nat
  BY <1>2, <1>3, FS_CardinalityType
<1>5. Cardinality(Listed) <= Len(list)
  <2> DEFINE f == [i \in 1 .. Len(list) |-> list[i]]
  <2>1. f \in Surjection(1 .. Len(list), Listed)
    <3>1. f \in [1 .. Len(list) -> Listed] /\ \A x \in Listed : \E i \in 1 .. Len(list) : f[i] = x
      BY <1>1
    <3> QED
      BY <3>1 DEF Surjection
  <2>2. IsFiniteSet(1 .. Len(list)) /\ Cardinality(1 .. Len(list)) = Len(list)
    BY <1>1, CountTo
  <2> HIDE DEF f
  <2> QED
    BY <2>1, <2>2, FS_Surjection
<1> QED
  BY <1>2, <1>3, <1>4, <1>5, BuildAssumption

\* A path of more projects than are listed closes a cycle.
LEMMA LongPath ==
  ASSUME Names, RoomEnough, NEW n \in Nat, n >= Cardinality(Listed),
         NEW path, \A i \in 1 .. n + 1 : path[i] \in Listed,
         \A i \in 1 .. n : path[i + 1] \in Depends(path[i])
  PROVE  Cyclic
<1> DEFINE c == Cardinality(Listed)
           f == [i \in 1 .. c + 1 |-> path[i]]
<1>1. IsFiniteSet(Listed) /\ c \in Nat /\ c <= Len(list) /\ Len(list) \in Nat
  BY ListedFinite DEF Names
<1>2. IsFiniteSet(1 .. c + 1) /\ Cardinality(1 .. c + 1) = c + 1
  BY <1>1, CountTo
<1>3. f \in [1 .. c + 1 -> Listed]
  BY <1>1
<1>4. \E i, j \in 1 .. c + 1 : i # j /\ f[i] = f[j]
  <2>1. c < c + 1
    BY <1>1
  <2> HIDE DEF c, f
  <2> QED
    BY <1>1, <1>2, <1>3, <2>1, FS_PigeonHole DEF c
<1>5. PICK i, j \in 1 .. c + 1 : i < j /\ path[i] = path[j]
  BY <1>1, <1>4
<1>6. /\ i \in Nat /\ j \in Nat /\ j - i <= Len(list) + 1 /\ path[i] \in Listed
      /\ \A k \in i .. j - 1 : path[k + 1] \in Depends(path[k])
  BY <1>1, <1>5
<1>7. path[j] \in Reach(path[i])
  BY <1>5, <1>6, ReachPath
<1> QED
  BY <1>5, <1>6, <1>7 DEF Cyclic

\* Everything include() visits from a project whose dependencies are compiled is.
LEMMA ReachCompiled ==
  ASSUME BuildInv, NEW p \in DOMAIN config, \A q \in Depends(p) : Ready(q)
  PROVE  Reach(p) \subseteq {q \in DOMAIN config : compiled[q]}
<1> DEFINE C == {q \in DOMAIN config : compiled[q]}
<1>1. Names /\ Built
  BY DEF BuildInv, BdType
<1>2. Depends(p) \subseteq C
  BY <1>1, DependsAre DEF Ready, Listed, Names
<1>3. ASSUME NEW q \in C
      PROVE  Depends(q) \subseteq C
  BY <1>1, <1>3, DependsAre DEF Built, Ready, Listed, Names
<1> QED
  BY <1>1, <1>2, <1>3, ReachInside

LEMMA CommandFinds == BuildInv => IncludeFinds
<1> SUFFICES ASSUME BuildInv, stack # <<>>, Top.at = "command"
             PROVE  Missing \notin Reach(Top.proj)
  BY DEF IncludeFinds, Running
<1>1. Names /\ Top \in CallType /\ Settled(Top, Top.i)
  BY Runs
<1>2. Top.proj \in DOMAIN config
  BY <1>1 DEF CallType
<1>3. \A q \in Depends(Top.proj) : Ready(q)
  BY <1>1, <1>2, DependsAre DEF Settled
<1> QED
  BY <1>1, <1>2, <1>3, ReachCompiled, Workspace

\* A stack that has no room left for the call of q.
LEMMA Overflow ==
  ASSUME BuildInv, RoomEnough, Standing, stack # <<>>, Top.at = "depend",
         Top.i <= Len(config[Top.proj].depends), NEW q \in Listed, q = Dep(Top.proj, Top.i),
         Len(stack) >= MaxStack
  PROVE  Cyclic
<1> DEFINE n == Len(stack)
           path == [k \in 1 .. n + 1 |-> IF k = n + 1 THEN q ELSE stack[k].proj]
<1>1. Names /\ n \in Nat \ {0} /\ Top \in CallType /\ Top = stack[n] /\ stack \in Seq(CallType)
  BY Runs DEF Top, BuildInv, BdType
<1>2. n >= Cardinality(Listed)
  BY <1>1, ListedFinite, BuildAssumption
<1>3. \A k \in 1 .. n : path[k] = stack[k].proj /\ stack[k] \in CallType
  BY <1>1
<1>4. path[n + 1] = q
  BY <1>1
<1> HIDE DEF path
<1>5. ASSUME NEW k \in 1 .. n + 1
      PROVE  path[k] \in Listed
  <2>1. CASE k = n + 1
    BY <1>4, <2>1
  <2>2. CASE k # n + 1
    BY <1>1, <1>3, <2>2 DEF Standing
  <2> QED
    BY <2>1, <2>2
<1>6. ASSUME NEW k \in 1 .. n
      PROVE  path[k + 1] \in Depends(path[k])
  <2>1. stack[k].proj \in DOMAIN config
    BY <1>3 DEF CallType
  <2>2. CASE k = n
    <3>1. Top.i \in 1 .. Len(config[Top.proj].depends)
      BY <1>1, <2>1, <2>2, Workspace DEF CallType
    <3> QED
      BY <1>1, <1>3, <1>4, <2>1, <2>2, <3>1, DependsAre
  <2>3. CASE k # n
    <3>1. k \in 1 .. n - 1 /\ k + 1 \in 1 .. n
      BY <1>1, <2>3
    <3>2. Below(stack[k], stack[k + 1])
      BY <3>1, Runs
    <3> QED
      BY <1>1, <1>3, <2>1, <3>1, <3>2, DependsAre DEF Below
  <2> QED
    BY <2>2, <2>3
<1> HIDE DEF n
<1> QED
  BY <1>1, <1>2, <1>5, <1>6, LongPath

\* Calls are made of listed projects alone, so the driver crashes by a cycle alone.
LEMMA StandingStep == RoomEnough /\ BuildInv /\ Standing /\ [Next]_vars => Standing'
<1> SUFFICES ASSUME RoomEnough, BuildInv, Standing, [Next]_vars
             PROVE  Standing'
  OBVIOUS
<1>1. BdType /\ Names /\ stack \in Seq(CallType) /\ DOMAIN stack = 1 .. Len(stack)
  BY DEF BuildInv, BdType
<1>2. ASSUME stack # <<>>
      PROVE  /\ Len(stack) \in 1 .. Len(stack) /\ Top.proj \in Listed
             /\ \A k \in 1 .. Len(Pop) : Pop[k].proj \in Listed
             /\ \A k \in 1 .. Len(Advanced) : Advanced[k].proj \in Listed
             /\ Pop \in Seq(CallType) /\ Advanced \in Seq(CallType)
  <2> DEFINE n == Len(stack)
  <2>1. n \in 1 .. n /\ n \in Nat /\ Top.proj \in Listed
    BY <1>1, <1>2, AdvancedIs DEF Standing, Top
  <2>2. \A k \in 1 .. n - 1 : stack[k].proj \in Listed
    BY <1>1 DEF Standing
  <2>3. /\ Len(Pop) = n - 1 /\ Pop \in Seq(CallType)
        /\ \A k \in 1 .. n - 1 : Pop[k] = stack[k]
    BY <1>1, <1>2, PopIs
  <2>4. /\ Len(Advanced) = n /\ Advanced \in Seq(CallType) /\ Top \in CallType
        /\ \A k \in 1 .. n - 1 : Advanced[k] = stack[k]
        /\ Advanced[n] = [Top EXCEPT !.i = @ + 1]
    BY <1>1, <1>2, AdvancedIs
  <2>5. [Top EXCEPT !.i = @ + 1].proj = Top.proj
    BY <2>4 DEF CallType
  <2>6. ASSUME NEW k \in 1 .. n
        PROVE  Advanced[k].proj \in Listed
    <3>1. CASE k = n
      BY <2>1, <2>4, <2>5, <3>1
    <3>2. CASE k # n
      <4>1. k \in 1 .. n - 1
        BY <2>1, <3>2
      <4> QED
        BY <2>2, <2>4, <4>1
    <3> QED
      BY <3>1, <3>2
  <2> QED
    BY <2>1, <2>2, <2>3, <2>4, <2>6
\* A call added to a stack of listed projects.
<1>3. ASSUME NEW s \in Seq(CallType), NEW q \in DOMAIN config, NEW at,
             \A k \in 1 .. Len(s) : s[k].proj \in Listed \cup {q}
      PROVE  \A k \in DOMAIN Append(s, Call(q, at)) : Append(s, Call(q, at))[k].proj \in Listed \cup {q}
  <2> DEFINE c == Call(q, at)
  <2>1. c.proj = q
    BY DEF Call
  <2> HIDE DEF c
  <2>2. \A k \in 1 .. Len(s) + 1 : Append(s, c)[k].proj \in Listed \cup {q}
    BY <1>3, <2>1
  <2>3. DOMAIN Append(s, c) = 1 .. Len(s) + 1
    OBVIOUS
  <2> QED
    BY <2>2, <2>3 DEF c
\* The list only grows, and does not once the tree is loaded.
<1>4. ASSUME NEW s, stack' = s, \A k \in DOMAIN s : s[k].proj \in Listed,
             Listed' = Listed, phase' # "crashed"
      PROVE  Standing'
  BY <1>4 DEF Standing, OnlyCyclesCrash
<1>5. ASSUME Crash, stack # <<>>, Cyclic
      PROVE  Standing'
  <2>1. UNCHANGED <<config, list, stack>> /\ Listed' = Listed
    BY <1>5, NamesStay DEF Crash
  <2>2. Cyclic'
    BY <1>5, <2>1, NamesStay DEF Cyclic
  <2> QED
    BY <2>1, <2>2 DEF Standing, OnlyCyclesCrash
<1>6. ASSUME UNCHANGED <<config, list>>
      PROVE  Listed' = Listed
  BY <1>6, NamesStay
<1>7. ASSUME Fail, phase' # "crashed"
      PROVE  Standing'
  BY <1>4, <1>6, <1>7 DEF Fail
<1>8. ASSUME NEW p \in DOMAIN config, NEW callers \in Seq(CallType),
             \A k \in 1 .. Len(callers) : callers[k].proj \in Listed,
             Construct(p, callers)
      PROVE  Standing'
  <2>1. CASE config[p].readable
    <3>1. /\ list' = <<p>> \o list /\ stack' = Append(callers, Call(p, "load"))
          /\ phase' = "load" /\ config' = config
      BY <1>8, <2>1 DEF Construct
    <3>2. Listed' = Listed \cup {p}
      <4> DEFINE l == <<p>> \o list
      <4>1. /\ list \in Seq(DOMAIN config) /\ Len(list) \in Nat /\ DOMAIN list = 1 .. Len(list)
            /\ DOMAIN l = 1 .. Len(list) + 1 /\ l[1] = p
            /\ \A i \in 1 .. Len(list) : l[i + 1] = list[i]
        BY <1>1 DEF Names
      <4> HIDE DEF l
      <4>2. \A i \in DOMAIN list : i + 1 \in DOMAIN l /\ l[i + 1] = list[i]
        BY <4>1
      <4>3. \A i \in DOMAIN l : i = 1 \/ \E j \in DOMAIN list : i = j + 1
        <5> SUFFICES ASSUME NEW i \in DOMAIN l, i # 1
                     PROVE  \E j \in DOMAIN list : i = j + 1
          OBVIOUS
        <5>1. i - 1 \in DOMAIN list /\ i = (i - 1) + 1
          BY <4>1
        <5> QED
          BY <5>1
      <4>4. 1 \in DOMAIN l /\ list' = l
        BY <3>1, <4>1 DEF l
      <4> QED
        BY <4>1, <4>2, <4>3, <4>4 DEF Listed
    <3>3. \A k \in DOMAIN stack' : stack'[k].proj \in Listed \cup {p}
      BY <1>3, <1>8, <3>1
    <3> QED
      BY <3>1, <3>2, <3>3 DEF Standing, OnlyCyclesCrash
  <2>2. CASE ~ config[p].readable
    BY <1>7, <1>8, <2>2 DEF Construct
  <2> QED
    BY <2>1, <2>2
<1>9. CASE LoadRoot
  <2>1. <<>> \in Seq(CallType) /\ \A k \in 1 .. Len(<<>>) : FALSE
    OBVIOUS
  <2> QED
    BY <1>1, <1>8, <1>9, <2>1, Workspace DEF LoadRoot
<1>10. CASE LoadPart
  <2>1. /\ stack # <<>> /\ Top.i <= Len(config[Top.proj].parts)
        /\ Construct(config[Top.proj].parts[Top.i], Advanced)
    BY <1>10 DEF LoadPart, Running
  <2>2. Top.proj \in DOMAIN config /\ Top.i \in Nat \ {0}
    BY <1>1, <2>1, AdvancedIs DEF CallType
  <2>3. config[Top.proj].parts \in Seq(DOMAIN config)
    BY <1>1, <2>2, Workspace
  <2>4. config[Top.proj].parts[Top.i] \in DOMAIN config
    BY <2>1, <2>2, <2>3
  <2> QED
    BY <1>2, <1>8, <2>1, <2>4
<1>11. CASE Loaded
  BY <1>2, <1>4, <1>6, <1>11 DEF Loaded, Running
<1>12. CASE NextProject
  <2>1. /\ stack = <<>> /\ cursor <= Len(list) /\ UNCHANGED <<config, list, phase>> /\ phase = "build"
        /\ stack' = IF compiled[list[cursor]] THEN stack ELSE Append(stack, Call(list[cursor], "depend"))
    BY <1>12 DEF NextProject, Compile
  <2>2. list[cursor] \in Listed /\ list[cursor] \in DOMAIN config
    BY <1>1, <2>1 DEF BdType, Names, Listed
  <2>3. <<>> \in Seq(CallType) /\ \A k \in 1 .. Len(<<>>) : FALSE
    OBVIOUS
  <2>4. \A k \in DOMAIN stack' : stack'[k].proj \in Listed
    <3>1. CASE compiled[list[cursor]]
      BY <2>1, <3>1
    <3>2. CASE ~ compiled[list[cursor]]
      <4> DEFINE p == list[cursor]
      <4>1. p \in Listed /\ p \in DOMAIN config /\ stack' = Append(<<>>, Call(p, "depend"))
        BY <2>1, <2>2, <3>2
      <4> HIDE DEF p
      <4>2. \A k \in DOMAIN Append(<<>>, Call(p, "depend")) :
              Append(<<>>, Call(p, "depend"))[k].proj \in Listed \cup {p}
        BY <1>3, <2>3, <4>1
      <4> QED
        BY <4>1, <4>2
    <3> QED
      BY <3>1, <3>2
  <2> QED
    BY <1>4, <1>6, <2>1, <2>4
<1>13. CASE Report
  BY <1>1, <1>4, <1>6, <1>13 DEF Report, Standing
<1>14. CASE phase # "crashed" /\ DependNext
  <2> DEFINE q == FindProject(config[Top.proj].depends[Top.i])
  <2>1. /\ stack # <<>> /\ Top.at = "depend" /\ Top.i <= Len(config[Top.proj].depends)
        /\ \/ q = Missing /\ Fail /\ UNCHANGED phase
           \/ q # Missing /\ compiled[q] /\ Goes(Advanced)
           \/ q # Missing /\ ~ compiled[q] /\ Enter(q)
    BY <1>14 DEF DependNext, Running
  <2>2. q = Dep(Top.proj, Top.i) /\ (q = Missing \/ q \in Listed)
    BY <1>1, Found DEF Dep
  <2> HIDE DEF q
  <2>3. CASE q = Missing
    BY <1>7, <1>14, <2>1, <2>3
  <2>4. CASE Goes(Advanced)
    BY <1>2, <1>4, <1>6, <1>14, <2>1, <2>4 DEF Goes
  <2>5. CASE q # Missing /\ Enter(q)
    <3>1. CASE Len(stack) < MaxStack
      <4>1. Goes(Append(Advanced, Call(q, "depend")))
        BY <2>5, <3>1 DEF Enter
      <4>2. q \in Listed /\ q \in DOMAIN config
        BY <1>1, <2>2, <2>5 DEF Listed, Names
      <4>3. \A k \in DOMAIN stack' : stack'[k].proj \in Listed
        BY <1>2, <1>3, <2>1, <4>1, <4>2, SMTT(30) DEF Goes
      <4> QED
        BY <1>4, <1>6, <1>14, <4>1, <4>3 DEF Goes
    <3>2. CASE ~ (Len(stack) < MaxStack)
      <4>1. Crash /\ Len(stack) >= MaxStack
        BY <1>1, <2>5, <3>2, BuildAssumption DEF Enter
      <4>2. Cyclic
        BY <2>1, <2>2, <2>5, <4>1, Overflow
      <4> QED
        BY <1>5, <2>1, <4>1, <4>2
    <3> QED
      BY <3>1, <3>2
  <2> QED
    BY <2>1, <2>3, <2>4, <2>5
<1>15. CASE phase # "crashed" /\ DependsDone
  <2>1. stack # <<>> /\ Goes(Append(Pop, Call(Top.proj, "resource")))
    BY <1>15 DEF DependsDone, Running
  <2>2. \A k \in DOMAIN stack' : stack'[k].proj \in Listed
    <3>1. Top.proj \in DOMAIN config /\ Top.proj \in Listed
      BY <1>1, <1>2, <2>1 DEF Listed, Names
    <3> QED
      BY <1>2, <1>3, <2>1, <3>1 DEF Goes
  <2> QED
    BY <1>4, <1>6, <1>15, <2>1, <2>2 DEF Goes
<1>16. CASE phase # "crashed" /\ ResourcesDone
  <2>1. /\ stack # <<>> /\ UNCHANGED <<config, list, phase>>
        /\ stack' = Append(Pop, Call(Top.proj, "command")) \/ stack' = Pop
    BY <1>16 DEF ResourcesDone, Running
  <2>2. Top.proj \in DOMAIN config /\ Top.proj \in Listed
    BY <1>1, <1>2, <2>1 DEF Listed, Names
  <2>3. CASE stack' = Pop
    BY <1>2, <1>4, <1>6, <1>16, <2>1, <2>3
  <2>4. CASE stack' = Append(Pop, Call(Top.proj, "command"))
    <3>1. \A k \in DOMAIN stack' : stack'[k].proj \in Listed
      BY <1>2, <1>3, <2>1, <2>2, <2>4
    <3> QED
      BY <1>4, <1>6, <1>16, <2>1, <3>1
  <2> QED
    BY <2>1, <2>3, <2>4
<1>17. CASE phase # "crashed" /\ \E ok \in BOOLEAN : Resource(ok)
  <2>1. stack # <<>> /\ stack' = Advanced /\ UNCHANGED <<config, list, phase>>
    BY <1>17 DEF Resource, Running
  <2> QED
    BY <1>2, <1>4, <1>6, <1>17, <2>1
<1>18. CASE phase # "crashed" /\ \E ok \in BOOLEAN : Command(ok)
  <2>1. PICK ok \in BOOLEAN : Command(ok)
    BY <1>18
  <2>2. stack # <<>> /\ Missing \notin Reach(Top.proj)
    BY <2>1, CommandFinds DEF Command, IncludeFinds, Running
  <2>3. CommandSucceeds \/ CommandFails
    BY <2>1, <2>2 DEF Command
  <2> QED
    BY <1>2, <1>4, <1>6, <1>7, <1>18, <2>2, <2>3 DEF CommandSucceeds, CommandFails
<1>19. CASE UNCHANGED vars
  <2>1. UNCHANGED <<config, list, stack, phase>>
    BY <1>19 DEF vars
  <2>2. Listed' = Listed /\ (Cyclic' <=> Cyclic)
    BY <2>1, NamesStay DEF Cyclic
  <2> QED
    BY <2>1, <2>2 DEF Standing, OnlyCyclesCrash
<1> QED
  BY <1>9, <1>10, <1>11, <1>12, <1>13, <1>14, <1>15, <1>16, <1>17, <1>18, <1>19
     DEF Next, Step

\* The recursion of compile() and depend() ends unless the projects depend on
\* each other in a circle; no project of a circle counts as compiled; and
\* include(), which trusts FindProject, never meets a nullptr
\* (compiler.cpp:305-386).
THEOREM CyclesCorrect ==
  ASSUME RoomEnough
  PROVE  Spec => []CyclesAloneFail
<1>1. Init => Standing
  BY DEF Init, Standing, OnlyCyclesCrash
<1>2. BuildInv /\ Standing => CyclesAloneFail
  BY CommandFinds DEF CyclesAloneFail, Standing, BuildInv
<1>3. BuildInv /\ Standing /\ [Next]_vars => Standing'
  BY StandingStep
<1> QED
  BY <1>1, <1>2, <1>3, BuildInvariance, PTL DEF Spec
===============================================================================
