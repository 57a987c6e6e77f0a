------------------------------ MODULE JsonTree ------------------------------
(* JSON::object as the owner of its members (JSON/src/object.cpp): a program   *)
(* reaches a member by a path of operator[], which creates what is missing,    *)
(* and then assigns a value, a copy or another object's content.  Members are  *)
(* nodes of the heap; what is read or freed after it was freed is a fault.     *)
EXTENDS Integers, Sequences, SequencesExt, FiniteSetsExt

CONSTANTS
  JtRoots,      \* variables of type JSON::object: the objects 1, 2, ...
  JtSteps,      \* steps of a path: [key, index]; a step to an element has key "none"
  JtMaxPath, JtMaxNodes  \* bounds: the depth of an access, the objects
                         \* alive before a statement

ASSUME JsonTreeAssumption ==
  /\ JtRoots \subseteq Nat \ {0} /\ IsFiniteSet(JtRoots)
  /\ \A step \in JtSteps : step.index \in Nat
  /\ JtMaxPath \in Nat

VARIABLES
  jtNode,      \* live object -> [type, content, readonly]; content is a sequence
               \* of [key, value]; the value of an object or an array is an object
  jtThrown,    \* what the last statement threw ("none")
  jtFault,     \* an object was used after it was freed
  jtAliased    \* a statement moved between objects of one tree, or assigned an
               \* object its own string

jtVars == <<jtNode, jtThrown, jtFault, jtAliased>>

FreshObject == [type |-> "UNKNOWN", content |-> <<>>, readonly |-> FALSE]
JtInit == /\ jtNode = [r \in JtRoots |-> FreshObject]
          /\ jtThrown = "none" /\ jtFault = FALSE /\ jtAliased = FALSE

HasObjects(type) == type \in {"COMPONENT", "ARRAY"}
Children(heap, n) ==
  IF HasObjects(heap[n].type) THEN {heap[n].content[i].value : i \in DOMAIN heap[n].content} ELSE {}
\* A node and all below it, level by level.
Tree(heap, n) ==
  LET level[d \in 0 .. Cardinality(DOMAIN heap)] ==
        IF d = 0 THEN {n}
        ELSE LET above == level[d - 1]
             IN above \cup UNION {Children(heap, m) : m \in above \intersect DOMAIN heap}
  IN level[Cardinality(DOMAIN heap)]
Below(heap, n) == Tree(heap, n) \ {n}

\* As many free places as are asked for, and maybe more; the allocator's first one.
FreeNodes(heap, count) == (1 .. Cardinality(DOMAIN heap) + count) \ DOMAIN heap
NewNode(heap) == Min(FreeNodes(heap, 1))
Rank(S, x) == Cardinality({y \in S : y <= x})
Nth(S, k) == CHOOSE x \in S : Rank(S, x) = k
WithObject(heap, n, object) == [m \in DOMAIN heap \cup {n} |-> IF m = n THEN object ELSE heap[m]]

\* cleanup: the members go, with all they own.
cleanup(heap, n) ==
  [m \in (DOMAIN heap) \ Below(heap, n) |->
     IF m = n THEN [heap[n] EXCEPT !.type = "UNKNOWN", !.content = <<>>] ELSE heap[m]]

-----------------------------------------------------------------------------
(* operator[]: one step of a path.  A result is [heap, node, thrown].          *)

Throws(heap, n, what) == [heap |-> heap, node |-> n, thrown |-> what]
\* A mutant: a member does not become readonly with its object.
Reach_Unmarked(heap, n, i) ==
  [heap |-> heap, node |-> heap[n].content[i].value, thrown |-> "none"]
Reach(heap, n, i) ==
  LET child == heap[n].content[i].value
  IN [heap |-> [heap EXCEPT ![child].readonly = heap[n].readonly], node |-> child,
      thrown |-> "none"]

Member(heap, n, key) ==
  LET object == heap[n]
      found == {i \in DOMAIN object.content : object.content[i].key = key}
      typed == [heap EXCEPT ![n].type = "COMPONENT"]
      new == NewNode(heap)
  IN IF object.type \notin {"COMPONENT", "UNKNOWN"} THEN Throws(heap, n, "WRONG_OBJECT_TYPE")
     ELSE IF object.readonly /\ object.type = "UNKNOWN" THEN Throws(heap, n, "ACCESS_VIOLATION")
     ELSE IF found # {} THEN Reach(typed, n, Min(found))
     ELSE IF object.readonly THEN Throws(typed, n, "OBJECT_NOT_FOUND")
     ELSE Reach([WithObject(typed, new, FreshObject) EXCEPT
                   ![n].content = Append(@, [key |-> key, value |-> new])],
                n, Len(object.content) + 1)

\* Elements up to the index are created with it.
Element(heap, n, index) ==
  LET object == heap[n]
      size == Len(object.content)
      typed == [heap EXCEPT ![n].type = "ARRAY"]
      new == [i \in 1 .. (index + 1 - size) |-> Nth(FreeNodes(heap, index + 1 - size), i)]
      grown == [m \in DOMAIN heap \cup ToSet(new) |->
                  IF m = n THEN [typed[n] EXCEPT !.content =
                    @ \o [i \in DOMAIN new |-> [key |-> "none", value |-> new[i]]]]
                  ELSE IF m \in DOMAIN heap THEN heap[m] ELSE FreshObject]
  IN IF object.type \notin {"ARRAY", "UNKNOWN"} THEN Throws(heap, n, "WRONG_OBJECT_TYPE")
     ELSE IF object.readonly /\ object.type = "UNKNOWN" THEN Throws(heap, n, "ACCESS_VIOLATION")
     ELSE IF index < size THEN Reach(typed, n, index + 1)
     ELSE IF object.readonly THEN Throws(typed, n, "OBJECT_NOT_FOUND")
     ELSE Reach(grown, n, index + 1)

\* A path: what an earlier step created stays when a later one throws.
Access(heap, root, path) ==
  LET at[d \in 0 .. Len(path)] ==
        IF d = 0 THEN [heap |-> heap, node |-> root, thrown |-> "none"]
        ELSE LET r == at[d - 1]
             IN IF r.thrown # "none" THEN r
                ELSE IF path[d].key # "none" THEN Member(r.heap, r.node, path[d].key)
                ELSE Element(r.heap, r.node, path[d].index)
  IN at[Len(path)]

-----------------------------------------------------------------------------
(* Assignments.                                                                *)

Ends(result, fault, aliased) ==
  /\ jtNode' = result.heap /\ jtThrown' = result.thrown
  /\ jtFault' = fault /\ jtAliased' = (jtAliased \/ aliased)

\* operator= of a string, a number or a boolean.
AssignValue(root, path, type) ==
  \E r \in {Access(jtNode, root, path)} :
     /\ ~jtFault
     /\ Ends(IF r.thrown # "none" THEN r
             ELSE IF r.heap[r.node].readonly THEN Throws(r.heap, r.node, "ACCESS_VIOLATION")
             ELSE [r EXCEPT !.heap = WithObject(cleanup(r.heap, r.node), r.node,
               [type |-> type, content |-> <<[key |-> "none", value |-> 0]>>, readonly |-> FALSE])],
             FALSE, FALSE)

\* The same with the string the object holds itself, which cleanup frees first.
AssignOwnString(root, path) ==
  \E r \in {Access(jtNode, root, path)} :
     /\ ~jtFault
     /\ r.thrown = "none" /\ r.heap[r.node].type = "STRING" /\ ~r.heap[r.node].readonly
     /\ Ends([r EXCEPT !.heap = cleanup(r.heap, r.node)], TRUE, TRUE)

\* The copy of a tree: new objects all the way down, none of them readonly.
\* A result is [heap, top]; top is what the copied object itself becomes.
Copy(heap, n) ==
  LET old == Below(heap, n)
      new == [m \in old |-> Nth(FreeNodes(heap, Cardinality(old)), Rank(old, m))]
      copied(m) == [heap[m] EXCEPT !.readonly = FALSE, !.content =
                      IF HasObjects(heap[m].type)
                      THEN [i \in DOMAIN @ |-> [key |-> @[i].key, value |-> new[@[i].value]]]
                      ELSE @]
      copies == {new[m] : m \in old}
  IN [heap |-> [m \in DOMAIN heap \cup copies |->
                  IF m \in copies THEN copied(CHOOSE o \in old : new[o] = m) ELSE heap[m]],
      top |-> copied(n)]

\* Objects that are assigned are first reached, both of them.
Both(root, path, from, fromPath) ==
  LET right == Access(jtNode, from, fromPath)
      left == IF right.thrown # "none" THEN right ELSE Access(right.heap, root, path)
  IN [heap |-> left.heap, thrown |-> left.thrown, left |-> left.node, right |-> right.node]

\* operator=(const object &): nobody asks for readonly here.
AssignCopy(root, path, from, fromPath) ==
  \E r \in {Both(root, path, from, fromPath)} :
     /\ ~jtFault
     /\ IF r.thrown # "none" \/ r.left = r.right THEN Ends(r, FALSE, FALSE)
        ELSE \E copy \in {Copy(r.heap, r.right)} :
               Ends(Throws([cleanup(copy.heap, r.left) EXCEPT ![r.left].type = copy.top.type,
                                                             ![r.left].content = copy.top.content],
                           r.left, "none"),
                    FALSE, FALSE)

\* A mutant: the object that is moved from keeps its members.
AssignMove_Shares(root, path, from, fromPath) ==
  \E r \in {Both(root, path, from, fromPath)} :
     /\ ~jtFault
     /\ IF r.thrown # "none" \/ r.left = r.right THEN Ends(r, FALSE, FALSE)
        ELSE \E moved \in {r.heap[r.right]}, cleaned \in {cleanup(r.heap, r.left)} :
          IF r.right \notin DOMAIN cleaned THEN Ends(Throws(cleaned, r.left, "none"), TRUE, TRUE)
          ELSE Ends(Throws([cleaned EXCEPT ![r.left].type = moved.type, ![r.left].content = moved.content],
                           r.left, "none"),
                    FALSE, r.left \in Below(r.heap, r.right))

\* operator=(object &&): the members are taken over after the old ones went.
AssignMove(root, path, from, fromPath) ==
  \E r \in {Both(root, path, from, fromPath)} :
     /\ ~jtFault
     /\ IF r.thrown # "none" \/ r.left = r.right THEN Ends(r, FALSE, FALSE)
        ELSE \E moved \in {r.heap[r.right]}, cleaned \in {cleanup(r.heap, r.left)} :
          IF r.right \notin DOMAIN cleaned THEN Ends(Throws(cleaned, r.left, "none"), TRUE, TRUE)
          ELSE Ends(Throws([cleaned EXCEPT ![r.left].type = moved.type, ![r.left].content = moved.content,
                                           ![r.right].type = "UNKNOWN", ![r.right].content = <<>>],
                           r.left, "none"),
                    FALSE, r.left \in Below(r.heap, r.right))

SetReadonly(root) ==
  /\ ~jtFault /\ ~jtNode[root].readonly
  /\ jtNode' = [jtNode EXCEPT ![root].readonly = TRUE] /\ jtThrown' = "none"
  /\ UNCHANGED <<jtFault, jtAliased>>

MemberPaths == UNION {[1 .. d -> JtSteps] : d \in 0 .. JtMaxPath}
Room == Cardinality(DOMAIN jtNode) <= JtMaxNodes

JtNext ==
  \/ \E root \in JtRoots, path \in MemberPaths :
       Room /\ (\/ \E type \in {"STRING", "INTEGER"} : AssignValue(root, path, type)
                \/ AssignOwnString(root, path))
  \/ \E root, from \in JtRoots, path, fromPath \in MemberPaths :
       Room /\ (AssignCopy(root, path, from, fromPath) \/ AssignMove(root, path, from, fromPath))
  \/ \E root \in JtRoots : SetReadonly(root)

JtSpec == JtInit /\ [][JtNext]_jtVars

-----------------------------------------------------------------------------
\* The places that own an object.
PlacesOf(n) == UNION {{<<m, i>> : i \in {j \in DOMAIN jtNode[m].content : jtNode[m].content[j].value = n}} :
                        m \in {k \in DOMAIN jtNode : HasObjects(jtNode[k].type)}}
\* As long as no statement moved between objects of one tree or assigned an
\* object its own string: every object has exactly one owner - a variable or
\* one place in one object -, the owned ones form trees, so that each is freed
\* once and none is lost, and no freed object is used.
TreesOwned ==
  ~jtAliased =>
    /\ ~jtFault
    /\ \A n \in DOMAIN jtNode : Cardinality(PlacesOf(n)) = IF n \in JtRoots THEN 0 ELSE 1
    /\ UNION {Tree(jtNode, r) : r \in JtRoots} = DOMAIN jtNode

\* An object and all below it, but for the marks themselves.
Shape(heap, n) == {[node |-> m, type |-> heap[m].type, content |-> heap[m].content]
                     : m \in Tree(heap, n)}
KeepsReadonly ==
  \A r \in JtRoots :
    (jtNode[r].readonly /\ ~jtFault' /\
     \E root \in JtRoots, path \in MemberPaths, type \in {"STRING", "INTEGER"} :
       AssignValue(root, path, type))
    => Shape(jtNode', r) = Shape(jtNode, r)
\* What a variable that is readonly holds, whatever path a statement takes
\* through it, changes only by the assignment of a whole object somewhere in
\* it; a member reached through it becomes readonly with it.
ReadonlyKept == [][KeepsReadonly]_jtVars
=============================================================================
