-------------------------------- MODULE Files --------------------------------
(* Filesystem: create(), make() and remove() of several threads or processes,  *)
(* call of the system by call.  A path is the sequence of names below a drive, *)
(* which is always there; `parent' drops the last one (the texts of paths are  *)
(* cut at their last backslash, but not into the three characters of a drive). *)
(* The system's calls fail for what is or is not on the path, and for nothing  *)
(* else: access, names or a full disk are no reason here.                      *)
EXTENDS Integers, Sequences, SequencesExt, FiniteSets

CONSTANTS
  Actors,        \* the threads
  Paths,         \* the paths they name, with all above them
  FsCalls        \* bound: calls in a behaviour

ASSUME FilesAssumption ==
  /\ Paths \subseteq Seq(UNION {ToSet(p) : p \in Paths}) \ {<<>>}
  /\ \A p \in Paths : \A i \in 1 .. Len(p) - 1 : SubSeq(p, 1, i) \in Paths

VARIABLES
  fsTree,        \* what is on disk: a path's kind, "none", "file" or "directory"
  fsCall,        \* each actor's call: [op, path, pc, todo, result]
  fsCount,       \* calls begun
  fsBefore,      \* history: the tree when the call began
  fsRaced,       \* history: another actor changed the tree since
  fsMine         \* history: the call itself has created its path

fsVars == <<fsTree, fsCall, fsCount, fsBefore, fsRaced, fsMine>>

Drive == <<>>
parent(path) == Front(path)
Kind(path) == IF path = Drive THEN "directory" ELSE fsTree[path]

\* GetFileAttributes: below what is not a directory nothing is found.
Reachable(path) == \A i \in 0 .. Len(path) - 1 : Kind(SubSeq(path, 1, i)) = "directory"
Exist(path) == Reachable(path) /\ Kind(path) # "none"
Directory(path) == Reachable(path) /\ Kind(path) = "directory"

Idle == [op |-> "none", path |-> Drive, pc |-> "idle", todo |-> <<>>, result |-> "none"]

FsInit ==
  /\ fsTree = [p \in Paths |-> "none"]
  /\ fsCall = [a \in Actors |-> Idle]
  /\ fsCount = 0
  /\ fsBefore = [a \in Actors |-> fsTree]
  /\ fsRaced = [a \in Actors |-> FALSE]
  /\ fsMine = [a \in Actors |-> FALSE]

-----------------------------------------------------------------------------
Goto(a, pc) == fsCall' = [fsCall EXCEPT ![a].pc = pc]
Answer(a, result) == fsCall' = [fsCall EXCEPT ![a].pc = "idle", ![a].result = result]
Quiet == UNCHANGED <<fsTree, fsCount, fsBefore, fsRaced, fsMine>>

\* A change of the tree by actor a.
Change(a, path, kind) ==
  /\ fsTree' = [fsTree EXCEPT ![path] = kind]
  /\ fsRaced' = [b \in Actors |-> fsRaced[b] \/ (b # a /\ fsCall[b].pc # "idle")]
  /\ fsMine' = [fsMine EXCEPT ![a] = @ \/ path = fsCall[a].path]
  /\ UNCHANGED <<fsCount, fsBefore>>

Begin(a, op, path) ==
  /\ fsCall[a].pc = "idle" /\ fsCount < FsCalls
  /\ fsCall' = [fsCall EXCEPT ![a] =
       [op |-> op, path |-> path, todo |-> <<path>>, result |-> "none",
        pc |-> CASE op = "create" -> "isDirectory" [] op = "make" -> "isThere" [] OTHER -> "attributes"]]
  /\ fsCount' = fsCount + 1
  /\ fsBefore' = [fsBefore EXCEPT ![a] = fsTree]
  /\ fsRaced' = [fsRaced EXCEPT ![a] = FALSE]
  /\ fsMine' = [fsMine EXCEPT ![a] = FALSE]
  /\ UNCHANGED fsTree

\* create(): a directory of that name is an error; a file is no work; then the
\* directory above is made, and the file opened as a new one.
IsDirectory(a) ==
  /\ fsCall[a].pc = "isDirectory"
  /\ IF Directory(fsCall[a].path) THEN Answer(a, "throw") ELSE Goto(a, "exists")
  /\ Quiet

\* Mutant: create() does not make the directories above.
Exists_NoParent(a) ==
  /\ fsCall[a].pc = "exists"
  /\ IF Exist(fsCall[a].path) THEN Answer(a, "false") ELSE Goto(a, "createFile")
  /\ Quiet

Exists(a) ==
  /\ fsCall[a].pc = "exists"
  /\ IF Exist(fsCall[a].path) THEN Answer(a, "false")
     ELSE fsCall' = [fsCall EXCEPT ![a].pc = "isThere", ![a].todo = <<fsCall[a].path, parent(fsCall[a].path)>>]
  /\ Quiet

\* Mutant: the file is opened although it is there (OPEN_ALWAYS for CREATE_NEW).
CreateFile_Opens(a) ==
  /\ fsCall[a].pc = "createFile"
  /\ LET path == fsCall[a].path IN
     IF ~Exist(path) /\ Reachable(path)
     THEN Answer(a, "true") /\ Change(a, path, "file")
     ELSE Answer(a, IF Reachable(path) /\ Kind(path) = "file" THEN "true" ELSE "throw") /\ Quiet

CreateFile(a) ==
  /\ fsCall[a].pc = "createFile"
  /\ LET path == fsCall[a].path IN
     IF ~Exist(path) /\ Reachable(path)
     THEN Answer(a, "true") /\ Change(a, path, "file")
     ELSE Answer(a, IF Reachable(path) /\ Kind(path) = "file" THEN "false" ELSE "throw") /\ Quiet

\* make(), for the last path of todo: file() asks whether it is there and then
\* whether it is a directory; then exist() asks again; then the one above.
IsThere(a) ==
  /\ fsCall[a].pc = "isThere"
  /\ Goto(a, IF Exist(Last(fsCall[a].todo)) THEN "isFile" ELSE "missing")
  /\ Quiet
IsFile(a) ==
  /\ fsCall[a].pc = "isFile"
  /\ IF Directory(Last(fsCall[a].todo)) THEN Goto(a, "missing") ELSE Answer(a, "throw")
  /\ Quiet

\* What follows when the last path of todo is there: the one below it is made,
\* or the file, or the call is over.
Done(a, result) ==
  LET rest == Front(fsCall[a].todo) IN
  fsCall' = IF rest = <<>> THEN [fsCall EXCEPT ![a].pc = "idle", ![a].result = result]
            ELSE [fsCall EXCEPT ![a].todo = rest,
                    ![a].pc = IF fsCall[a].op = "create" /\ Len(rest) = 1 THEN "createFile" ELSE "makeDirectory"]
Missing(a) ==
  /\ fsCall[a].pc = "missing"
  /\ IF Exist(Last(fsCall[a].todo)) THEN Done(a, "false")
     ELSE fsCall' = [fsCall EXCEPT ![a].todo = Append(@, parent(Last(@))), ![a].pc = "isThere"]
  /\ Quiet

\* CreateDirectory fails when another one has come first.
MakeDirectory(a) ==
  /\ fsCall[a].pc = "makeDirectory"
  /\ LET path == Last(fsCall[a].todo) IN
     IF Reachable(path) /\ Kind(path) = "none"
     THEN Done(a, "true") /\ Change(a, path, "directory")
     ELSE Answer(a, "throw") /\ Quiet

\* remove(): the kind, then the deletion of that kind.  A directory must be empty.
Attributes(a) ==
  /\ fsCall[a].pc = "attributes"
  /\ IF ~Exist(fsCall[a].path) THEN Answer(a, "false")
     ELSE Goto(a, IF Directory(fsCall[a].path) THEN "removeDirectory" ELSE "deleteFile")
  /\ Quiet
Delete(a) ==
  /\ fsCall[a].pc \in {"removeDirectory", "deleteFile"}
  /\ LET path == fsCall[a].path
         kind == IF fsCall[a].pc = "deleteFile" THEN "file" ELSE "directory"
     IN IF Reachable(path) /\ Kind(path) = kind
           /\ \A p \in Paths : p # path /\ IsPrefix(path, p) => fsTree[p] = "none"
        THEN Answer(a, "true") /\ Change(a, path, "none")
        ELSE Answer(a, "false") /\ Quiet

FsNext ==
  \E a \in Actors :
    \/ \E op \in {"create", "make", "remove"}, path \in Paths : Begin(a, op, path)
    \/ IsDirectory(a) \/ Exists(a) \/ CreateFile(a)
    \/ IsThere(a) \/ IsFile(a) \/ Missing(a) \/ MakeDirectory(a)
    \/ Attributes(a) \/ Delete(a)

FsSpec == FsInit /\ [][FsNext]_fsVars

-----------------------------------------------------------------------------
\* What a call does to a tree when it is alone.
Was(tree, path) == IF path = Drive THEN "directory" ELSE tree[path]
Above(path) == {SubSeq(path, 1, i) : i \in 0 .. Len(path) - 1}
Blocked(tree, path) == \E p \in Above(path) : Was(tree, p) = "file"
MadeOf(tree, path, kind) ==
  [p \in DOMAIN tree |-> IF p = path THEN kind ELSE IF p \in Above(path) THEN "directory" ELSE tree[p]]
Alone(op, tree, path) ==
  LET kind == Was(tree, path)
      own == IF op = "create" THEN "file" ELSE "directory"
      below == \E p \in DOMAIN tree : p # path /\ IsPrefix(path, p) /\ tree[p] # "none"
  IN IF op = "remove"
     THEN IF kind = "none" \/ below THEN [result |-> "false", tree |-> tree]
          ELSE [result |-> "true", tree |-> [tree EXCEPT ![path] = "none"]]
     ELSE IF kind = own THEN [result |-> "false", tree |-> tree]
     ELSE IF kind # "none" \/ Blocked(tree, path) THEN [result |-> "throw", tree |-> tree]
     ELSE [result |-> "true", tree |-> MadeOf(tree, path, own)]

(* Of every step: a call that no other actor's change came into does what its  *)
(* name says: it                                                               *)
(* answers true when it made or removed the path, false when there was nothing *)
(* to do, throws when the kinds are wrong, and makes every directory above.    *)
(* (With a change in between, make() may throw for a directory that is there,  *)
(* and answer false for what is a file: Filesystem.cpp:93-100.)                *)
CallsAlone ==
  [][\A a \in Actors :
       fsCall[a].pc # "idle" /\ fsCall'[a].pc = "idle" /\ ~fsRaced'[a]
       => LET alone == Alone(fsCall[a].op, fsBefore[a], fsCall[a].path)
          IN fsCall'[a].result = alone.result /\ fsTree' = alone.tree]_fsVars

(* Whoever is told that it created a path did so itself, whatever came between:*)
(* two actors never both take one file or one directory for their own.         *)
TrueIsMine ==
  \A a \in Actors : fsCall[a].result = "true" => fsMine[a]
=============================================================================
