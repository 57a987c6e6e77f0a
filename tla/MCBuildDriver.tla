---------------------------- MODULE MCBuildDriver ----------------------------
(***************************************************************************)
(* BuildDriver on every dependency graph of three projects under a root    *)
(* without sources, with an unknown dependency, a duplicate name, a        *)
(* missing configuration and resource scripts mixed in; and on this        *)
(* repository's own projects.                                              *)
(***************************************************************************)
EXTENDS BuildDriver, SequencesExt

CONSTANTS root, a, b, c, absent

Leaf(name, depends, rc, readable) ==
  [name |-> name, parts |-> <<>>, depends |-> SetToSeq(depends), rc |-> rc,
   sources |-> TRUE, readable |-> readable]

MCRoot ==
  [name |-> root, parts |-> <<a, b, c>>, depends |-> <<>>, rc |-> 0,
   sources |-> FALSE, readable |-> TRUE]

MCSmall ==
  { (root :> MCRoot) @@ (a :> Leaf(a, da, 0, TRUE))
      @@ (b :> [Leaf(b, db, 1, TRUE) EXCEPT !.sources = sb])
      @@ (c :> Leaf(nc, dc, 0, rc)) :
        da \in SUBSET {a, b, c, absent}, db \in SUBSET {a, b, c},
        dc \in SUBSET {a, b, c}, sb \in BOOLEAN, nc \in {a, c},
        rc \in BOOLEAN }

\* This repository: its root config.json and those of the fifteen sub-projects
\* it lists, as they are.
Part(name, depends, rc) ==
  [name |-> name, parts |-> <<>>, depends |-> depends, rc |-> rc,
   sources |-> TRUE, readable |-> TRUE]

Miko ==
  [name |-> "Miko",
   parts |-> <<"Memory", "String", "Streaming", "Filesystem", "JSON",
              "compile", "Timestamp", "Compression", "WSA", "Cryptography",
              "WTM", "HTTP", "CWS", "Concurrency", "WST">>,
   depends |-> <<>>, rc |-> 0, sources |-> FALSE, readable |-> TRUE]

Repository ==
  "Memory" :> Part("Memory", <<>>, 0) @@
  "String" :> Part("String", <<"Memory">>, 0) @@
  "Streaming" :> Part("Streaming", <<"Memory", "String">>, 0) @@
  "Filesystem" :> Part("Filesystem", <<"Memory", "Streaming", "String">>, 0) @@
  "JSON" :> Part("JSON", <<"String">>, 0) @@
  "compile" :> Part("Compiler", <<"Memory", "String", "JSON", "Streaming", "Filesystem">>, 1) @@
  "Timestamp" :> Part("Timestamp", <<"Memory">>, 0) @@
  "Compression" :> Part("Compression", <<"Memory">>, 0) @@
  "WSA" :> Part("WSA", <<"Memory", "Streaming">>, 0) @@
  "Cryptography" :> Part("Cryptography", <<"Memory">>, 0) @@
  "WTM" :> Part("WTM", <<"Memory">>, 0) @@
  "HTTP" :> Part("HTTP", <<"Memory", "String", "WSA", "Streaming">>, 0) @@
  "CWS" :> Part("CWS", <<"Timestamp", "WSA", "String", "Memory", "Cryptography">>, 0) @@
  "Concurrency" :> Part("Concurrency", <<"Memory", "WTM">>, 0) @@
  "WST" :> Part("WST", <<"Memory", "Streaming", "Filesystem", "String">>, 0)

MCProjects == {root, a, b, c} \cup DOMAIN Repository
MCWorkspaces == MCSmall \cup {(root :> Miko) @@ Repository}

\* One project with two resource scripts.
MCOneProject ==
  { (root :> [MCRoot EXCEPT !.parts = <<a>>]) @@ (a :> Leaf(a, {}, 2, TRUE))
      @@ (b :> Leaf(b, d, 1, TRUE)) @@ (c :> Leaf(c, {}, 0, TRUE)) :
        d \in SUBSET {a, c} }

\* On this repository a build can fail only where a command does: every name a
\* project depends on is that of a project, which is listed before it, so that
\* all are found once they are loaded and no project depends on itself.
ASSUME RepositoryOrdered ==
  \A i \in DOMAIN Miko.parts : \A name \in Range(Repository[Miko.parts[i]].depends) :
    \E j \in 1 .. i - 1 : Repository[Miko.parts[j]].name = name
===============================================================================
