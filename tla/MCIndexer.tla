----------------------------- MODULE MCIndexer -----------------------------
(***************************************************************************)
(* Indexer for TLC: a root with two files to index, one of them in src, an *)
(* excluded directory and file, and a socket.                              *)
(***************************************************************************)
EXTENDS Indexer, TLC

Tree ==
  "/" :> <<".git", "README", "doc", "sock", "src">> @@ ".git" :> <<"config">>
    @@ "doc" :> <<"todo#">> @@ "src" :> <<"foo.go">>
Extensions == [n \in Nodes |->
  CASE n = ".git" -> "git" [] n = "foo.go" -> "go" [] OTHER -> ""]

\* Everything in the root under both its names; a part of it and listed
\* files, one excluded; a directory inside another; and what is refused.
SomeQueries ==
  {[files |-> {}, dirs |-> {".", "/"}, keyed |-> TRUE],
   [files |-> {"todo#"}, dirs |-> {"src"}, keyed |-> TRUE],
   [files |-> {}, dirs |-> {".", "src"}, keyed |-> TRUE],
   [files |-> {}, dirs |-> {}, keyed |-> TRUE],
   [files |-> {}, dirs |-> {"."}, keyed |-> FALSE],
   [files |-> {}, dirs |-> {"src", "/etc"}, keyed |-> TRUE]}
=============================================================================
