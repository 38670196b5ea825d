------------------------------- MODULE Walker -------------------------------
(***************************************************************************)
(* The walk of a directory tree (walkablefs/walker.go) with the function   *)
(* that the indexer's scanner calls for every path (afind/index.go) and    *)
(* the excluded names (afind/path_matcher.go, afind/excludes.go).          *)
(*                                                                         *)
(* A node of the tree is a path.  Lstat fails for the nodes in lf, ReadDir *)
(* for the directories in rf.                                              *)
(***************************************************************************)
EXTENDS Integers, Sequences, FiniteSets, FiniteSetsExt

CONSTANTS
  Entries,   \* the sorted entries of each directory
  Ext,       \* what follows the last dot of each path, or ""
  Hashed,    \* the paths that end in "#"
  Special    \* the paths that are neither directories nor regular files

Dirs == DOMAIN Entries
Nodes == Dirs \cup UNION {{Entries[d][i] : i \in DOMAIN Entries[d]} : d \in Dirs}
Files == Nodes \ Dirs

ASSUME TreeAssumption ==
  /\ Ext \in [Nodes -> STRING] /\ Hashed \subseteq Nodes /\ Special \subseteq Files
  /\ "/" \in Dirs /\ IsFiniteSet(Nodes)

\* A file system is a tree.  No directory has the root for an entry, one has
\* any other node, once, and no directory is below itself: going down, one
\* comes to the end of any set of nodes.
Holds(d, n) == \E i \in DOMAIN Entries[d] : Entries[d][i] = n

ASSUME EntriesAreATree ==
  /\ Entries \in [Dirs -> Seq(Nodes)]
  /\ \A d \in Dirs : ~Holds(d, "/")
  /\ \A n \in Nodes \ {"/"} : \E d \in Dirs : Holds(d, n)
  /\ \A d, e \in Dirs : \A i \in DOMAIN Entries[d], j \in DOMAIN Entries[e] :
       Entries[d][i] = Entries[e][j] => d = e /\ i = j
  /\ \A S \in SUBSET Nodes :
       S # {} => \E n \in S : n \in Dirs => \A m \in S : ~Holds(n, m)

Excludes == {"afindex", "git", "hg", "svn"}
MatchFile(n) == Ext[n] \in Excludes \/ n \in Hashed

\* What the scanner's function adds for the node n of a walk.
Adds(n) == {n} \ (Dirs \cup Special)

\* Mutant: the last entry of a directory is left out.
Visited_NotLast(kids, stop) ==
  1 .. (IF stop = {} THEN Len(kids) - 1 ELSE Min(stop))

\* The entries that a walk gets to: all, or those up to the first that stops.
Visited(kids, stop) == 1 .. (IF stop = {} THEN Len(kids) ELSE Min(stop))

\* walk: the files added below each node, and is an error returned?  An
\* excluded directory is skipped and an excluded file not added.  A directory
\* that cannot be read ends all of the walk with its error.  An entry that
\* Lstat fails for ends its directory, without an error.
WalkFrom(lf, rf) ==
  LET walk[n \in Nodes] ==
        LET kids == Entries[n]
            stop == {i \in DOMAIN kids : kids[i] \in lf \/ walk[kids[i]].err}
            got == {i \in Visited(kids, stop) : kids[i] \notin lf}
        IN IF MatchFile(n) THEN [added |-> {}, err |-> FALSE]
           ELSE IF n \notin Dirs THEN [added |-> Adds(n), err |-> FALSE]
           ELSE IF n \in rf THEN [added |-> {}, err |-> TRUE]
           ELSE [added |-> UNION {walk[kids[i]].added : i \in got},
                 err |-> stop # {} /\ kids[Min(stop)] \notin lf]
  IN walk

\* Walk: its root has to be there.
Walk(d, lf, rf) ==
  IF d \in lf THEN [added |-> {}, err |-> TRUE] ELSE WalkFrom(lf, rf)[d]

-----------------------------------------------------------------------------
\* What a walk should find, without recursion.  The nodes from f up to d are
\* the smallest set that has f and, of all its members but d, the parents.
Parent(n) == CHOOSE d \in Dirs : Holds(d, n)
UpTo ==
  [d \in Dirs |-> [f \in Nodes |->
     LET closed == {c \in SUBSET Nodes :
                      f \in c /\ \A n \in c \ {d, "/"} : Parent(n) \in c}
     IN {n \in Nodes : \A c \in closed : n \in c}]]

\* A walk of d should visit n: no node on the way is excluded.
Below(d, n) == d \in UpTo[d][n] /\ \A m \in UpTo[d][n] : ~MatchFile(m)

\* Lstat failed for n itself, or for one on the way to it or, in the same
\* directory, before one of those.
LostToLstat(d, n, lf) ==
  d \in lf \/ \E m \in UpTo[d][n] \ {d} :
                LET dir == Entries[Parent(m)] IN
                \E i, j \in DOMAIN dir : i <= j /\ dir[j] = m /\ dir[i] \in lf

\* Every walk, whatever fails, adds regular files that are not excluded and
\* no others; it misses one only to an Lstat that failed on the way or, with
\* an error, to a directory that could not be read.
WalksAreWhole ==
  \A d \in Dirs, lf \in SUBSET Nodes, rf \in SUBSET Dirs :
    LET o == Walk(d, lf, rf) IN
    \A f \in Files :
      IF Below(d, f) /\ f \notin Special
      THEN \/ f \in o.added
           \/ LostToLstat(d, f, lf)
           \/ o.err /\ \E r \in rf : Below(d, r)
      ELSE f \notin o.added
=============================================================================
