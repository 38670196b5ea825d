------------------------------ MODULE MCSearch ------------------------------
(***************************************************************************)
(* Searcher and the GrepReader of one of its files for TLC.  A grep that   *)
(* has started shares no state with the search but the file's result, so   *)
(* the initial state picks the one that runs.                              *)
(***************************************************************************)
EXTENDS Searcher, GrepReader

VARIABLE part
searchVars == <<part, vars, grepVars>>

RunsSearch == part = "search" /\ UNCHANGED <<part, grepVars>>
RunsGrep == part = "grep" /\ UNCHANGED <<part, vars>>

\* The part that does not run is in one of its initial states.
SumInit ==
  \/ /\ part = "search" /\ Init /\ GrepInit
     /\ file = << >> /\ context = [pre |-> FALSE, post |-> FALSE]
  \/ /\ part = "grep" /\ Init /\ GrepInit
     /\ cfg /\ store = NoObj /\ \A o \in Objs : state[o] = "unused"
SumNext == (RunsSearch /\ Next) \/ (RunsGrep /\ GrepNext)

\* The goroutines of a search run, and a reader does not stop between steps.
SumSpec ==
  /\ SumInit /\ [][SumNext]_searchVars
  /\ \A a \in Searches :
       /\ WF_searchVars(RunsSearch /\ Main(a))
       /\ \A s \in Shards : WF_searchVars(RunsSearch /\ Shard(a, s))
  /\ WF_searchVars(RunsGrep /\ GrepNext)

AllBytes == {"m", "n", "x"}

\* Once a reader runs it comes to its end, if the file's lines fit the
\* buffer: see ReaderEnds (afind/grepper.go:140-240).
GrepEnds == part = "grep" => ReaderEnds
=============================================================================
