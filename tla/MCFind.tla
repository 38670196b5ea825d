------------------------------- MODULE MCFind -------------------------------
(***************************************************************************)
(* The find service and the finder it calls for local repos, for TLC.  A   *)
(* call of Find shares with the service only its context, which in Finder  *)
(* ends at any moment, so the initial state picks the one that runs.       *)
(***************************************************************************)
EXTENDS Finder, FindApi, TLC

CONSTANTS L, A, B, l1, l2, a1, b1

\* Two local repos and two remote ones; b1 is in no project.
RepoHosts == l1 :> L @@ l2 :> L @@ a1 :> A @@ b1 :> B
RepoMetas ==
  l1 :> [project |-> "p"] @@ l2 :> [project |-> "q"] @@
  a1 :> [project |-> "p"] @@ b1 :> << >>

Filter(text, not, compile, matches) ==
  [text |-> text, empty |-> FALSE, not |-> not, compiles |-> compile,
   matches |-> matches]

\* By key; by the exact project; and by "not p", with a filter that does not
\* compile for good measure.
ByKeys == [keys |-> {l1, l2, a1}, meta |-> << >>, regexp |-> FALSE]
ByProject ==
  [keys |-> {}, regexp |-> FALSE, meta |-> [project |-> Filter("p", FALSE, TRUE, {"p"})]]
NotInProject ==
  [keys |-> {}, regexp |-> TRUE,
   meta |-> [project |-> Filter("!p", TRUE, TRUE, {"p"}),
             lang |-> Filter("(", FALSE, FALSE, {})]]
AllQueries == {ByKeys, ByProject, NotInProject}

VARIABLE part
sumVars == <<part, findVars, vars>>

RunsFinder == part = "finder" /\ UNCHANGED <<part, vars>>
RunsApi == part = "api" /\ UNCHANGED <<part, findVars>>

\* The part that does not run is in one of its initial states.
SumInit ==
  /\ FindInit /\ Init
  /\ \/ part = "finder" /\ ~valid /\ ~early /\ repos = {} /\ query = ByKeys
     \/ part = "api" /\ ~compiles /\ store = {}

SumNext == (RunsFinder /\ FindNext) \/ (RunsApi /\ Next)

\* The fairness of both, each while it runs.
SumSpec ==
  /\ SumInit /\ [][SumNext]_sumVars
  /\ WF_sumVars(RunsFinder /\ FindMain) /\ WF_sumVars(RunsFinder /\ ShardPar)
  /\ WF_sumVars(RunsFinder /\ FindCtxDone)
  /\ \A j \in ShardJobs : WF_sumVars(RunsFinder /\ ShardJob(j))
  /\ WF_sumVars(RunsApi /\ Feeder) /\ WF_sumVars(RunsApi /\ Par)
  /\ WF_sumVars(RunsApi /\ Main) /\ WF_sumVars(RunsApi /\ Timeout)
  /\ \A j \in Jobs : WF_sumVars(RunsApi /\ JobGoesOn(j))

\* Find returns, whatever fails and whenever its context is done: see
\* FindReturns (afind/find.go:143-213).
FinderReturns == part = "finder" => FindReturns

\* A job that Find has started ends, though the result channel fills up and
\* the context is done: see JobsEnd (afind/find.go:199-205, 220-242).
FinderJobsEnd == part = "finder" => JobsEnd

\* doFind returns, whatever its backends do, unless it waits for a local Find
\* that does not return: see ServiceReturns
\* (afind/api/find.go:120-170).
FindServiceReturns == part = "api" => ServiceReturns
=============================================================================
