------------------------------ MODULE FindApi ------------------------------
(***************************************************************************)
(* The find service of one afindd (afind/api/find.go).  As in SearchApi a  *)
(* feeder queues jobs, par runs them and the handler merges their results; *)
(* but here every host, the local one too, is one job, enough matches      *)
(* cancel the context without leaving the loop, a backend that cannot be   *)
(* dialled sends no result, and an empty channel is an error.              *)
(*                                                                         *)
(* A job is the set of keys it asks about.  Of a result this module keeps  *)
(* how many names it has.                                                  *)
(***************************************************************************)
EXTENDS Integers, FiniteSets, Functions, RepoMeta

CONSTANTS
  Keys,        \* repo keys
  Hosts,       \* hosts in the repos' metadata
  HostOf,      \* the host of each key's repo
  MetaOf,      \* the rest of its metadata (see RepoMeta)
  LocalHost,   \* the host that isLocal accepts
  Queries,     \* RepoKeys, Meta and MetaRegexpMatch of the queries
  MaxMatches,  \* the query's MaxMatches, 0 for any
  MaxNames,    \* bound on the names in one result
  QueryCap,    \* room in chQuery (100 in the code)
  ResultCap,   \* room in chResult (10 in the code)
  Concurrency  \* Config.MaxSearchC

ASSUME HostsAreHosts == HostOf \in [Keys -> Hosts] /\ LocalHost \in Hosts
ASSUME KeysAreFinite == IsFiniteSet(Keys) /\ IsFiniteSet(Hosts)
ASSUME QueriesAreOfKeys == \A q \in Queries : q.keys \subseteq Keys
ASSUME LimitsAreNat == MaxMatches \in Nat /\ MaxNames \in Nat
ASSUME CapsAreNat == /\ QueryCap \in Nat \ {0} /\ ResultCap \in Nat \ {0}
                     /\ Concurrency \in Nat \ {0}

VARIABLES
  query,     \* the query
  repos,     \* keys whose repo is OK
  valid,     \* is the query's expression long enough?
  early,     \* does par return before its functions do, when the context is
             \* done?  (External library: either, for good.)
  ctx,       \* the context: "live" or "done"
  pc,        \* where doFind is
  feeder,    \* where the feeder is
  todo,      \* keys it has still to look at
  picked,    \* keys it has picked, and not yet put into a job
  countBe,   \* backend requests queued
  chQuery,   \* jobs in the channel
  job,       \* where each job is, and the names it found
  chResult,  \* jobs whose result is in the result channel
  closed,    \* is chResult closed?
  resp,      \* results merged (count), NumMatches, an error?
  died       \* the end of the process: by a "send" on a closed channel, by
             \* the race on the "meta" map, or "no"

\* History variables.
VARIABLES
  merged,    \* jobs whose result was merged
  undialled, \* jobs whose backend could not be dialled
  late       \* did the timeout pass before doFind was done?

vars == <<query, repos, valid, early, ctx, pc, feeder, todo, picked, countBe,
          chQuery, job, chResult, closed, resp, died, merged, undialled, late>>

\* Keys of one host.
Jobs == {j \in (SUBSET Keys) \ {{}} : \A k, l \in j : HostOf[k] = HostOf[l]}
JobHost(j) == HostOf[CHOOSE k \in j : TRUE]
Local(j) == JobHost(j) = LocalHost

TypeOK ==
  /\ query \in Queries
  /\ repos \subseteq Keys
  /\ valid \in BOOLEAN /\ early \in BOOLEAN
  /\ ctx \in {"live", "done"}
  /\ pc \in {"new", "merge", "done"}
  /\ feeder \in {"pick", "hosts", "end"}
  /\ todo \subseteq Keys /\ picked \subseteq Keys
  /\ countBe \in 0 .. Cardinality(Hosts)
  /\ chQuery \subseteq Jobs /\ Cardinality(chQuery) <= QueryCap
  /\ job \in [Jobs -> [at : {"none", "run", "check", "send", "end"}, num : 0 .. MaxNames]]
  /\ chResult \subseteq Jobs /\ Cardinality(chResult) <= ResultCap
  /\ closed \in BOOLEAN /\ died \in {"no", "send", "meta"} /\ late \in BOOLEAN
  /\ resp \in [count : Nat, num : Nat, err : BOOLEAN]
  /\ merged \subseteq Jobs /\ undialled \subseteq Jobs

Init ==
  /\ query \in Queries
  /\ repos \in SUBSET Keys
  /\ valid \in BOOLEAN /\ early \in BOOLEAN
  /\ ctx = "live"
  /\ pc = "new"
  /\ feeder = "pick"
  /\ todo = IF query.keys = {} THEN Keys ELSE query.keys
  /\ picked = {}
  /\ countBe = 0
  /\ chQuery = {}
  /\ job = [j \in Jobs |-> [at |-> "none", num |-> 0]]
  /\ chResult = {} /\ closed = FALSE
  /\ resp = [count |-> 0, num |-> 0, err |-> FALSE]
  /\ died = "no"
  /\ merged = {} /\ undialled = {} /\ late = FALSE

Up == died = "no"
Running == {j \in Jobs : job[j].at \in {"run", "check", "send"}}
EnoughResults(n) == MaxMatches > 0 /\ n >= MaxMatches

feed == <<feeder, todo, picked, countBe>>
input == <<query, repos, valid, early>>
main == <<pc, resp, merged>>
-----------------------------------------------------------------------------
\* getReposForKeys, or ReposMatchingMeta within ForEach: repos that are not OK
\* are passed over.
PickKey(k) ==
  /\ Up /\ feeder = "pick"
  /\ k \in todo
  /\ todo' = todo \ {k}
  /\ picked' = IF k \in repos /\ AsksFor(query, k, MetaOf[k])
                 THEN picked \cup {k} ELSE picked
  /\ UNCHANGED <<input, ctx, feeder, countBe, chQuery, job, chResult,
                 closed, main, died, undialled, late>>

PickEnds ==
  /\ Up /\ feeder = "pick"
  /\ todo = {}
  /\ feeder' = "hosts"
  /\ UNCHANGED <<input, ctx, todo, picked, countBe, chQuery, job,
                 chResult, closed, main, died, undialled, late>>

\* maxBe is the query's MaxMatches.
AtLimit == MaxMatches > 0 /\ countBe >= MaxMatches
KeysOf(h) == {k \in picked : HostOf[k] = h}

\* One job for the keys of a host; remote ones are counted.
QueueHost(h) ==
  /\ Up /\ feeder = "hosts" /\ ~AtLimit
  /\ KeysOf(h) # {}
  /\ Cardinality(chQuery) < QueryCap
  /\ chQuery' = chQuery \cup {KeysOf(h)}
  /\ picked' = picked \ KeysOf(h)
  /\ countBe' = IF h = LocalHost THEN countBe ELSE countBe + 1
  /\ UNCHANGED <<input, ctx, feeder, todo, job, chResult, closed,
                 main, died, undialled, late>>

\* Every query of a request has the same Meta map.  SetHost writes to it for
\* the next host, while the client of a job that has begun may be encoding
\* it: a concurrent access that the runtime, if it notices, ends the process
\* for.
MetaRace ==
  /\ Up /\ feeder = "hosts" /\ ~AtLimit /\ picked # {}
  /\ \E j \in Running : ~Local(j) /\ job[j].at = "run"
  /\ died' = "meta"
  /\ UNCHANGED <<input, ctx, feed, chQuery, job, chResult, closed, main,
                 undialled, late>>

\* No host is left, or the limit is reached; close(chQuery).
FeedEnds ==
  /\ Up /\ feeder = "hosts"
  /\ picked = {} \/ AtLimit
  /\ feeder' = "end"
  /\ UNCHANGED <<input, ctx, todo, picked, countBe, chQuery, job,
                 chResult, closed, main, died, undialled, late>>

-----------------------------------------------------------------------------
\* par takes a job, and its function starts.
JobStarts(j) ==
  /\ Up /\ pc # "new" /\ valid /\ ~closed
  /\ j \in chQuery
  /\ Cardinality(Running) < Concurrency
  /\ chQuery' = chQuery \ {j}
  /\ job' = [job EXCEPT ![j].at = "run"]
  /\ UNCHANGED <<input, ctx, feed, chResult, closed, main, died, undialled, late>>

\* localFind's call of the finder returns.
LocalReturns(j, n) ==
  /\ Up /\ job[j].at = "run" /\ Local(j)
  /\ job' = [job EXCEPT ![j] = [at |-> "check", num |-> n]]
  /\ UNCHANGED <<input, ctx, feed, chQuery, chResult, closed, main,
                 died, undialled, late>>

\* remoteFind's call of the backend returns; a failed call has no names.
RemoteReturns(j, n) ==
  /\ Up /\ job[j].at = "run" /\ ~Local(j)
  /\ job' = [job EXCEPT ![j] = [at |-> "check", num |-> n]]
  /\ UNCHANGED <<input, ctx, feed, chQuery, chResult, closed, main,
                 died, undialled, late>>

\* The backend cannot be dialled: remoteFind gives par the error, and the
\* result that had it too is dropped.
DialFails(j) ==
  /\ Up /\ job[j].at = "run" /\ ~Local(j)
  /\ job' = [job EXCEPT ![j].at = "end"]
  /\ undialled' = undialled \cup {j}
  /\ UNCHANGED <<input, ctx, feed, chQuery, chResult, closed, main, died, late>>

\* The context is done, or the default case sends.
JobChecks(j) ==
  /\ Up /\ job[j].at = "check"
  /\ job' = [job EXCEPT ![j].at = IF ctx = "done" THEN "end" ELSE "send"]
  /\ UNCHANGED <<input, ctx, feed, chQuery, chResult, closed, main,
                 died, undialled, late>>

\* results <- fr: waits while the channel is full.
JobSends(j) ==
  /\ Up /\ job[j].at = "send"
  /\ ~closed /\ Cardinality(chResult) < ResultCap
  /\ chResult' = chResult \cup {j}
  /\ job' = [job EXCEPT ![j].at = "end"]
  /\ UNCHANGED <<input, ctx, feed, chQuery, closed, main, died, undialled, late>>

SendOnClosed(j) ==
  /\ Up /\ job[j].at = "send"
  /\ closed
  /\ died' = "send"
  /\ UNCHANGED <<input, ctx, feed, chQuery, job, chResult, closed, main,
                 undialled, late>>

\* Mutant: par is done when no job is running.
ParDone_Idle == Running = {}

\* Mutant: a backend that cannot be dialled keeps par waiting.
ParDone_NeedsAll ==
  /\ (feeder = "end" /\ chQuery = {}) \/ ctx = "done"
  /\ Running = {} /\ undialled = {}

\* DoWithContext returns after its jobs, or with a done context or, if it
\* stops at an error, after one; a par that returns early does not wait for
\* the jobs that run when the context is done.
ParDone ==
  /\ (feeder = "end" /\ chQuery = {}) \/ ctx = "done" \/ undialled # {}
  /\ Running = {} \/ (early /\ ctx = "done")

\* It returns, and the goroutine closes chResult.
ParReturns ==
  /\ Up /\ pc # "new" /\ valid /\ ~closed
  /\ ParDone
  /\ closed' = TRUE
  /\ UNCHANGED <<input, ctx, feed, chQuery, job, chResult, main, died,
                 undialled, late>>

-----------------------------------------------------------------------------
\* Normalize refuses the query: nobody takes jobs.  The deferred cancel runs.
Reject ==
  /\ Up /\ pc = "new"
  /\ ~valid
  /\ resp' = [resp EXCEPT !.err = TRUE]
  /\ ctx' = "done"
  /\ pc' = "done"
  /\ UNCHANGED <<input, feed, chQuery, job, chResult, closed, merged,
                 died, undialled, late>>

\* par is started.
StartPar ==
  /\ Up /\ pc = "new"
  /\ valid
  /\ pc' = "merge"
  /\ UNCHANGED <<input, ctx, feed, chQuery, job, chResult, closed, resp,
                 merged, died, undialled, late>>

\* A result is merged; with enough matches the context is cancelled, and the
\* loop goes on.
Merge(j) ==
  /\ Up /\ pc = "merge"
  /\ j \in chResult
  /\ chResult' = chResult \ {j}
  /\ merged' = merged \cup {j}
  /\ resp' = [resp EXCEPT !.count = @ + 1, !.num = @ + job[j].num]
  /\ ctx' = IF EnoughResults(resp'.num) THEN "done" ELSE ctx
  /\ UNCHANGED <<input, pc, feed, chQuery, job, closed, died, undialled, late>>

\* chResult is closed and empty: without a result it is an error.  The
\* deferred cancel runs.
Return ==
  /\ Up /\ pc = "merge"
  /\ closed /\ chResult = {}
  /\ resp' = [resp EXCEPT !.err = resp.count < 1]
  /\ ctx' = "done"
  /\ pc' = "done"
  /\ UNCHANGED <<input, feed, chQuery, job, chResult, closed, merged,
                 died, undialled, late>>

\* The query's timeout passes.
Timeout ==
  /\ Up /\ ctx = "live"
  /\ ctx' = "done"
  /\ late' = TRUE
  /\ UNCHANGED <<input, feed, chQuery, job, chResult, closed, main,
                 died, undialled>>

Feeder ==
  \/ PickEnds \/ FeedEnds
  \/ \E k \in Keys : PickKey(k)
  \/ \E h \in Hosts : QueueHost(h)

Par == ParReturns \/ \E j \in chQuery : JobStarts(j)

LocalFindReturns(j) == \E n \in 0 .. MaxNames : LocalReturns(j, n)

JobGoesOn(j) ==
  \/ \E n \in 0 .. MaxNames : RemoteReturns(j, n)
  \/ DialFails(j) \/ JobChecks(j) \/ JobSends(j) \/ SendOnClosed(j)

Job(j) == LocalFindReturns(j) \/ JobGoesOn(j)

Main == Reject \/ StartPar \/ Return \/ \E j \in chResult : Merge(j)

Next == Feeder \/ MetaRace \/ Par \/ Main \/ Timeout \/ \E j \in Running : Job(j)

Spec == Init /\ [][Next]_vars

\* Goroutines that can run do run, and the client of a backend returns; the
\* finder's Find may not (see Finder).  The context is done in the end.
Fairness ==
  /\ WF_vars(Feeder) /\ WF_vars(Par) /\ WF_vars(Main) /\ WF_vars(Timeout)
  /\ \A j \in Jobs : WF_vars(JobGoesOn(j))

FairSpec == Spec /\ Fairness

-----------------------------------------------------------------------------
\* PROPERTIES

\* doFind returned what it could get: in time, with every backend dialled and
\* fewer matches than would be enough, it has merged a result for every repo
\* the query asks for, by key or by metadata, but for hosts beyond the limit,
\* and counted its names.  An answer is an error only without a result, and
\* then always.
FindComplete ==
  (pc = "done" /\ valid) =>
    /\ resp.err <=> merged = {}
    /\ resp.num = SumFunctionOnSet([j \in Jobs |-> job[j].num], merged)
    /\ (~late /\ undialled = {} /\ ~EnoughResults(resp.num)) =>
         UNION merged = {k \in repos : AsksFor(query, k, MetaOf[k])} \ picked

\* A local Find is running.
LocalRuns == \E j \in Jobs : Local(j) /\ job[j].at = "run"

\* A find returns, whatever its backends do, if par does not wait for its
\* jobs once the context is done, or the local Find does not hang; a send on
\* the closed channel, which ends the process, takes a par that did not wait.
ServiceReturns ==
  (early \/ []<>~LocalRuns) =>
    ((pc = "new") ~> \/ pc = "done"
                     \/ died = "meta"
                     \/ died = "send" /\ early)
=============================================================================
