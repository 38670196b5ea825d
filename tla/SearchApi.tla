----------------------------- MODULE SearchApi -----------------------------
(***************************************************************************)
(* The search service of one afindd (afind/api/search.go): doSearch starts *)
(* a feeder goroutine that picks the repos to search and queues one job    *)
(* per local repo and one per remote host, par runs the jobs, and doSearch *)
(* merges results until it has enough of them or there are no more.  Then  *)
(* it brings its store up to date with the repos named by the results.     *)
(* Users delete repos, and indexers add them, at any moment.               *)
(*                                                                         *)
(* A job is the set of keys it searches.  Of a result this module keeps,   *)
(* per key, the state of the repo in it, the matches, and the labels of its*)
(* Errors: a repo's key, or the host of a backend that failed.             *)
(***************************************************************************)
EXTENDS Integers, FiniteSets, Functions

CONSTANTS
  Keys,              \* repo keys
  Hosts,             \* hosts in the repos' metadata
  HostOf,            \* the host of each key's repo
  LocalHost,         \* the host that isLocal accepts
  NoHost,            \* not a host
  QueryCap,          \* room in chQuery (100 in the code)
  ResultCap,         \* room in chResult (10 in the code)
  Concurrency,       \* Config.MaxSearchC
  Setups             \* the queries and their surroundings, one of which is
                     \* drawn at the start:
                     \*   keys        the query's RepoKeys
                     \*   maxBe       Config.MaxSearchReqBe: backend
                     \*               requests, 0 for any
                     \*   maxMatches  the query's MaxMatches, 0 for any
                     \*   says        what a backend may say of a repo
                     \*   faults      may a search report an error of a
                     \*               repo that is good all the same?
                     \*   changes     how many repos others may change
                     \*   early       does par's DoWithContext return before
                     \*               its functions do, when the context is
                     \*               done? (external library)

ASSUME HostsAreHosts ==
  /\ HostOf \in [Keys -> Hosts]
  /\ LocalHost \in Hosts /\ NoHost \notin Hosts
ASSUME KeysAreFinite == IsFiniteSet(Keys) /\ IsFiniteSet(Hosts)
ASSUME SetupsAreSetups ==
  Setups \subseteq [keys : SUBSET Keys, maxBe : Nat, maxMatches : Nat,
                    says : SUBSET {"none", "OK", "INDEXING", "ERROR"},
                    faults : BOOLEAN, changes : Nat, early : BOOLEAN]
ASSUME CapsAreNat == /\ QueryCap \in Nat \ {0} /\ ResultCap \in Nat \ {0}
                     /\ Concurrency \in Nat \ {0}

VARIABLES
  conf,      \* the setup drawn
  cfg,       \* Config.DeleteRepoOnError
  repos,     \* the store: the state of the repo under each key, or "none"
  valid,     \* is the query's expression long enough?
  ctx,       \* the context: "live" or "done"
  pc,        \* where doSearch is
  feeder,    \* where the feeder is
  todo,      \* keys it has still to look at
  picked,    \* keys it has picked, and not yet put into a job
  cur,       \* the local host's keys still to be queued
  countBe,   \* backend requests queued
  metaHost,  \* the host in the Meta map that all queries share
  chQuery,   \* jobs in the channel
  job,       \* where each job is, and its result
  chResult,  \* jobs whose result is in the result channel
  closed,    \* is chResult closed?
  update,    \* updateRepos: states by key, "none" if not there
  resp,      \* NumMatches, an error for the caller?, the labels in Errors
  died       \* the end of the process: by a "send" on a closed channel, by
             \* the race on the "meta" map, or "no"

\* History variables.
VARIABLES
  wanted,    \* every key the feeder picked
  merged,    \* jobs whose result was merged
  others     \* keys whose repo others have changed during the search

vars == <<conf, cfg, repos, valid, ctx, pc, feeder, todo, picked, cur, countBe,
          metaHost, chQuery, job, chResult, closed, update, resp, died,
          wanted, merged, others>>

States == {"none", "OK", "INDEXING", "ERROR"}

\* One local key, or keys of one other host.
Jobs ==
  {j \in (SUBSET Keys) \ {{}} :
     /\ \A k, l \in j : HostOf[k] = HostOf[l]
     /\ \A k, l \in j : HostOf[k] = LocalHost => k = l}

\* The host a job goes to.
JobHost(j) == HostOf[CHOOSE k \in j : TRUE]
Local(j) == JobHost(j) = LocalHost

\* The result of a job: its Repos, its matches, and the labels in its Errors.
Labels == Keys \cup Hosts \cup {NoHost}
Result == [repos : [Keys -> States], num : 0 .. 1, errs : SUBSET Labels]
NoRepos == [k \in Keys |-> "none"]
NoResult == [repos |-> NoRepos, num |-> 0, errs |-> {}]

TypeOK ==
  /\ conf \in Setups /\ cfg \in BOOLEAN /\ valid \in BOOLEAN
  /\ repos \in [Keys -> States]
  /\ ctx \in {"live", "done"}
  /\ pc \in {"new", "merge", "update", "done"}
  /\ feeder \in {"pick", "hosts", "local", "end"}
  /\ todo \subseteq Keys /\ picked \subseteq Keys /\ cur \subseteq Keys
  /\ countBe \in 0 .. Cardinality(Hosts)
  /\ metaHost \in Hosts \cup {NoHost}
  /\ chQuery \subseteq Jobs /\ Cardinality(chQuery) <= QueryCap
  /\ job \in [Jobs -> [at : {"none", "run", "check", "send", "end"}, res : Result]]
  /\ chResult \subseteq Jobs /\ Cardinality(chResult) <= ResultCap
  /\ closed \in BOOLEAN /\ died \in {"no", "send", "meta"}
  /\ update \in [Keys -> States]
  /\ resp \in [num : Nat, err : BOOLEAN, errors : SUBSET Labels]
  /\ wanted \subseteq Keys /\ merged \subseteq Jobs /\ others \subseteq Keys

Init ==
  /\ conf \in Setups /\ cfg \in BOOLEAN /\ valid \in BOOLEAN
  /\ repos \in [Keys -> {"none", "OK"}]
  /\ \A k \in Keys \ conf.keys : repos[k] = "none"
  /\ ctx = "live"
  /\ pc = "new"
  /\ feeder = "pick"
  /\ todo = conf.keys /\ picked = {} /\ cur = {}
  /\ countBe = 0
  /\ metaHost = NoHost
  /\ chQuery = {}
  /\ job = [j \in Jobs |-> [at |-> "none", res |-> NoResult]]
  /\ chResult = {} /\ closed = FALSE
  /\ update = NoRepos
  /\ resp = [num |-> 0, err |-> FALSE, errors |-> {}]
  /\ died = "no"
  /\ wanted = {} /\ merged = {} /\ others = {}

Up == died = "no"
Running == {j \in Jobs : job[j].at \in {"run", "check", "send"}}
Enough(n) == conf.maxMatches > 0 /\ n >= conf.maxMatches

input == <<conf, cfg, valid>>
feed == <<feeder, todo, picked, cur, countBe, metaHost, wanted>>
main == <<pc, update, resp, merged>>
-----------------------------------------------------------------------------
\* genGetReqpos: repos that are not OK are passed over.
PickKey(k) ==
  /\ Up /\ feeder = "pick"
  /\ k \in todo
  /\ todo' = todo \ {k}
  /\ picked' = IF repos[k] = "OK" THEN picked \cup {k} ELSE picked
  /\ wanted' = IF repos[k] = "OK" THEN wanted \cup {k} ELSE wanted
  /\ UNCHANGED <<input, repos, ctx, feeder, cur, countBe, metaHost, chQuery,
                 job, chResult, closed, main, died, others>>

PickEnds ==
  /\ Up /\ feeder = "pick"
  /\ todo = {}
  /\ feeder' = "hosts"
  /\ UNCHANGED <<input, repos, ctx, todo, picked, cur, countBe, metaHost, wanted,
                 chQuery, job, chResult, closed, main, died, others>>

\* Mutant: one backend too many is asked.
AtLimit_OffByOne == conf.maxBe > 0 /\ countBe > conf.maxBe

AtLimit == conf.maxBe > 0 /\ countBe >= conf.maxBe
KeysOf(h) == {k \in picked : HostOf[k] = h}

\* The local host is next: its keys become jobs of their own.
TakeLocal ==
  /\ Up /\ feeder = "hosts" /\ ~AtLimit
  /\ KeysOf(LocalHost) # {}
  /\ metaHost' = LocalHost
  /\ cur' = KeysOf(LocalHost)
  /\ picked' = picked \ KeysOf(LocalHost)
  /\ feeder' = "local"
  /\ UNCHANGED <<input, repos, ctx, todo, countBe, wanted, chQuery, job,
                 chResult, closed, main, died, others>>

QueueLocal(k) ==
  /\ Up /\ feeder = "local"
  /\ k \in cur
  /\ Cardinality(chQuery) < QueryCap
  /\ chQuery' = chQuery \cup {{k}}
  /\ cur' = cur \ {k}
  /\ feeder' = IF cur' = {} THEN "hosts" ELSE "local"
  /\ UNCHANGED <<input, repos, ctx, todo, picked, countBe, metaHost, wanted, job,
                 chResult, closed, main, died, others>>

\* A remote host is next: one job for all its keys.
QueueRemote(h) ==
  /\ Up /\ feeder = "hosts" /\ ~AtLimit
  /\ h # LocalHost /\ KeysOf(h) # {}
  /\ metaHost' = h
  /\ Cardinality(chQuery) < QueryCap
  /\ chQuery' = chQuery \cup {KeysOf(h)}
  /\ picked' = picked \ KeysOf(h)
  /\ countBe' = countBe + 1
  /\ UNCHANGED <<input, repos, ctx, feeder, todo, cur, wanted, job, chResult,
                 closed, main, died, others>>

\* The write of the host, for the next of them, to the Meta map that all
\* queries share, while the client of a job that runs may be encoding it: a
\* concurrent access that the runtime, if it notices, ends the process for.
MetaRace ==
  /\ Up /\ feeder = "hosts" /\ ~AtLimit /\ picked # {}
  /\ \E j \in Running : ~Local(j) /\ job[j].at = "run"
  /\ died' = "meta"
  /\ UNCHANGED <<input, repos, ctx, feed, chQuery, job, chResult, closed, main, others>>

\* No host is left, or the limit is reached; close(chQuery).
FeedEnds ==
  /\ Up /\ feeder = "hosts"
  /\ picked = {} \/ AtLimit
  /\ feeder' = "end"
  /\ UNCHANGED <<input, repos, ctx, todo, picked, cur, countBe, metaHost, wanted,
                 chQuery, job, chResult, closed, main, died, others>>

-----------------------------------------------------------------------------
\* par takes a job, and its function starts.
JobStarts(j) ==
  /\ Up /\ pc # "new" /\ valid /\ ~closed
  /\ j \in chQuery
  /\ Cardinality(Running) < Concurrency
  /\ chQuery' = chQuery \ {j}
  /\ job' = [job EXCEPT ![j].at = "run"]
  /\ UNCHANGED <<input, repos, ctx, feed, chResult, closed, main, died, others>>

\* localSearch's call of Search returns: what it says of the repo, its errors,
\* and what it did to the store (see Searcher).  A repo that is gone or bad is
\* an error; one being indexed is none; in a good one a shard may fail.
LocalReturns(j, k, says, n, errs) ==
  /\ Up /\ job[j].at = "run" /\ Local(j)
  /\ k \in j
  /\ says = repos[k] \/ (says = "ERROR" /\ repos[k] = "OK")
  /\ repos[k] # "OK" => n = 0
  /\ says \in {"none", "ERROR"} => errs = {k}
  /\ says = "INDEXING" \/ (says = "OK" /\ ~conf.faults) => errs = {}
  /\ job' = [job EXCEPT ![j] = [at |-> "check",
                res |-> [repos |-> [NoRepos EXCEPT ![k] = says], num |-> n, errs |-> errs]]]
  /\ repos' = [repos EXCEPT ![k] = IF says = "ERROR" /\ cfg THEN "none" ELSE says]
  /\ UNCHANGED <<input, ctx, feed, chQuery, chResult, closed, main, died, others>>

\* What a backend may say of its repos in j: nothing of one it has not, or
\* not ready, a few matches in all, and an error of each bad one.
Answers(j) ==
  {r \in {[repos |-> [k \in Keys |-> IF k \in j THEN s[k] ELSE "none"], num |-> n, errs |-> e] :
             s \in [j -> conf.says], n \in 0 .. 1, e \in SUBSET j} :
     /\ {k \in j : r.repos[k] = "ERROR"} \subseteq r.errs
     /\ conf.faults \/ \A k \in r.errs : r.repos[k] = "ERROR"}

\* remoteSearch's call returns.
RemoteReturns(j, res) ==
  /\ Up /\ job[j].at = "run" /\ ~Local(j)
  /\ res \in Answers(j)
  /\ job' = [job EXCEPT ![j] = [at |-> "check", res |-> res]]
  /\ UNCHANGED <<input, repos, ctx, feed, chQuery, chResult, closed, main, died, others>>

\* The backend is not reached, fails, or is too late.  The error goes under
\* the host that the shared Meta holds by now.
RemoteFails(j) ==
  /\ Up /\ job[j].at = "run" /\ ~Local(j)
  /\ job' = [job EXCEPT ![j] = [at |-> "check", res |-> [NoResult EXCEPT !.errs = {metaHost}]]]
  /\ UNCHANGED <<input, repos, ctx, feed, chQuery, chResult, closed, main, died, others>>

\* The context is done, or the default case sends.
JobChecks(j) ==
  /\ Up /\ job[j].at = "check"
  /\ job' = [job EXCEPT ![j].at = IF ctx = "done" THEN "end" ELSE "send"]
  /\ UNCHANGED <<input, repos, ctx, feed, chQuery, chResult, closed, main, died, others>>

\* results <- sr: waits while the channel is full.
JobSends(j) ==
  /\ Up /\ job[j].at = "send"
  /\ ~closed /\ Cardinality(chResult) < ResultCap
  /\ chResult' = chResult \cup {j}
  /\ job' = [job EXCEPT ![j].at = "end"]
  /\ UNCHANGED <<input, repos, ctx, feed, chQuery, closed, main, died, others>>

SendOnClosed(j) ==
  /\ Up /\ job[j].at = "send"
  /\ closed
  /\ died' = "send"
  /\ UNCHANGED <<input, repos, ctx, feed, chQuery, job, chResult, closed, main, others>>

\* Mutant: par is done when no job is running.
ParDone_Idle == Running = {}

\* Mutant: par is done only after a search in time.
ParDone_InTime == feeder = "end" /\ chQuery = {} /\ ctx = "live" /\ Running = {}

\* DoWithContext returns after its jobs or with a done context.
ParDone ==
  /\ (feeder = "end" /\ chQuery = {}) \/ ctx = "done"
  /\ Running = {} \/ (conf.early /\ ctx = "done")

\* It returns, and the goroutine closes chResult.
ParReturns ==
  /\ Up /\ pc # "new" /\ valid /\ ~closed
  /\ ParDone
  /\ closed' = TRUE
  /\ UNCHANGED <<input, repos, ctx, feed, chQuery, job, chResult, main, died, others>>

-----------------------------------------------------------------------------
\* Normalize refuses the query: nobody takes jobs.
Reject ==
  /\ Up /\ pc = "new"
  /\ ~valid
  /\ resp' = [resp EXCEPT !.err = TRUE]
  /\ pc' = "update"
  /\ UNCHANGED <<input, repos, ctx, feed, chQuery, job, chResult, closed, update,
                 died, merged, others>>

\* par is started.
StartPar ==
  /\ Up /\ pc = "new"
  /\ valid
  /\ pc' = "merge"
  /\ UNCHANGED <<input, repos, ctx, feed, chQuery, job, chResult, closed, update,
                 resp, died, merged, others>>

\* A result is merged: updateRepos takes over its repos, but for those that
\* it has as bad ones.  With enough matches the context is cancelled and the
\* loop left.
Merge(j) ==
  LET res == job[j].res
      num == resp.num + res.num
  IN /\ Up /\ pc = "merge"
     /\ j \in chResult
     /\ chResult' = chResult \ {j}
     /\ merged' = merged \cup {j}
     /\ update' = [k \in Keys |->
                     IF k \in j /\ res.repos[k] # "none" /\ update[k] # "ERROR"
                       THEN res.repos[k] ELSE update[k]]
     /\ resp' = [resp EXCEPT !.num = num, !.errors = @ \cup res.errs]
     /\ IF Enough(num) THEN ctx' = "done" /\ pc' = "update"
                       ELSE UNCHANGED <<ctx, pc>>
     /\ UNCHANGED <<input, repos, feed, chQuery, job, closed, died, others>>

\* chResult is closed and empty.
MergeEnds ==
  /\ Up /\ pc = "merge"
  /\ closed /\ chResult = {}
  /\ pc' = "update"
  /\ UNCHANGED <<input, repos, ctx, feed, chQuery, job, chResult, closed, update,
                 resp, died, merged, others>>

\* Mutant: only good repos are taken care of.
Updated_KeepsBad(k) == IF update[k] = "OK" THEN "OK" ELSE repos[k]

\* A repo of the results: a good one is stored, any other is deleted if so
\* configured, whatever is under its key by now.
Updated(k) == IF update[k] = "OK" THEN "OK" ELSE IF cfg THEN "none" ELSE repos[k]

UpdateRepo(k) ==
  /\ Up /\ pc = "update"
  /\ update[k] # "none"
  /\ repos' = [repos EXCEPT ![k] = Updated(k)]
  /\ update' = [update EXCEPT ![k] = "none"]
  /\ UNCHANGED <<input, ctx, feed, chQuery, job, chResult, closed, pc, resp,
                 died, merged, others>>

\* doSearch returns, and its deferred cancel runs.
Return ==
  /\ Up /\ pc = "update"
  /\ update = NoRepos
  /\ ctx' = "done"
  /\ pc' = "done"
  /\ UNCHANGED <<input, repos, feed, chQuery, job, chResult, closed, update,
                 resp, died, merged, others>>

-----------------------------------------------------------------------------
\* The query's timeout passes.
Timeout ==
  /\ Up /\ ctx = "live"
  /\ ctx' = "done"
  /\ UNCHANGED <<input, repos, feed, chQuery, job, chResult, closed, main, died, others>>

\* The bound on what others do to the store, of repos the search has picked:
\* what they do to one before that is an initial state.
MayChange(k) == k \in wanted /\ Cardinality(others \cup {k}) <= conf.changes

\* A user deletes a repo.
UserDelete(k) ==
  /\ Up /\ MayChange(k) /\ repos[k] # "none"
  /\ repos' = [repos EXCEPT ![k] = "none"]
  /\ others' = others \cup {k}
  /\ UNCHANGED <<input, ctx, feed, chQuery, job, chResult, closed, main, died>>

\* An index request for k begins; its marker is stored.
IndexStarts(k) ==
  /\ Up /\ MayChange(k) /\ repos[k] = "none"
  /\ repos' = [repos EXCEPT ![k] = "INDEXING"]
  /\ others' = others \cup {k}
  /\ UNCHANGED <<input, ctx, feed, chQuery, job, chResult, closed, main, died>>

Feeder ==
  \/ PickEnds \/ TakeLocal \/ FeedEnds
  \/ \E k \in Keys : PickKey(k) \/ QueueLocal(k)
  \/ \E h \in Hosts : QueueRemote(h)

Par == ParReturns \/ \E j \in chQuery : JobStarts(j)

JobReturns(j) ==
  \/ \E k \in j, says \in States, n \in 0 .. 1, errs \in SUBSET j :
       LocalReturns(j, k, says, n, errs)
  \/ \E res \in Answers(j) : RemoteReturns(j, res)
  \/ RemoteFails(j)

JobGoesOn(j) == JobChecks(j) \/ JobSends(j) \/ SendOnClosed(j)

Main ==
  \/ Reject \/ StartPar \/ MergeEnds \/ Return
  \/ \E j \in chResult : Merge(j)
  \/ \E k \in Keys : UpdateRepo(k)

Next ==
  \/ Feeder \/ MetaRace \/ Par \/ Main \/ Timeout
  \/ \E j \in Running : JobReturns(j) \/ JobGoesOn(j)
  \/ \E k \in Keys : UserDelete(k) \/ IndexStarts(k)

Spec == Init /\ [][Next]_vars

\* Goroutines that can run do run.  The searcher's Search returns if its
\* context is not done (see Searcher); the client of a backend returns when
\* it is, and the context is done in the end.
Fairness ==
  /\ WF_vars(Feeder) /\ WF_vars(Par) /\ WF_vars(Main) /\ WF_vars(Timeout)
  /\ \A j \in Jobs : /\ WF_vars((ctx = "live" \/ ~Local(j)) /\ JobReturns(j))
                     /\ WF_vars(JobGoesOn(j))

FairSpec == Spec /\ Fairness

-----------------------------------------------------------------------------
\* PROPERTIES

\* The keys of the jobs merged are the keys picked, but for those beyond the
\* backend limit, and their matches and errors are all in the response, for
\* every bad repo one under its key: when the channel has closed on a live
\* context, nothing is missing.
MergedComplete ==
  (pc = "update" /\ valid /\ ctx = "live") =>
    /\ UNION merged = wanted \ picked
    /\ conf.maxBe = 0 => picked = {}
    /\ resp.num = SumFunctionOnSet([j \in Jobs |-> job[j].res.num], merged)
    /\ \A j \in merged : /\ job[j].res.errs \subseteq resp.errors
                         /\ \A k \in j : job[j].res.repos[k] = "ERROR" => k \in resp.errors

\* The limit on backend requests holds for a query, whatever the order of
\* the hosts, and no repo is searched by two of its jobs.
BackendLimit ==
  LET started == {j \in Jobs : job[j].at # "none"} \cup chQuery
  IN /\ conf.maxBe > 0 => Cardinality({j \in started : ~Local(j)}) <= conf.maxBe
     /\ \A i, j \in started : i # j => i \cap j = {}

\* A search leaves the store as its results have it, for the repos that no
\* one else touched: good repos are there, and no other if so configured,
\* although jobs of the search changed the store themselves.
StoreFollowsResults ==
  pc = "done" =>
    \A j \in merged : \A k \in j :
      LET said == job[j].res.repos[k]
      IN k \notin others =>
           /\ said = "OK" => repos[k] = "OK"
           /\ (said \notin {"OK", "none"} /\ cfg) => repos[k] = "none"

\* A search returns, unless a local search outlives the context, par did not
\* wait for a job that sends after the channel was closed, or the runtime
\* noticed the race on the Meta map.
ReturnsOrLocalStuck ==
  (pc = "new") ~> \/ pc = "done"
                  \/ died = "meta"
                  \/ died = "send" /\ conf.early
                  \/ \E j \in Jobs : Local(j) /\ job[j].at = "run" /\ ctx = "done"
=============================================================================
