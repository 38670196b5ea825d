-------------------------- MODULE SearchApiProofs --------------------------
(***************************************************************************)
(* Proofs about SearchApi, for any repos, hosts, limits and queries.       *)
(***************************************************************************)
EXTENDS SearchApi, SumTheorems

\* Where a job may be, and what a job is.
At == {"none", "run", "check", "send", "end"}
JobType == [at : At, res : Result]

\* The jobs that were queued, and those of them that a backend runs.
Queued == {j \in Jobs : job[j].at # "none"} \cup chQuery
Remote == {j \in Queued : ~Local(j)}

\* The jobs queued share out the keys that were picked and are no longer in
\* the feeder's hands.
ShareInv ==
  /\ \A j \in chQuery : job[j].at = "none"
  /\ UNION Queued = wanted \ (picked \cup cur)
  /\ \A i, j \in Queued : i # j => i \cap j = {}
  /\ picked \subseteq wanted /\ cur \subseteq wanted /\ cur \cap picked = {}
  /\ todo \cap wanted = {}
  /\ feeder = "pick" => Queued = {}
  /\ feeder # "local" => cur = {}
  /\ feeder = "end" => picked = {} \/ AtLimit

\* No two backend requests of the query go to one host, and countBe counts
\* them.
RemoteInv ==
  /\ \A k \in cur : HostOf[k] = LocalHost
  /\ \A j \in Remote, k \in picked : HostOf[k] # JobHost(j)
  /\ \A i, j \in Remote : i # j => JobHost(i) # JobHost(j)
  /\ countBe = Cardinality(Remote)
  /\ conf.maxBe > 0 => countBe <= conf.maxBe

\* A job's result goes through the channel into the response, unless the
\* context is done; on a live one the channel is closed after all of them.
FlowInv ==
  /\ \A j \in chResult \cup merged : job[j].at = "end"
  /\ chResult \cap merged = {}
  /\ ctx = "live" => \A j \in Jobs : job[j].at = "end" => j \in chResult \cup merged
  /\ closed /\ ctx = "live" => feeder = "end" /\ chQuery = {} /\ Running = {}
  /\ pc = "update" /\ valid /\ ctx = "live" => closed /\ chResult = {}

\* The response has what was merged.
NumOf(g) == [j \in Jobs |-> g[j].res.num]

RespInv ==
  /\ resp.num = SumFunctionOnSet(NumOf(job), merged)
  /\ \A j \in merged : job[j].res.errs \subseteq resp.errors

\* The store has s for a repo of which a result said r.
Follows(s, r) ==
  /\ r = "OK" => s = "OK"
  /\ r \notin {"OK", "none"} /\ cfg => s = "none"

\* Every bad repo of a result has an error there, under its key.
BadInv == \A j \in Jobs : \A k \in j : job[j].res.repos[k] = "ERROR" => k \in job[j].res.errs

\* What was merged of a repo is in updateRepos, or in the store already, and
\* nothing else is there.
StoreInv ==
  /\ pc = "new" => merged = {}
  /\ pc = "done" => update = NoRepos
  /\ \A k \in Keys : update[k] # "none" => \E j \in merged : k \in j
  /\ \A j \in merged : \A k \in j :
       LET said == job[j].res.repos[k]
       IN \/ update[k] = said
          \/ /\ pc # "merge" /\ update[k] = "none"
             /\ k \notin others => Follows(repos[k], said)

Inv == TypeOK /\ ShareInv /\ RemoteInv /\ FlowInv /\ RespInv /\ BadInv /\ StoreInv
-----------------------------------------------------------------------------
\* There are finitely many jobs.
LEMMA JobsAreFinite ==
  /\ IsFiniteSet(Jobs)
  /\ \A S \in SUBSET Jobs : IsFiniteSet(S) /\ Cardinality(S) \in Nat
<1>1. IsFiniteSet(SUBSET Keys) /\ Jobs \in SUBSET SUBSET Keys
  BY KeysAreFinite, FS_SUBSET DEF Jobs
<1>2. IsFiniteSet(Jobs)
  BY <1>1, FS_Subset
<1> QED BY <1>2, FS_Subset, FS_CardinalityType

\* A job's keys are on one host.
LEMMA JobHostOf ==
  ASSUME NEW j \in Jobs
  PROVE  /\ j \subseteq Keys /\ j # {} /\ JobHost(j) \in Hosts
         /\ \A k \in j : HostOf[k] = JobHost(j)
<1>1. j \subseteq Keys /\ j # {} /\ \A k, l \in j : HostOf[k] = HostOf[l]
  BY DEF Jobs
<1>2. (CHOOSE k \in j : TRUE) \in j
  BY <1>1
<1> QED BY <1>1, <1>2, HostsAreHosts DEF JobHost

\* One key is a job, and so are all the keys of another host.
LEMMA KeyIsJob == ASSUME NEW k \in Keys PROVE {k} \in Jobs
BY DEF Jobs

\* The keys of another host are one job, which is not local.
LEMMA KeysOfAreJob ==
  ASSUME TypeOK, NEW h, h # LocalHost, KeysOf(h) # {}
  PROVE  KeysOf(h) \in Jobs /\ JobHost(KeysOf(h)) = h /\ ~Local(KeysOf(h))
<1>1. KeysOf(h) \subseteq Keys /\ \A k \in KeysOf(h) : HostOf[k] = h
  BY DEF KeysOf, TypeOK
<1>2. KeysOf(h) \in Jobs
  BY <1>1 DEF Jobs
<1> QED BY <1>1, <1>2, JobHostOf DEF Local

\* What a job that goes on to l keeps.
LEMMA JobGoes ==
  ASSUME TypeOK, NEW j \in Jobs, NEW l \in At, job' = [job EXCEPT ![j].at = l]
  PROVE  /\ job' \in [Jobs -> JobType]
         /\ job'[j].at = l /\ job'[j].res = job[j].res
         /\ \A i \in Jobs \ {j} : job'[i] = job[i]
<1>1. job \in [Jobs -> JobType] /\ job[j] \in JobType
  BY DEF TypeOK, JobType, At
<1>2. LET x == [job[j] EXCEPT !.at = l] IN x \in JobType /\ x.at = l /\ x.res = job[j].res
  BY <1>1 DEF JobType
<1>3. job' = [job EXCEPT ![j] = [job[j] EXCEPT !.at = l]]
  OBVIOUS
<1> QED BY <1>1, <1>2, <1>3

\* Where a job is when it has a result.
LEMMA JobReplaced ==
  ASSUME TypeOK, NEW j \in Jobs, NEW res \in Result,
         job' = [job EXCEPT ![j] = [at |-> "check", res |-> res]]
  PROVE  /\ job' \in [Jobs -> JobType] /\ job'[j].at = "check" /\ job'[j].res = res
         /\ \A i \in Jobs \ {j} : job'[i] = job[i]
<1>1. job \in [Jobs -> JobType]
  BY DEF TypeOK, JobType, At
<1>2. [at |-> "check", res |-> res] \in JobType
  BY DEF JobType, At
<1> QED BY <1>1, <1>2

\* The results a job may have are results.
LEMMA ResultsAreResults ==
  /\ NoResult \in Result
  /\ \A k \in Keys, st \in States, n \in 0 .. 1, e \in SUBSET Keys :
       [repos |-> [NoRepos EXCEPT ![k] = st], num |-> n, errs |-> e] \in Result
  /\ \A h \in Hosts \cup {NoHost} : [NoResult EXCEPT !.errs = {h}] \in Result
  /\ TypeOK => \A j \in Jobs : Answers(j) \subseteq Result
<1>1. NoRepos \in [Keys -> States]
  BY DEF NoRepos, States
<1>2. NoResult \in Result
  BY <1>1 DEF NoResult, Result
<1>3. \A k \in Keys, st \in States, n \in 0 .. 1, e \in SUBSET Keys :
       [repos |-> [NoRepos EXCEPT ![k] = st], num |-> n, errs |-> e] \in Result
  BY <1>1 DEF Result, Labels
<1>4. \A h \in Hosts \cup {NoHost} : [NoResult EXCEPT !.errs = {h}] \in Result
  BY <1>2 DEF Result, Labels
<1>5. ASSUME TypeOK, NEW j \in Jobs, NEW s \in [j -> conf.says], NEW n \in 0 .. 1,
             NEW e \in SUBSET j
      PROVE  [repos |-> [k \in Keys |-> IF k \in j THEN s[k] ELSE "none"],
              num |-> n, errs |-> e] \in Result
  <2>1. conf.says \subseteq States
    BY <1>5, SetupsAreSetups DEF TypeOK, States
  <2>2. [k \in Keys |-> IF k \in j THEN s[k] ELSE "none"] \in [Keys -> States]
    BY <2>1 DEF States
  <2>3. e \in SUBSET Labels
    BY JobHostOf DEF Labels
  <2> QED BY <2>2, <2>3 DEF Result
<1>6. TypeOK => \A j \in Jobs : Answers(j) \subseteq Result
  <2> SUFFICES ASSUME TypeOK, NEW j \in Jobs, NEW r \in Answers(j) PROVE r \in Result
    OBVIOUS
  <2> PICK s \in [j -> conf.says], n \in 0 .. 1, e \in SUBSET j :
             r = [repos |-> [k \in Keys |-> IF k \in j THEN s[k] ELSE "none"],
                  num |-> n, errs |-> e]
    BY DEF Answers
  <2> QED BY <1>5
<1> QED BY <1>2, <1>3, <1>4, <1>6
-----------------------------------------------------------------------------
\* A step of the function that runs job j: it gets a result, and ends when it
\* has sent that or the context is done.
JobStepped(j) ==
  /\ UNCHANGED <<conf, cfg, valid, ctx, feeder, todo, picked, cur, countBe, metaHost,
                 wanted, chQuery, closed, pc, update, resp, merged, others>>
  /\ job' \in [Jobs -> JobType]
  /\ \A i \in Jobs \ {j} : job'[i] = job[i]
  /\ job[j].at \in {"run", "check", "send"} /\ job'[j].at \in {"check", "send", "end"}
  /\ \/ chResult' = chResult /\ (job'[j].at = "end" => ctx = "done")
     \/ chResult' = chResult \cup {j} /\ job'[j].at = "end" /\ Cardinality(chResult) < ResultCap
  /\ repos' \in [Keys -> States] /\ \A k \in Keys \ j : repos'[k] = repos[k]
  /\ \/ job'[j].res = job[j].res
     \/ \A k \in j : job'[j].res.repos[k] = "ERROR" => k \in job'[j].res.errs
  /\ died' \in {"no", "send", "meta"}

\* Each action of a job is such a step.
LEMMA JobSteps ==
  ASSUME TypeOK, NEW j \in Running, JobReturns(j) \/ JobGoesOn(j)
  PROVE  JobStepped(j)
<1> USE DEF input, feed, main
<1>0. j \in Jobs /\ j \subseteq Keys /\ job[j].at \in {"run", "check", "send"}
  BY JobHostOf DEF Running
<1>1. ASSUME NEW k \in j, NEW says \in States, NEW n \in 0 .. 1, NEW errs \in SUBSET j,
             LocalReturns(j, k, says, n, errs)
      PROVE  JobStepped(j)
  <2> DEFINE res == [repos |-> [NoRepos EXCEPT ![k] = says], num |-> n, errs |-> errs]
  <2>0. res \in Result /\ job' = [job EXCEPT ![j] = [at |-> "check", res |-> res]]
    BY <1>0, <1>1, ResultsAreResults DEF LocalReturns
  <2>1. /\ job' \in [Jobs -> JobType] /\ job'[j].at = "check" /\ job'[j].res = res
        /\ \A i \in Jobs \ {j} : job'[i] = job[i]
    BY <1>0, <2>0, JobReplaced
  <2>2. repos' \in [Keys -> States] /\ \A l \in Keys \ j : repos'[l] = repos[l]
    BY <1>0, <1>1 DEF LocalReturns, TypeOK, States
  <2>3. \A l \in j : res.repos[l] = "ERROR" => l \in res.errs
    <3>1. \A l \in Keys : res.repos[l] = IF l = k THEN says ELSE "none"
      BY <1>0 DEF NoRepos
    <3>2. says = "ERROR" => k \in errs
      BY <1>1 DEF LocalReturns
    <3> QED BY <1>0, <3>1, <3>2
  <2> HIDE DEF res
  <2> QED BY <1>0, <1>1, <2>1, <2>2, <2>3 DEF LocalReturns, JobStepped, TypeOK
<1>2. ASSUME NEW res \in Answers(j), RemoteReturns(j, res) PROVE JobStepped(j)
  <2>1. /\ job' \in [Jobs -> JobType] /\ job'[j].at = "check" /\ job'[j].res = res
        /\ \A i \in Jobs \ {j} : job'[i] = job[i]
    BY <1>0, <1>2, ResultsAreResults, JobReplaced DEF RemoteReturns
  <2>2. \A l \in j : res.repos[l] = "ERROR" => l \in res.errs
    BY DEF Answers
  <2> QED BY <1>0, <1>2, <2>1, <2>2 DEF RemoteReturns, JobStepped, TypeOK
<1>3. ASSUME RemoteFails(j) PROVE JobStepped(j)
  <2> DEFINE res == [NoResult EXCEPT !.errs = {metaHost}]
  <2>1. metaHost \in Hosts \cup {NoHost}
    BY DEF TypeOK
  <2>2. res \in Result /\ job' = [job EXCEPT ![j] = [at |-> "check", res |-> res]]
    BY <1>3, <2>1, ResultsAreResults DEF RemoteFails
  <2>3. /\ job' \in [Jobs -> JobType] /\ job'[j].at = "check" /\ job'[j].res = res
        /\ \A i \in Jobs \ {j} : job'[i] = job[i]
    BY <1>0, <2>2, JobReplaced
  <2>4. \A l \in j : res.repos[l] # "ERROR"
    BY <1>0 DEF NoResult, NoRepos
  <2> HIDE DEF res
  <2> QED BY <1>0, <1>3, <2>3, <2>4 DEF RemoteFails, JobStepped, TypeOK
<1>4. ASSUME JobChecks(j) PROVE JobStepped(j)
  <2> DEFINE l == IF ctx = "done" THEN "end" ELSE "send"
  <2>1. l \in At /\ job' = [job EXCEPT ![j].at = l]
    BY <1>4 DEF JobChecks, At
  <2>2. l \in {"end", "send"} /\ (l = "end" => ctx = "done")
    OBVIOUS
  <2> HIDE DEF l
  <2>3. /\ job' \in [Jobs -> JobType] /\ job'[j].at = l /\ job'[j].res = job[j].res
        /\ \A i \in Jobs \ {j} : job'[i] = job[i]
    BY <1>0, <2>1, JobGoes
  <2> QED BY <1>0, <1>4, <2>2, <2>3 DEF JobChecks, JobStepped, TypeOK
<1>5. ASSUME JobSends(j) PROVE JobStepped(j)
  <2>1. "end" \in At /\ job' = [job EXCEPT ![j].at = "end"]
    BY <1>5 DEF JobSends, At
  <2>2. /\ job' \in [Jobs -> JobType] /\ job'[j].at = "end" /\ job'[j].res = job[j].res
        /\ \A i \in Jobs \ {j} : job'[i] = job[i]
    BY <1>0, <2>1, JobGoes
  <2> QED BY <1>0, <1>5, <2>2 DEF JobSends, JobStepped, TypeOK
<1>6. ASSUME SendOnClosed(j) PROVE JobStepped(j)
  BY <1>0, <1>6 DEF SendOnClosed, JobStepped, TypeOK, JobType, At
<1> QED BY <1>1, <1>2, <1>3, <1>4, <1>5, <1>6 DEF JobReturns, JobGoesOn

\* par takes job j.
JobTaken(j) ==
  /\ j \in chQuery /\ chQuery' = chQuery \ {j} /\ valid /\ ~closed
  /\ UNCHANGED <<conf, cfg, valid, repos, ctx, feeder, todo, picked, cur, countBe, metaHost,
                 wanted, chResult, closed, pc, update, resp, merged, died, others>>
  /\ job' \in [Jobs -> JobType]
  /\ job'[j].at = "run" /\ job'[j].res = job[j].res
  /\ \A i \in Jobs \ {j} : job'[i] = job[i]

\* That is what JobStarts does.
LEMMA JobTakes ==
  ASSUME TypeOK, NEW j \in chQuery, JobStarts(j)
  PROVE  JobTaken(j)
<1>1. j \in Jobs /\ "run" \in At /\ job' = [job EXCEPT ![j].at = "run"]
  BY DEF TypeOK, At, JobStarts
<1>2. /\ job' \in [Jobs -> JobType] /\ job'[j].at = "run" /\ job'[j].res = job[j].res
      /\ \A i \in Jobs \ {j} : job'[i] = job[i]
  BY <1>1, JobGoes
<1> QED BY <1>2 DEF JobTaken, JobStarts, input, feed, main

\* The feeder touches neither the jobs that run nor their results.
FeederStepped ==
  /\ UNCHANGED <<conf, cfg, valid, repos, ctx, job, chResult, closed, pc, update, resp,
                 merged, died, others>>
  /\ feeder # "end"

\* Each action of the feeder leaves them alone.
LEMMA FeederSteps == Feeder => FeederStepped
BY DEF Feeder, FeederStepped, PickEnds, TakeLocal, FeedEnds, PickKey, QueueLocal, QueueRemote,
       input, main
-----------------------------------------------------------------------------
\* The queries stay shared out while no job is queued, taken from the queue
\* but to run, or forgotten.
LEMMA QuietKeeps ==
  ASSUME ShareInv, RemoteInv, Queued' = Queued, \A j \in chQuery' : job'[j].at = "none",
         UNCHANGED <<conf, feeder, todo, picked, cur, countBe, wanted>>
  PROVE  ShareInv' /\ RemoteInv'
<1>1. Remote' = Remote
  BY DEF Remote
<1> QED BY <1>1 DEF ShareInv, RemoteInv, AtLimit

\* A job is queued whose keys the feeder had in hand.
LEMMA QueuedMore ==
  ASSUME TypeOK, ShareInv, NEW j \in Jobs, j \cap UNION Queued = {},
         chQuery' = chQuery \cup {j}, UNCHANGED job
  PROVE  /\ Queued' = Queued \cup {j} /\ j \notin Queued
         /\ UNION Queued' = (UNION Queued) \cup j
         /\ \A i, l \in Queued' : i # l => i \cap l = {}
         /\ \A i \in chQuery' : job'[i].at = "none"
<1>1. j # {}
  BY JobHostOf
<1>2. Queued' = Queued \cup {j}
  BY DEF Queued
<1>3. j \notin Queued
  BY <1>1
<1>4. UNION Queued' = (UNION Queued) \cup j
  BY <1>2
<1>5. \A i, l \in Queued' : i # l => i \cap l = {}
  BY <1>2 DEF ShareInv
<1>6. \A i \in chQuery' : job'[i].at = "none"
  BY <1>3 DEF ShareInv, Queued
<1> QED BY <1>2, <1>3, <1>4, <1>5, <1>6

\* The feeder shares out the keys that it picked.
LEMMA FeederShares ==
  ASSUME TypeOK, ShareInv, RemoteInv, Feeder
  PROVE  ShareInv' /\ RemoteInv'
<1>0. UNCHANGED <<conf, job>>
  BY FeederSteps DEF FeederStepped
<1>1. ASSUME NEW k \in Keys, PickKey(k) PROVE ShareInv' /\ RemoteInv'
  <2>1. /\ feeder = "pick" /\ k \in todo /\ todo' = todo \ {k}
        /\ UNCHANGED <<chQuery, cur, countBe, feeder>>
        /\ \/ picked' = picked \cup {k} /\ wanted' = wanted \cup {k}
           \/ UNCHANGED <<picked, wanted>>
    BY <1>1 DEF PickKey
  <2>2. Queued = {} /\ Queued' = {} /\ Remote = {} /\ Remote' = {} /\ cur = {} /\ k \notin wanted
    BY <1>0, <2>1 DEF ShareInv, Queued, Remote
  <2>3. ShareInv'
    BY <1>0, <2>1, <2>2 DEF ShareInv, Queued
  <2>4. RemoteInv'
    BY <1>0, <2>1, <2>2 DEF RemoteInv
  <2> QED BY <2>3, <2>4
<1>2. ASSUME PickEnds \/ FeedEnds PROVE ShareInv' /\ RemoteInv'
  <2>1. UNCHANGED <<chQuery, todo, picked, cur, countBe, wanted>>
        /\ feeder \in {"pick", "hosts"} /\ feeder' \in {"hosts", "end"}
        /\ (feeder' = "end" => picked = {} \/ AtLimit)
    BY <1>2 DEF PickEnds, FeedEnds
  <2>2. Queued' = Queued /\ Remote' = Remote /\ AtLimit' = AtLimit
    BY <1>0, <2>1 DEF Queued, Remote, AtLimit
  <2> QED BY <1>0, <2>1, <2>2 DEF ShareInv, RemoteInv
<1>3. ASSUME TakeLocal PROVE ShareInv' /\ RemoteInv'
  <2>1. /\ feeder = "hosts" /\ feeder' = "local" /\ UNCHANGED <<chQuery, todo, countBe, wanted>>
        /\ cur' = KeysOf(LocalHost) /\ picked' = picked \ KeysOf(LocalHost)
    BY <1>3 DEF TakeLocal
  <2>2. Queued' = Queued /\ Remote' = Remote
    BY <1>0, <2>1 DEF Queued, Remote
  <2>3. KeysOf(LocalHost) \subseteq picked /\ cur = {}
    BY <2>1 DEF KeysOf, ShareInv
  <2>4. ShareInv'
    BY <1>0, <2>1, <2>2, <2>3 DEF ShareInv
  <2>5. RemoteInv'
    BY <1>0, <2>1, <2>2 DEF RemoteInv, KeysOf
  <2> QED BY <2>4, <2>5
<1>4. ASSUME NEW k \in Keys, QueueLocal(k) PROVE ShareInv' /\ RemoteInv'
  <2>1. /\ feeder = "local" /\ feeder' = IF cur' = {} THEN "hosts" ELSE "local"
        /\ k \in cur /\ cur' = cur \ {k} /\ chQuery' = chQuery \cup {{k}}
        /\ UNCHANGED <<todo, picked, countBe, wanted>>
    BY <1>4 DEF QueueLocal
  <2>2. {k} \in Jobs /\ {k} \cap UNION Queued = {}
    BY <2>1, KeyIsJob DEF ShareInv
  <2>3. /\ Queued' = Queued \cup {{k}}
        /\ UNION Queued' = (UNION Queued) \cup {k}
        /\ \A i, l \in Queued' : i # l => i \cap l = {}
        /\ \A i \in chQuery' : job'[i].at = "none"
    BY <1>0, <2>1, <2>2, QueuedMore
  <2>4. ShareInv'
    <3>1. UNION Queued' = wanted' \ (picked' \cup cur')
      BY <2>1, <2>3 DEF ShareInv
    <3>2. picked' \subseteq wanted' /\ cur' \subseteq wanted' /\ cur' \cap picked' = {}
      BY <2>1 DEF ShareInv
    <3>3. todo' \cap wanted' = {}
      BY <2>1 DEF ShareInv
    <3>4. feeder' \notin {"pick", "end"} /\ (feeder' # "local" => cur' = {})
      BY <2>1
    <3> QED BY <2>3, <3>1, <3>2, <3>3, <3>4 DEF ShareInv
  <2>5. Local({k})
    BY <2>1, <2>2, JobHostOf DEF Local, RemoteInv
  <2>6. Remote' = Remote
    BY <2>3, <2>5 DEF Remote
  <2>7. RemoteInv'
    BY <1>0, <2>1, <2>6 DEF RemoteInv
  <2> QED BY <2>4, <2>7
<1>5. ASSUME NEW h \in Hosts, QueueRemote(h) PROVE ShareInv' /\ RemoteInv'
  <2> DEFINE j == KeysOf(h)
  <2>1. /\ feeder = "hosts" /\ h # LocalHost /\ j # {} /\ ~AtLimit
        /\ picked' = picked \ j /\ countBe' = countBe + 1 /\ chQuery' = chQuery \cup {j}
        /\ UNCHANGED <<feeder, todo, cur, wanted>>
    BY <1>5 DEF QueueRemote
  <2>2. j \subseteq picked /\ \A k \in picked : k \in j <=> HostOf[k] = h
    BY DEF KeysOf
  <2>3. j \in Jobs /\ JobHost(j) = h /\ ~Local(j)
    BY <2>1, KeysOfAreJob
  <2> HIDE DEF j
  <2>4. j \cap UNION Queued = {} /\ cur = {}
    BY <2>1, <2>2 DEF ShareInv
  <2>5. /\ Queued' = Queued \cup {j} /\ j \notin Queued
        /\ UNION Queued' = (UNION Queued) \cup j
        /\ \A i, l \in Queued' : i # l => i \cap l = {}
        /\ \A i \in chQuery' : job'[i].at = "none"
    BY <1>0, <2>1, <2>3, <2>4, QueuedMore
  <2>6. ShareInv'
    <3>1. UNION Queued' = wanted' \ (picked' \cup cur')
      BY <2>1, <2>2, <2>4, <2>5 DEF ShareInv
    <3>2. picked' \subseteq wanted' /\ cur' = {} /\ todo' \cap wanted' = {}
      BY <2>1, <2>4 DEF ShareInv
    <3> QED BY <2>1, <2>5, <3>1, <3>2 DEF ShareInv
  <2>7. Remote' = Remote \cup {j} /\ j \notin Remote
    BY <2>3, <2>5 DEF Remote
  <2>8. IsFiniteSet(Remote)
    BY JobsAreFinite DEF Remote, Queued, TypeOK
  <2>9. Cardinality(Remote') = countBe + 1 /\ countBe \in Nat
    BY <2>7, <2>8, FS_AddElement, FS_CardinalityType DEF RemoteInv
  <2>10. conf.maxBe > 0 => countBe + 1 <= conf.maxBe
    BY <2>1, <2>9, SetupsAreSetups DEF AtLimit, TypeOK
  <2>11. \A i \in Remote : JobHost(i) # h
    BY <2>1, <2>2 DEF RemoteInv
  <2>12. \A i, l \in Remote' : i # l => JobHost(i) # JobHost(l)
    BY <2>3, <2>7, <2>11 DEF RemoteInv
  <2>13. \A i \in Remote', k \in picked' : HostOf[k] # JobHost(i)
    BY <2>1, <2>2, <2>3, <2>7 DEF RemoteInv
  <2>14. RemoteInv'
    BY <1>0, <2>1, <2>9, <2>10, <2>12, <2>13 DEF RemoteInv
  <2> QED BY <2>6, <2>14
<1> QED BY <1>1, <1>2, <1>3, <1>4, <1>5 DEF Feeder

\* So does every other step: a job that starts or goes on stays queued.
LEMMA OthersShare ==
  ASSUME TypeOK, ShareInv, RemoteInv,
         \/ UNCHANGED <<conf, feeder, todo, picked, cur, countBe, wanted, chQuery, job>>
         \/ \E j \in chQuery : JobTaken(j)
         \/ \E j \in Jobs : JobStepped(j)
  PROVE  ShareInv' /\ RemoteInv'
<1>1. CASE UNCHANGED <<conf, feeder, todo, picked, cur, countBe, wanted, chQuery, job>>
  BY <1>1, QuietKeeps DEF Queued, ShareInv
<1>2. ASSUME NEW j \in chQuery, JobTaken(j) PROVE ShareInv' /\ RemoteInv'
  <2>1. j \in Jobs /\ chQuery \subseteq Jobs /\ job[j].at = "none"
    BY DEF TypeOK, ShareInv
  <2>2. Queued' = Queued
    BY <1>2, <2>1 DEF Queued, JobTaken
  <2>3. \A i \in chQuery' : job'[i].at = "none"
    BY <1>2, <2>1 DEF ShareInv, JobTaken
  <2> QED BY <1>2, <2>2, <2>3, QuietKeeps DEF JobTaken
<1>3. ASSUME NEW j \in Jobs, JobStepped(j) PROVE ShareInv' /\ RemoteInv'
  <2>1. Queued' = Queued
    BY <1>3 DEF Queued, JobStepped
  <2>2. \A i \in chQuery' : job'[i].at = "none"
    BY <1>3 DEF ShareInv, JobStepped, TypeOK
  <2> QED BY <1>3, <2>1, <2>2, QuietKeeps DEF JobStepped
<1> QED BY <1>1, <1>2, <1>3
-----------------------------------------------------------------------------
\* Every step is one of the feeder, of par, of a job, of doSearch, the end of
\* its time, or one of somebody else.
LEMMA Steps ==
  ASSUME TypeOK, [Next]_vars
  PROVE  \/ Feeder
         \/ \E j \in chQuery : JobTaken(j)
         \/ \E j \in Jobs : JobStepped(j)
         \/ /\ UNCHANGED <<conf, cfg, valid, feeder, todo, picked, cur, countBe, metaHost,
                           wanted, chQuery, job>>
            /\ \/ ParReturns \/ Reject \/ StartPar \/ MergeEnds \/ Return \/ Timeout
               \/ \E j \in chResult : Merge(j)
               \/ \E k \in Keys : UpdateRepo(k) \/ UserDelete(k) \/ IndexStarts(k)
               \/ MetaRace \/ UNCHANGED vars
<1> USE DEF input, feed, main
<1>1. \A j \in chQuery : JobStarts(j) => JobTaken(j)
  BY JobTakes
<1>2. \A j \in Running : JobReturns(j) \/ JobGoesOn(j) => JobStepped(j) /\ j \in Jobs
  BY JobSteps DEF Running
<1>3. ParReturns \/ Reject \/ StartPar \/ MergeEnds \/ Return \/ Timeout \/ MetaRace \/ UNCHANGED vars
      => UNCHANGED <<conf, cfg, valid, feeder, todo, picked, cur, countBe, metaHost,
                     wanted, chQuery, job>>
  BY DEF ParReturns, Reject, StartPar, MergeEnds, Return, Timeout, MetaRace, vars
<1>4. \A j : Merge(j)
      => UNCHANGED <<conf, cfg, valid, feeder, todo, picked, cur, countBe, metaHost,
                     wanted, chQuery, job>>
  BY DEF Merge
<1>5. \A k : UpdateRepo(k) \/ UserDelete(k) \/ IndexStarts(k)
      => UNCHANGED <<conf, cfg, valid, feeder, todo, picked, cur, countBe, metaHost,
                     wanted, chQuery, job>>
  BY DEF UpdateRepo, UserDelete, IndexStarts
<1> HIDE DEF input, feed, main
<1> QED BY <1>1, <1>2, <1>3, <1>4, <1>5 DEF Next, Par, Main

\* No result is lost on a live context, nor the channel closed too early.
LEMMA FlowKept ==
  ASSUME Inv, [Next]_vars
  PROVE  FlowInv'
<1> USE DEF Inv
<1>1. CASE Feeder
  <2>1. FeederStepped
    BY <1>1, FeederSteps
  <2> QED BY <2>1 DEF FlowInv, FeederStepped, Running
<1>2. ASSUME NEW j \in chQuery, JobTaken(j) PROVE FlowInv'
  <2>1. j \in Jobs /\ job[j].at = "none" /\ chResult \subseteq Jobs /\ merged \subseteq Jobs
    BY DEF TypeOK, ShareInv
  <2>2. j \notin chResult \cup merged
    BY <2>1 DEF FlowInv
  <2> QED BY <1>2, <2>1, <2>2 DEF FlowInv, JobTaken
<1>3. ASSUME NEW j \in Jobs, JobStepped(j) PROVE FlowInv'
  <2>1. job[j].at # "end" /\ j \in Running /\ chResult \subseteq Jobs /\ merged \subseteq Jobs
    BY <1>3 DEF TypeOK, JobStepped, Running
  <2>2. j \notin chResult \cup merged
    BY <2>1 DEF FlowInv
  <2>3. ctx = "live" => ~closed /\ ~(pc = "update" /\ valid)
    BY <2>1 DEF FlowInv
  <2>4. \A i \in chResult' \cup merged' : job'[i].at = "end"
    BY <1>3, <2>1, <2>2 DEF FlowInv, JobStepped
  <2>5. ctx' = "live" => \A i \in Jobs : job'[i].at = "end" => i \in chResult' \cup merged'
    BY <1>3, <2>1 DEF FlowInv, JobStepped
  <2> QED BY <1>3, <2>2, <2>3, <2>4, <2>5 DEF FlowInv, JobStepped
<1>4. CASE ParReturns
  BY <1>4 DEF ParReturns, ParDone, FlowInv, Running, TypeOK, input, feed, main
<1>5. CASE Reject \/ StartPar \/ MergeEnds \/ Return \/ Timeout \/ UNCHANGED vars
  BY <1>5 DEF Reject, StartPar, MergeEnds, Return, Timeout, vars, FlowInv, Running, TypeOK,
              input, feed, main
<1>6. ASSUME NEW j \in chResult, Merge(j) PROVE FlowInv'
  BY <1>6 DEF Merge, FlowInv, Running, TypeOK, input, feed
<1>7. ASSUME NEW k \in Keys, UpdateRepo(k) \/ UserDelete(k) \/ IndexStarts(k) PROVE FlowInv'
  BY <1>7 DEF UpdateRepo, UserDelete, IndexStarts, FlowInv, Running, input, feed, main
<1>8. CASE MetaRace
  BY <1>8 DEF MetaRace, FlowInv, Running, input, feed, main
<1> QED BY <1>1, <1>2, <1>3, <1>4, <1>5, <1>6, <1>7, <1>8, Steps

\* The sum over the jobs merged does not change with the others.
LEMMA RespSame ==
  ASSUME TypeOK, RespInv, UNCHANGED <<resp, merged>>, \A i \in merged : job'[i].res = job[i].res
  PROVE  RespInv'
<1>1. merged \subseteq Jobs /\ IsFiniteSet(merged)
  BY JobsAreFinite DEF TypeOK
<1>2. \A i \in merged : NumOf(job)[i] = NumOf(job')[i]
  BY <1>1 DEF NumOf
<1>3. SumFunctionOnSet(NumOf(job), merged) = SumFunctionOnSet(NumOf(job'), merged)
  BY <1>1, <1>2, SumSame
<1> QED BY <1>3 DEF RespInv

\* Every result is merged once.
LEMMA RespKept ==
  ASSUME Inv, [Next]_vars
  PROVE  RespInv'
<1> USE DEF Inv
<1>0. merged \subseteq Jobs /\ \A i \in merged : job[i].at = "end"
  BY DEF TypeOK, FlowInv
<1>1. CASE Feeder
  BY <1>1, FeederSteps, RespSame DEF FeederStepped
<1>2. ASSUME NEW j \in chQuery, JobTaken(j) PROVE RespInv'
  BY <1>2, <1>0, RespSame DEF JobTaken
<1>3. ASSUME NEW j \in Jobs, JobStepped(j) PROVE RespInv'
  BY <1>3, <1>0, RespSame DEF JobStepped
<1>4. CASE UNCHANGED <<job, merged>> /\ (ParReturns \/ StartPar \/ MergeEnds \/ Return
                                        \/ Timeout \/ UNCHANGED vars)
  BY <1>4, RespSame DEF ParReturns, StartPar, MergeEnds, Return, Timeout, vars, main
<1>5. CASE Reject
  <2>1. resp'.num = resp.num /\ resp'.errors = resp.errors /\ UNCHANGED <<job, merged>>
    BY <1>5 DEF Reject, TypeOK
  <2> QED BY <2>1 DEF RespInv
<1>6. ASSUME NEW j \in chResult, Merge(j) PROVE RespInv'
  <2>1. j \in Jobs /\ j \notin merged /\ merged' = merged \cup {j} /\ UNCHANGED job
    BY <1>6 DEF Merge, FlowInv, TypeOK
  <2>2. resp'.num = resp.num + job[j].res.num
        /\ resp'.errors = resp.errors \cup job[j].res.errs
    BY <1>6 DEF Merge, TypeOK
  <2>3. \A i \in Jobs : NumOf(job)[i] = job[i].res.num /\ NumOf(job)[i] \in Nat
    BY DEF TypeOK, Result, NumOf
  <2>4. IsFiniteSet(merged)
    BY <1>0, JobsAreFinite
  <2>5. SumFunctionOnSet(NumOf(job), merged') = NumOf(job)[j] + SumFunctionOnSet(NumOf(job), merged)
    BY <1>0, <2>1, <2>3, <2>4, SumAdd
  <2>6. SumFunctionOnSet(NumOf(job), merged) \in Nat
    BY <1>0, <2>3, <2>4, SumType
  <2>7. resp'.num = SumFunctionOnSet(NumOf(job), merged')
    BY <2>1, <2>2, <2>3, <2>5, <2>6 DEF RespInv
  <2> QED BY <2>1, <2>2, <2>7 DEF RespInv
<1>7. ASSUME NEW k \in Keys, UpdateRepo(k) \/ UserDelete(k) \/ IndexStarts(k), UNCHANGED job
      PROVE  RespInv'
  BY <1>7, RespSame DEF UpdateRepo, UserDelete, IndexStarts, main
<1>8. ParReturns \/ StartPar \/ MergeEnds \/ Return \/ Timeout \/ UNCHANGED vars => UNCHANGED merged
  BY DEF ParReturns, StartPar, MergeEnds, Return, Timeout, vars, main
<1>9. CASE MetaRace /\ UNCHANGED job
  BY <1>9, RespSame DEF MetaRace, main
<1> QED BY <1>1, <1>2, <1>3, <1>4, <1>5, <1>6, <1>7, <1>8, <1>9, Steps

\* No step takes an error out of a result.
LEMMA BadKept ==
  ASSUME TypeOK, BadInv, [Next]_vars
  PROVE  BadInv'
<1>1. ASSUME NEW j \in Jobs, JobStepped(j) PROVE BadInv'
  BY <1>1 DEF JobStepped, BadInv
<1>2. ASSUME NEW j \in chQuery, JobTaken(j) PROVE BadInv'
  BY <1>2 DEF JobTaken, BadInv
<1>3. CASE UNCHANGED job
  BY <1>3 DEF BadInv
<1>4. Feeder => UNCHANGED job
  BY FeederSteps DEF FeederStepped
<1> QED BY <1>1, <1>2, <1>3, <1>4, Steps

\* What a result said of a repo waits in updateRepos until it is in the
\* store, and only others change it there.
LEMMA StoreKept ==
  ASSUME Inv, [Next]_vars
  PROVE  StoreInv'
<1> USE DEF Inv
<1>0. /\ merged \subseteq Jobs /\ \A i \in merged : job[i].at = "end" /\ i \subseteq Keys
      /\ \A i, j \in Queued : i # j => i \cap j = {}
      /\ merged \subseteq Queued
  BY JobHostOf DEF TypeOK, FlowInv, ShareInv, Queued
<1>1. CASE Feeder
  BY <1>1, FeederSteps DEF FeederStepped, StoreInv, Follows
<1>2. ASSUME NEW j \in chQuery, JobTaken(j) PROVE StoreInv'
  BY <1>2, <1>0 DEF JobTaken, StoreInv, Follows
<1>3. ASSUME NEW j \in Jobs, JobStepped(j) PROVE StoreInv'
  <2>1. j \in Queued /\ j \notin merged
    BY <1>0, <1>3 DEF Queued, JobStepped
  <2>2. \A i \in merged : job'[i] = job[i] /\ \A k \in i : repos'[k] = repos[k]
    BY <1>0, <1>3, <2>1 DEF JobStepped
  <2> QED BY <1>3, <2>2 DEF JobStepped, StoreInv, Follows
<1>4. CASE UNCHANGED <<cfg, job>>
           /\ (ParReturns \/ Reject \/ StartPar \/ MergeEnds \/ Timeout \/ MetaRace \/ UNCHANGED vars)
  BY <1>4 DEF ParReturns, Reject, StartPar, MergeEnds, Timeout, MetaRace, vars, main, StoreInv, Follows
<1>5. CASE Return
  BY <1>5 DEF Return, StoreInv, Follows, input
<1>6. ASSUME NEW j \in chResult, Merge(j) PROVE StoreInv'
  <2>1. /\ pc = "merge" /\ pc' \in {"merge", "update"} /\ merged' = merged \cup {j}
        /\ update' = [k \in Keys |->
                        IF k \in j /\ job[j].res.repos[k] # "none" /\ update[k] # "ERROR"
                          THEN job[j].res.repos[k] ELSE update[k]]
        /\ UNCHANGED <<cfg, repos, job, others>>
    BY <1>6 DEF Merge, input
  <2>2. j \in Jobs /\ j \in Queued /\ j \notin merged
    BY DEF FlowInv, TypeOK, Queued
  <2>3. \A k \in j : update'[k] = job[j].res.repos[k]
    <3>1. \A k \in j : k \in Keys /\ update[k] = "none"
      BY <1>0, <2>2, JobHostOf DEF StoreInv
    <3> QED BY <2>1, <3>1
  <2>4. ASSUME NEW i \in merged, NEW k \in i PROVE update'[k] = job[i].res.repos[k]
    <3>1. k \in Keys /\ k \notin j
      BY <1>0, <2>2
    <3> QED BY <2>1, <3>1 DEF StoreInv
  <2>5. \A k \in Keys : update'[k] # "none" => \E i \in merged' : k \in i
    BY <2>1 DEF StoreInv
  <2>6. \A i \in merged' : \A k \in i : update'[k] = job'[i].res.repos[k]
    BY <2>1, <2>3, <2>4
  <2>7. pc' \notin {"new", "done"}
    BY <2>1
  <2> QED BY <2>5, <2>6, <2>7 DEF StoreInv
<1>7. ASSUME NEW l \in Keys, UpdateRepo(l) PROVE StoreInv'
  <2>1. /\ pc = "update" /\ update[l] # "none"
        /\ repos' = [repos EXCEPT ![l] = Updated(l)] /\ update' = [update EXCEPT ![l] = "none"]
        /\ UNCHANGED <<cfg, job, pc, merged, others>>
    BY <1>7 DEF UpdateRepo, input
  <2>2. /\ repos'[l] = Updated(l) /\ update'[l] = "none"
        /\ \A k \in Keys \ {l} : repos'[k] = repos[k] /\ update'[k] = update[k]
    BY <2>1 DEF TypeOK
  <2>3. ASSUME NEW i \in merged, NEW k \in i
        PROVE  \/ update'[k] = job[i].res.repos[k]
               \/ update'[k] = "none" /\ (k \notin others => Follows(repos[k], job[i].res.repos[k])')
    <3>1. CASE k = l
      <4>1. update[k] = job[i].res.repos[k]
        BY <2>1, <3>1 DEF StoreInv
      <4>2. Follows(Updated(l), update[l])
        BY DEF Follows, Updated
      <4> QED BY <2>1, <2>2, <3>1, <4>1, <4>2 DEF Follows
    <3>2. CASE k # l
      <4>1. k \in Keys
        BY <1>0
      <4> QED BY <2>1, <2>2, <3>2, <4>1 DEF StoreInv, Follows
    <3> QED BY <3>1, <3>2
  <2>4. \A k \in Keys : update'[k] # "none" => \E i \in merged' : k \in i
    BY <2>1, <2>2 DEF StoreInv
  <2> QED BY <2>1, <2>3, <2>4 DEF StoreInv
<1>8. ASSUME NEW l \in Keys, UserDelete(l) \/ IndexStarts(l) PROVE StoreInv'
  <2>1. /\ \A k \in Keys \ {l} : repos'[k] = repos[k]
        /\ others' = others \cup {l} /\ UNCHANGED <<cfg, job, pc, merged, update>>
    BY <1>8 DEF UserDelete, IndexStarts, TypeOK, input, main
  <2> QED BY <1>0, <2>1 DEF StoreInv, Follows
<1> QED BY <1>1, <1>2, <1>3, <1>4, <1>5, <1>6, <1>7, <1>8, Steps

\* A channel with room for one more has room for any one more.
LEMMA CardOfMore ==
  ASSUME NEW S, IsFiniteSet(S), NEW x, NEW n \in Nat, Cardinality(S) < n
  PROVE  Cardinality(S \cup {x}) <= n
<1>1. Cardinality(S) \in Nat
  BY FS_CardinalityType
<1>2. CASE x \in S
  <2>1. S \cup {x} = S
    BY <1>2
  <2> QED BY <1>1, <2>1
<1>3. CASE x \notin S
  <2>1. Cardinality(S \cup {x}) = Cardinality(S) + 1
    BY <1>3, FS_AddElement
  <2> QED BY <1>1, <2>1
<1> QED BY <1>2, <1>3

\* Every variable keeps its type; there are no more backend requests than
\* hosts.
LEMMA TypeKept ==
  ASSUME Inv, [Next]_vars, RemoteInv'
  PROVE  TypeOK'
<1> USE DEF Inv
<1>1. CASE Feeder
  <2>1. /\ UNCHANGED <<conf, cfg, valid, repos, ctx, job, chResult, closed, pc, update, resp,
                       merged, died, others>>
    BY <1>1, FeederSteps DEF FeederStepped
  <2>2. /\ feeder' \in {"pick", "hosts", "local", "end"} /\ metaHost' \in Hosts \cup {NoHost}
        /\ todo' \subseteq Keys /\ picked' \subseteq Keys /\ cur' \subseteq Keys
        /\ wanted' \subseteq Keys
    <3>1. \A k \in Keys : PickKey(k) => picked' \subseteq Keys /\ wanted' \subseteq Keys
      BY DEF PickKey, TypeOK
    <3>2. \A k \in Keys : QueueLocal(k) => feeder' \in {"pick", "hosts", "local", "end"}
      BY DEF QueueLocal
    <3> QED BY <1>1, <3>1, <3>2, HostsAreHosts
        DEF Feeder, PickEnds, TakeLocal, FeedEnds, PickKey, QueueLocal, QueueRemote, KeysOf, TypeOK
  <2>3. chQuery' \subseteq Jobs /\ Cardinality(chQuery') <= QueryCap
    <3>1. chQuery \subseteq Jobs /\ IsFiniteSet(chQuery)
      BY JobsAreFinite DEF TypeOK
    <3>2. \/ UNCHANGED chQuery
          \/ \E j \in Jobs : chQuery' = chQuery \cup {j} /\ Cardinality(chQuery) < QueryCap
      <4>1. \A k \in Keys : QueueLocal(k) => chQuery' = chQuery \cup {{k}}
                                            /\ Cardinality(chQuery) < QueryCap
        BY DEF QueueLocal
      <4>2. \A h \in Hosts : QueueRemote(h) => chQuery' = chQuery \cup {KeysOf(h)}
                                            /\ Cardinality(chQuery) < QueryCap
                                            /\ KeysOf(h) \in Jobs
        BY KeysOfAreJob DEF QueueRemote
      <4>3. PickEnds \/ TakeLocal \/ FeedEnds \/ (\E k \in Keys : PickKey(k)) => UNCHANGED chQuery
        BY DEF PickEnds, TakeLocal, FeedEnds, PickKey
      <4> QED BY <1>1, <4>1, <4>2, <4>3, KeyIsJob DEF Feeder
    <3>3. CASE UNCHANGED chQuery
      BY <3>3 DEF TypeOK
    <3>4. ASSUME NEW j \in Jobs, chQuery' = chQuery \cup {j}, Cardinality(chQuery) < QueryCap
          PROVE  chQuery' \subseteq Jobs /\ Cardinality(chQuery') <= QueryCap
      BY <3>1, <3>4, CardOfMore, CapsAreNat
    <3> QED BY <3>2, <3>3, <3>4
  <2>4. countBe' \in 0 .. Cardinality(Hosts)
    <3>1. Remote' \subseteq Jobs /\ IsFiniteSet(Remote')
      BY <2>3, JobsAreFinite DEF Remote, Queued
    <3> DEFINE f == [j \in Remote' |-> JobHost(j)]
    <3>2. f \in Injection(Remote', Hosts)
      BY <3>1, JobHostOf DEF RemoteInv, Injection, IsInjective
    <3>3. Cardinality(Remote') <= Cardinality(Hosts)
      BY <3>2, KeysAreFinite, FS_Injection
    <3>4. Cardinality(Remote') \in Nat /\ Cardinality(Hosts) \in Nat
      BY <3>1, KeysAreFinite, FS_CardinalityType
    <3> QED BY <3>3, <3>4 DEF RemoteInv
  <2> QED BY <2>1, <2>2, <2>3, <2>4 DEF TypeOK
<1>2. ASSUME NEW j \in chQuery, JobTaken(j) PROVE TypeOK'
  <2>1. Cardinality(chQuery \ {j}) <= QueryCap
    <3>1. IsFiniteSet(chQuery) /\ Cardinality(chQuery) \in Nat
      BY JobsAreFinite DEF TypeOK
    <3>2. Cardinality(chQuery \ {j}) = Cardinality(chQuery) - 1
      BY <3>1, FS_RemoveElement
    <3> QED BY <3>1, <3>2, CapsAreNat DEF TypeOK
  <2> QED BY <1>2, <2>1 DEF JobTaken, TypeOK, JobType, At
<1>3. ASSUME NEW j \in Jobs, JobStepped(j) PROVE TypeOK'
  <2>1. chResult' \subseteq Jobs /\ Cardinality(chResult') <= ResultCap
    <3>1. IsFiniteSet(chResult) /\ Cardinality(chResult) \in Nat /\ chResult \subseteq Jobs
      BY JobsAreFinite DEF TypeOK
    <3>2. CASE UNCHANGED chResult
      BY <3>2 DEF TypeOK
    <3>3. CASE chResult' = chResult \cup {j} /\ Cardinality(chResult) < ResultCap
      BY <3>1, <3>3, CardOfMore, CapsAreNat
    <3> QED BY <1>3, <3>2, <3>3 DEF JobStepped
  <2> QED BY <1>3, <2>1 DEF JobStepped, TypeOK, JobType, At
<1>4. CASE ParReturns \/ StartPar \/ MergeEnds \/ Return \/ Timeout \/ UNCHANGED vars
  <2>1. UNCHANGED <<conf, cfg, repos, valid, feeder, todo, picked, cur, countBe, metaHost, chQuery,
                    job, chResult, update, resp, died, wanted, merged, others>>
    BY <1>4 DEF ParReturns, StartPar, MergeEnds, Return, Timeout, vars, input, feed, main
  <2>2. /\ ctx' \in {"live", "done"} /\ pc' \in {"new", "merge", "update", "done"}
        /\ closed' \in BOOLEAN
    BY <1>4 DEF ParReturns, StartPar, MergeEnds, Return, Timeout, vars, main, TypeOK
  <2> QED BY <2>1, <2>2 DEF TypeOK
<1>5. CASE Reject
  <2>1. resp' \in [num : Nat, err : BOOLEAN, errors : SUBSET Labels]
    BY <1>5 DEF Reject, TypeOK
  <2> QED BY <1>5, <2>1 DEF Reject, input, feed, TypeOK
<1>6. ASSUME NEW j \in chResult, Merge(j) PROVE TypeOK'
  <2>1. j \in Jobs /\ job[j].res \in Result
    BY DEF TypeOK
  <2>2. resp' \in [num : Nat, err : BOOLEAN, errors : SUBSET Labels]
    <3>1. job[j].res.num \in Nat /\ job[j].res.errs \subseteq Labels
      BY <2>1 DEF Result
    <3>2. resp.num \in Nat /\ resp.errors \subseteq Labels
      BY DEF TypeOK
    <3>3. resp' = [resp EXCEPT !.num = resp.num + job[j].res.num,
                               !.errors = resp.errors \cup job[j].res.errs]
      BY <1>6 DEF Merge
    <3>4. resp' = [num |-> resp.num + job[j].res.num, err |-> resp.err,
                   errors |-> resp.errors \cup job[j].res.errs]
      BY <3>3 DEF TypeOK
    <3>5. resp.num + job[j].res.num \in Nat /\ resp.err \in BOOLEAN
          /\ resp.errors \cup job[j].res.errs \in SUBSET Labels
      BY <3>1, <3>2 DEF TypeOK
    <3> QED BY <3>4, <3>5
  <2>3. update' \in [Keys -> States]
    BY <1>6, <2>1 DEF Merge, TypeOK, Result
  <2>4. Cardinality(chResult') <= ResultCap
    <3>1. IsFiniteSet(chResult) /\ Cardinality(chResult) \in Nat
      BY JobsAreFinite DEF TypeOK
    <3>2. Cardinality(chResult \ {j}) = Cardinality(chResult) - 1
      BY <3>1, FS_RemoveElement
    <3> QED BY <1>6, <3>1, <3>2, CapsAreNat DEF Merge, TypeOK
  <2>5. ctx' \in {"live", "done"} /\ pc' \in {"new", "merge", "update", "done"}
    BY <1>6 DEF Merge, TypeOK
  <2> QED BY <1>6, <2>1, <2>2, <2>3, <2>4, <2>5 DEF Merge, TypeOK, input, feed
<1>7. ASSUME NEW k \in Keys, UpdateRepo(k) \/ UserDelete(k) \/ IndexStarts(k) PROVE TypeOK'
  <2>1. Updated(k) \in States
    BY DEF Updated, States, TypeOK
  <2> QED BY <1>7, <2>1 DEF UpdateRepo, UserDelete, IndexStarts, TypeOK, States, input, feed, main
<1>8. CASE MetaRace
  BY <1>8 DEF MetaRace, TypeOK, input, feed, main
<1> QED BY <1>1, <1>2, <1>3, <1>4, <1>5, <1>6, <1>7, <1>8, Steps
-----------------------------------------------------------------------------
\* Inv, from which the properties below follow, holds in every reachable state.
THEOREM InvHolds == Spec => []Inv
<1>1. Init => Inv
  <2> SUFFICES ASSUME Init PROVE Inv
    OBVIOUS
  <2>1. Queued = {} /\ Remote = {} /\ Running = {}
    BY DEF Init, Queued, Remote, Running
  <2>2. Cardinality({}) = 0 /\ SumFunctionOnSet(NumOf(job), {}) = 0
    BY FS_EmptySet, SumEmpty
  <2>3. TypeOK
    <3>1. Cardinality(Hosts) \in Nat
      BY KeysAreFinite, FS_CardinalityType
    <3>2. conf \in Setups /\ conf.keys \subseteq Keys
      BY SetupsAreSetups DEF Init
    <3>3. NoRepos \in [Keys -> States]
      BY DEF NoRepos, States
    <3>4. job \in [Jobs -> [at : {"none", "run", "check", "send", "end"}, res : Result]]
      BY ResultsAreResults DEF Init
    <3>5. resp \in [num : Nat, err : BOOLEAN, errors : SUBSET Labels]
          /\ repos \in [Keys -> States] /\ countBe \in 0 .. Cardinality(Hosts)
      BY <3>1 DEF Init, States
    <3>6. Cardinality(chQuery) <= QueryCap /\ Cardinality(chResult) <= ResultCap
      BY <2>2, CapsAreNat DEF Init
    <3> QED BY <3>2, <3>3, <3>4, <3>5, <3>6 DEF Init, TypeOK
  <2>4. ShareInv /\ RemoteInv
    <3>1. conf.maxBe \in Nat
      BY SetupsAreSetups DEF Init
    <3> QED BY <2>1, <2>2, <3>1 DEF Init, ShareInv, RemoteInv
  <2>5. FlowInv
    BY DEF Init, FlowInv
  <2>6. RespInv /\ StoreInv
    BY <2>2 DEF Init, RespInv, StoreInv, NoRepos
  <2>7. BadInv
    BY JobHostOf DEF Init, BadInv, NoResult, NoRepos
  <2> QED BY <2>3, <2>4, <2>5, <2>6, <2>7 DEF Inv
<1>2. Inv /\ [Next]_vars => Inv'
  <2> SUFFICES ASSUME Inv, [Next]_vars PROVE Inv'
    OBVIOUS
  <2>1. ShareInv' /\ RemoteInv'
    BY Steps, FeederShares, OthersShare DEF Inv
  <2> QED BY <2>1, TypeKept, FlowKept, RespKept, BadKept, StoreKept DEF Inv
<1> QED BY <1>1, <1>2, PTL DEF Spec

\* Every variable keeps its type: neither channel has more in it than there
\* is room for, and no more backends are asked than there are hosts.
THEOREM TypeCorrect == Spec => []TypeOK
<1>1. Inv => TypeOK
  BY DEF Inv
<1> QED BY <1>1, InvHolds, PTL

\* A query asks no more backends than it may, whatever the order in which the
\* feeder takes the hosts, and no two of its jobs search one repo.
THEOREM BackendLimitHolds == Spec => []BackendLimit
<1>1. Inv => BackendLimit
  <2> SUFFICES ASSUME Inv PROVE BackendLimit
    OBVIOUS
  <2>1. Remote = {j \in {i \in Jobs : job[i].at # "none"} \cup chQuery : ~Local(j)}
    BY DEF Remote, Queued
  <2> QED BY <2>1 DEF Inv, ShareInv, RemoteInv, BackendLimit, Queued
<1> QED BY <1>1, InvHolds, PTL

\* When the result channel was closed on a live context every job is merged,
\* and the response has all of their matches and errors, for every bad repo
\* one under its key.
THEOREM MergedCompleteHolds == Spec => []MergedComplete
<1>1. Inv => MergedComplete
  <2> SUFFICES ASSUME Inv, pc = "update", valid, ctx = "live"
               PROVE  /\ UNION merged = wanted \ picked
                      /\ conf.maxBe = 0 => picked = {}
                      /\ resp.num = SumFunctionOnSet([j \in Jobs |-> job[j].res.num], merged)
                      /\ \A j \in merged :
                           /\ job[j].res.errs \subseteq resp.errors
                           /\ \A k \in j : job[j].res.repos[k] = "ERROR" => k \in resp.errors
    BY DEF MergedComplete
  <2>1. chResult = {} /\ feeder = "end" /\ chQuery = {} /\ Running = {}
    BY DEF Inv, FlowInv
  <2>2. \A j \in Jobs : job[j].at # "none" <=> j \in merged
    BY <2>1 DEF Inv, FlowInv, Running, TypeOK
  <2>3. Queued = merged
    BY <2>1, <2>2 DEF Queued, Inv, TypeOK
  <2>4. cur = {} /\ (conf.maxBe = 0 => picked = {})
    BY <2>1 DEF Inv, ShareInv, AtLimit
  <2>5. \A j \in merged : /\ job[j].res.errs \subseteq resp.errors
                          /\ \A k \in j : job[j].res.repos[k] = "ERROR" => k \in resp.errors
    BY DEF Inv, RespInv, BadInv, TypeOK
  <2> QED BY <2>3, <2>4, <2>5 DEF Inv, ShareInv, RespInv, NumOf
<1> QED BY <1>1, InvHolds, PTL

\* When a search has returned, the store follows its results for the repos
\* that nobody else touched.
THEOREM StoreFollowsResultsHolds == Spec => []StoreFollowsResults
<1>1. Inv => StoreFollowsResults
  <2> SUFFICES ASSUME Inv, pc = "done", NEW j \in merged, NEW k \in j, k \notin others
               PROVE  /\ job[j].res.repos[k] = "OK" => repos[k] = "OK"
                      /\ (job[j].res.repos[k] \notin {"OK", "none"} /\ cfg) => repos[k] = "none"
    BY DEF StoreFollowsResults
  <2>1. k \in Keys
    BY JobHostOf DEF Inv, TypeOK
  <2>2. update[k] = "none"
    BY <2>1 DEF Inv, StoreInv, NoRepos
  <2> QED BY <2>2 DEF Inv, StoreInv, Follows
<1> QED BY <1>1, InvHolds, PTL
=============================================================================
