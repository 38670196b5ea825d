------------------------------- MODULE Finder -------------------------------
(***************************************************************************)
(* One call of the finder (afind/find.go): Find queues one job for every   *)
(* index shard of the repos it is asked about, par runs the jobs a few at  *)
(* a time, each job sends the file names that match into a channel, and    *)
(* Find collects them until the channel is closed.  The context may be     *)
(* done, and repos may be deleted, at any moment.                          *)
(***************************************************************************)
EXTENDS Integers, FiniteSets

CONSTANTS
  RepoKeys,         \* RepoKeys of the query
  NoKey,            \* not a key
  Shards,           \* index shards of each repo
  Names,            \* file names that the expression can match
  ShardCap,         \* room in chShards (chQuery; 100 in the code)
  NameCap,          \* room in chNames (chResult; 10 in the code)
  ShardConcurrency  \* jobs that par runs at once (4 in the code)

ASSUME NoKeyIsNone == NoKey \notin RepoKeys
ASSUME ShardsAreFinite == IsFiniteSet(RepoKeys) /\ IsFiniteSet(Shards)
ASSUME ShardCapsAreNat == ShardCap \in Nat /\ NameCap \in Nat \ {0}
ASSUME ConcurrencyIsPositive == ShardConcurrency \in Nat \ {0}

VARIABLES
  store,        \* keys that are in the store
  compiles,     \* does the query have keys, and an expression that compiles?
  findCtx,      \* the context: "live" or "done"
  findPc,       \* where Find is
  keysLeft,     \* keys it has still to look up
  cur,          \* the key whose shards it is queueing
  chShards,     \* jobs in the channel
  shard,        \* each job: where it is, names it has found and not yet sent
  chNames,      \* names in the result channel, each with its job
  namesClosed,  \* is chNames closed?
  result,       \* the FindResult: names with their jobs, NumMatches, errors
  findPanicked  \* was there a send on a closed channel?

\* History variable: what the jobs found.
VARIABLE found

findVars == <<store, compiles, findCtx, findPc, keysLeft, cur, chShards,
              shard, chNames, namesClosed, result, findPanicked, found>>

ShardJobs == RepoKeys \X Shards
NameMatch == ShardJobs \X Names

FindTypeOK ==
  /\ store \subseteq RepoKeys
  /\ compiles \in BOOLEAN
  /\ findCtx \in {"live", "done"}
  /\ findPc \in {"new", "fill", "await", "done"}
  /\ keysLeft \subseteq RepoKeys
  /\ cur \in RepoKeys \cup {NoKey}
  /\ chShards \subseteq ShardJobs /\ Cardinality(chShards) <= ShardCap
  /\ shard \in [ShardJobs -> [at : {"none", "open", "check", "send", "end"},
                              left : SUBSET Names]]
  /\ chNames \subseteq NameMatch /\ Cardinality(chNames) <= NameCap
  /\ namesClosed \in BOOLEAN
  /\ result \in [matches : SUBSET NameMatch, num : Nat, missing : SUBSET RepoKeys,
                 err : BOOLEAN]
  /\ findPanicked \in BOOLEAN
  /\ found \subseteq NameMatch

FindInit ==
  /\ store \in SUBSET RepoKeys
  /\ compiles \in BOOLEAN
  /\ findCtx = "live"
  /\ findPc = "new"
  /\ keysLeft = RepoKeys
  /\ cur = NoKey
  /\ chShards = {}
  /\ shard = [j \in ShardJobs |-> [at |-> "none", left |-> {}]]
  /\ chNames = {}
  /\ namesClosed = FALSE
  /\ result = [matches |-> {}, num |-> 0, missing |-> {}, err |-> FALSE]
  /\ findPanicked = FALSE
  /\ found = {}

FindUp == ~findPanicked
ShardsRunning == {j \in ShardJobs : shard[j].at \in {"open", "check", "send"}}
env == <<store, compiles, findCtx, findPanicked>>
filling == <<keysLeft, cur>>
answer == <<result, found>>
-----------------------------------------------------------------------------
\* No keys, no expression, or one that does not compile.
FindRejects ==
  /\ FindUp /\ findPc = "new"
  /\ ~compiles
  /\ result' = [result EXCEPT !.err = TRUE]
  /\ findPc' = "done"
  /\ UNCHANGED <<env, filling, chShards, shard, chNames, namesClosed, found>>

Accept ==
  /\ FindUp /\ findPc = "new"
  /\ compiles
  /\ findPc' = "fill"
  /\ UNCHANGED <<env, filling, chShards, shard, chNames, namesClosed, answer>>

\* The repo is gone: its error.
GetNothing(k) ==
  /\ FindUp /\ findPc = "fill" /\ cur = NoKey
  /\ k \in keysLeft \ store
  /\ keysLeft' = keysLeft \ {k}
  /\ result' = [result EXCEPT !.missing = @ \cup {k}]
  /\ UNCHANGED <<env, findPc, cur, chShards, shard, chNames, namesClosed, found>>

\* The repo is there.
GetRepo(k) ==
  /\ FindUp /\ findPc = "fill" /\ cur = NoKey
  /\ k \in keysLeft \cap store
  /\ keysLeft' = keysLeft \ {k}
  /\ cur' = k
  /\ UNCHANGED <<env, findPc, chShards, shard, chNames, namesClosed, answer>>

\* chShards <- shardFind(...): waits while the channel is full, and nobody
\* takes from it until Find has queued every job.
Queue(s) ==
  /\ FindUp /\ findPc = "fill" /\ cur # NoKey
  /\ <<cur, s>> \notin chShards
  /\ Cardinality(chShards) < ShardCap
  /\ chShards' = chShards \cup {<<cur, s>>}
  /\ UNCHANGED <<env, findPc, filling, shard, chNames, namesClosed, answer>>

NextKey ==
  /\ FindUp /\ findPc = "fill" /\ cur # NoKey
  /\ \A s \in Shards : <<cur, s>> \in chShards
  /\ cur' = NoKey
  /\ UNCHANGED <<env, findPc, keysLeft, chShards, shard, chNames, namesClosed, answer>>

\* close(chShards), and par is started.
StartShards ==
  /\ FindUp /\ findPc = "fill" /\ cur = NoKey
  /\ keysLeft = {}
  /\ findPc' = "await"
  /\ UNCHANGED <<env, filling, chShards, shard, chNames, namesClosed, answer>>

-----------------------------------------------------------------------------
\* par takes a job.
ShardStarts(j) ==
  /\ FindUp /\ findPc = "await" /\ ~namesClosed
  /\ j \in chShards
  /\ Cardinality(ShardsRunning) < ShardConcurrency
  /\ chShards' = chShards \ {j}
  /\ shard' = [shard EXCEPT ![j].at = "open"]
  /\ UNCHANGED <<env, findPc, filling, chNames, namesClosed, answer>>

\* The index does not open: par gets the error, and no one else.
ShardOpenFails(j) ==
  /\ FindUp /\ shard[j].at = "open"
  /\ shard' = [shard EXCEPT ![j].at = "end"]
  /\ UNCHANGED <<env, findPc, filling, chShards, chNames, namesClosed, answer>>

\* The index opens, and these names match.
ShardOpens(j, names) ==
  /\ FindUp /\ shard[j].at = "open"
  /\ shard' = [shard EXCEPT ![j] = [at |-> "check", left |-> names]]
  /\ found' = found \cup ({j} \X names)
  /\ UNCHANGED <<env, findPc, filling, chShards, chNames, namesClosed, result>>

\* The context is looked at before each name.
ShardChecks(j) ==
  /\ FindUp /\ shard[j].at = "check"
  /\ shard' = [shard EXCEPT ![j].at = IF shard[j].left = {} \/ findCtx = "done"
                                   THEN "end" ELSE "send"]
  /\ UNCHANGED <<env, findPc, filling, chShards, chNames, namesClosed, answer>>

\* results <- fnamerepo{...}: waits while the channel is full, and ends the
\* process if it is closed.
ShardSends(j, n) ==
  /\ FindUp /\ shard[j].at = "send"
  /\ n \in shard[j].left
  /\ namesClosed \/ Cardinality(chNames) < NameCap
  /\ IF namesClosed
       THEN findPanicked' = TRUE /\ UNCHANGED chNames
       ELSE chNames' = chNames \cup {<<j, n>>} /\ UNCHANGED findPanicked
  /\ shard' = [shard EXCEPT ![j] = [at |-> "check", left |-> @.left \ {n}]]
  /\ UNCHANGED <<store, compiles, findCtx, findPc, filling, chShards, namesClosed, answer>>

\* Mutant: par is done when no job is running.
ShardsDone_Idle == ShardsRunning = {}

\* Mutant: par is done only after a call in time.
ShardsDone_InTime == chShards = {} /\ ShardsRunning = {} /\ findCtx = "live"

\* DoWithContext returns after its jobs or with a done context.  Whether that
\* ends the call while jobs still run is for par to say.
ShardsDone == (chShards = {} /\ ShardsRunning = {}) \/ findCtx = "done"

\* It returns, and the goroutine closes chNames.
ShardsReturn ==
  /\ FindUp /\ findPc = "await" /\ ~namesClosed
  /\ ShardsDone
  /\ namesClosed' = TRUE
  /\ UNCHANGED <<env, findPc, filling, chShards, shard, chNames, answer>>

-----------------------------------------------------------------------------
\* for in := range chNames
Receive(m) ==
  /\ FindUp /\ findPc = "await"
  /\ m \in chNames
  /\ chNames' = chNames \ {m}
  /\ result' = [result EXCEPT !.matches = @ \cup {m}, !.num = @ + 1]
  /\ UNCHANGED <<env, findPc, filling, chShards, shard, namesClosed, found>>

\* Mutant: Find leaves the loop when its context is done.
NamesOver_WhenDone == (namesClosed /\ chNames = {}) \/ findCtx = "done"

\* The range over chNames ends.
NamesOver == namesClosed /\ chNames = {}

Finish ==
  /\ FindUp /\ findPc = "await"
  /\ NamesOver
  /\ findPc' = "done"
  /\ UNCHANGED <<env, filling, chShards, shard, chNames, namesClosed, answer>>

\* The caller's timeout passes, or doFind has enough matches.
FindCtxDone ==
  /\ FindUp /\ findCtx = "live"
  /\ findCtx' = "done"
  /\ UNCHANGED <<store, compiles, findPanicked, findPc, filling, chShards, shard,
                 chNames, namesClosed, answer>>

\* Someone deletes a repo.
Delete(k) ==
  /\ FindUp /\ k \in store
  /\ store' = store \ {k}
  /\ UNCHANGED <<compiles, findCtx, findPanicked, findPc, filling, chShards, shard,
                 chNames, namesClosed, answer>>

FindMain ==
  \/ FindRejects \/ Accept
  \/ \E k \in RepoKeys : GetNothing(k) \/ GetRepo(k)
  \/ \E s \in Shards : Queue(s)
  \/ NextKey \/ StartShards
  \/ \E m \in chNames : Receive(m)
  \/ Finish

ShardPar == ShardsReturn \/ \E j \in ShardJobs : ShardStarts(j)

ShardJob(j) ==
  \/ ShardOpenFails(j) \/ ShardChecks(j)
  \/ \E names \in SUBSET Names : ShardOpens(j, names)
  \/ \E n \in Names : ShardSends(j, n)

FindNext ==
  \/ FindMain \/ ShardPar \/ FindCtxDone
  \/ \E j \in ShardJobs : ShardJob(j)
  \/ \E k \in RepoKeys : Delete(k)

FindSpec == FindInit /\ [][FindNext]_findVars

\* Goroutines that can run do run, and the context is done in the end.
FindFairness ==
  /\ WF_findVars(FindMain) /\ WF_findVars(ShardPar) /\ WF_findVars(FindCtxDone)
  /\ \A j \in ShardJobs : WF_findVars(ShardJob(j))

FairFind == FindSpec /\ FindFairness

-----------------------------------------------------------------------------
\* PROPERTIES

\* Every repo Find was asked about has an answer, unless the context cut it
\* short: its error, or the names found in its shards, each counted once.
FoundComplete ==
  (findPc = "done" /\ compiles /\ findCtx = "live") =>
    /\ result.matches = found
    /\ result.num = Cardinality(found)
    /\ \A k \in RepoKeys : \/ k \in result.missing
                       \/ \A s \in Shards : shard[<<k, s>>].at = "end"

\* Find returns, whatever fails and whenever its context is done.  (A send
\* on the closed channel, after par returned early, ends the process.)
FindReturns == (findPc = "new") ~> (findPc = "done" \/ findPanicked)

\* A job that was started ends, also when the result channel is full and the
\* context done: Find reads on until the channel is closed.
JobsEnd ==
  \A j \in ShardJobs : (shard[j].at = "open") ~> (shard[j].at = "end" \/ findPanicked)
=============================================================================
