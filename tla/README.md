# A TLA+ model of afind

afind is a distributed code search service. A daemon, `afindd`, keeps a store
of *repos* (indexed source trees), indexes new ones, and answers searches for
text (`search`) and for file names (`find`), over its own repos and over those
of other daemons. These modules model the daemon's concurrent core, from the
byte buffer of the grep to several daemons that relay requests to each other.
TLC checks them on small instances, and TLAPS proves all of their safety
properties for every size.

## 1. The system

| part | source | state | operations |
|---|---|---|---|
| repo store | `afind/db.go` | map of key to repo, RW mutex, JSON file | Set, Delete, Get, ForEach, flush, load |
| index service | `afind/api/index.go` | marker in the store, context, result channel | doIndex, localIndex, remoteIndex |
| indexer | `afind/index.go` | shard writers, names channel, counts channel | Index, scanner, indexShard |
| searcher | `afind/search.go` | shared repo object, result channel, waitingFor | Search, one goroutine per shard, Update |
| grep | `afind/grepper.go` | one-megabyte buffer, line number, matches | search, reader, getPreCtx, getPostCtx |
| finder | `afind/find.go` | job channel (100), result channel (10) | Find, shardFind |
| search service | `afind/api/search.go` | job and result channels, repos to write back | doSearch, getSearchQueries, localSearch, remoteSearch |
| find service | `afind/api/find.go` | job and result channels | doFind, getFindRequests, localFind, remoteFind |
| repos service | `afind/api/repos.go` | none of its own | Get, GetAll, Delete |
| repo metadata | `afind/repo.go` | a repo's state, host and fields | Matches, MatchesRegexp, ReposMatchingMeta |
| file system walk | `walkablefs`, `afind/path_matcher.go`, `afind/excludes.go` | none of its own | Walk, MatchFile |
| servers, daemon | `afind/api/*server.go`, `cmd/afindd` | listener, quit channel, signal | Serve, Quit, Close, main |
| counters | `counters` | map, four channels | Inc, Get, GetAll, Close, loop |
| client | `cmd/afind` | none of its own | index, search, repos |
| others | `errs`, `stopwatch`, `flags`, `utils`, `afind/config.go` | see section 8 | |

How they interact. The three services run a goroutine per request. Each
builds *jobs*, hands them through a channel to the `par` library, which runs a
few at a time under a context with a timeout, and merges what the jobs send
on a result channel that is closed when par returns. A local job calls the
indexer, searcher or finder of the same process; a remote one calls another
daemon by RPC and gives up when the context is done. All of them read and
write the one store, and the searcher also changes repo objects it got from
the store in place.

What is hard here:

* *interleavings*: Get and Set of the store are separate, so requests for one
  key race; shard goroutines share a repo and, on one path, their caller's
  result; ForEach iterates without the mutex;
* *timeouts*: a context may end between any two steps; a goroutine looks at
  it once and then sends, on a channel its reader may have closed;
* *stale knowledge*: a search writes back what it learned at its beginning;
* *relays*: a daemon acts on what others told it of a repo, which may have
  been deleted, lost or built anew since, and two requests can cross;
* *shutdown*: who takes the token that says stop, and who still sends on a
  channel that was closed;
* *failure*: files that do not open, flushes that fail, backends that cannot
  be reached, an exit in the middle of a flush or of an index request;
* *bounded channels*: who waits for whom when one is full;
* *offsets*: lines across the edge of a buffer.

`PROJECT.json` lists the hazards one by one, with the properties that cover
them.

## 2. Modules

| module | models | composed of / used by |
|---|---|---|
| `PersistentMap` | what the store promises: a map with one saved copy | abstract |
| `RepoStore` | the store's calls, step by step, with disk faults and exits | implements `PersistentMap` |
| `RepoStoreProofs` | theorems on `RepoStore` | |
| `IndexApi` | doIndex for any number of requests | store operations are atomic, as `RepoStore` shows |
| `IndexApiProofs` | theorems on `IndexApi` | |
| `Indexer` | Index: scan, feeder, shard goroutines, result | its results are `IndexApi`'s `LocalResults` |
| `IndexerProofs` | theorems on `Indexer` and `Walker` | |
| `Searcher` | Search of one repo | its outcomes are `SearchApi`'s `LocalReturns` |
| `SearcherProofs` | theorems on `Searcher` and `GrepReader` | |
| `GrepReader` | the reader of one file, byte by byte | its outcomes are `Searcher`'s `Grep` |
| `Finder` | Find over several repos | its outcomes are `FindApi`'s `LocalReturns` |
| `SearchApi` | doSearch with feeder, par, jobs, merge, write-back | |
| `SearchApiProofs` | theorems on `SearchApi` | |
| `FindApi` | doFind with feeder, par, jobs, merge | |
| `FindProofs` | theorems on `Finder` and `FindApi` | |
| `RepoMeta` | which repos a query asks for | operators of `FindApi` |
| `Walker` | the walk of a directory tree, with the excluded names | operators of `Indexer` |
| `Cluster` | index and search requests through several daemons, and their stores | a frame is one doIndex (`IndexApi`) or doSearch (`SearchApi`) |
| `Counters` | the counter map and its loop goroutine | |
| `RpcServer` | the RPC server from Listen to Close | |
| `DaemonProofs` | theorems on `Cluster`, `Counters` and `RpcServer` | |
| `SumTheorems` | sums over finite sets, the least of a set of numbers | lemmas of the proof modules |
| `MC*` | instances for TLC: trees, hosts, queries | |

Conventions. One action is one step between two places where another
goroutine can interfere: a store operation, a channel operation, a look at
the context, an unsynchronised write. `pc`, `at`, `worker` say where a
goroutine is. Definitions named `X_Something` with a comment beginning
"Mutant:" are wrong variants of `X`; each shows that some property notices
the mistake it describes, and no specification uses them.

### State and actions against the code

* `RepoStore`. `R` is `d.R`; `file` is what the backing file would load as;
  `lock` is the mutex. Set and Delete are `Call`, `Lock`, `Mutate`, then the
  deferred flush (`FlushNothing`, or `FlushOpen` with its truncation and
  `FlushEncode`, each of which may fail with the error dropped), then
  `Unlock`. `ForEachKey` takes a key with no lock held, `ForEachGet` waits
  for the mutex and hands the repo to the callback, which goes on
  (`ForEachMore`) or stops. A range that a write has met (`raced`) is a data
  race: it may produce any key, also twice, and end with keys left out. `Exit`
  and `Start` are the process.
* `IndexApi`. A request is `Arrive`, then `ReturnExisting`, `RejectInvalid`
  or `Miss`; `SetMarker` is a store operation of its own after `Miss`, which
  is the race. The worker returns, looks at its context and drops or sends.
  `ParReturns` closes the channel; the three `Select` actions are the select
  (any ready case may be taken); `CleanupGet` and `CleanupDelete` are the
  deferred function. Users delete; a search holds the repo it found
  (`SearchPicks`), may condemn it (`SearchFails`) and writes it back at its end
  (`SearchWritesBack`), whatever is under the key by then; the process may exit.
* `Indexer`, `Walker`. `Scan` adds the listed files that are there and what
  the walks find when some calls of Lstat and ReadDir fail (`Found`). `Walk` is
  the recursion of the code, as a recursive function on the tree; `Below` and
  `LostToLstat` say without recursion what it should find. `Feed` fills the names
  channel, each shard goroutine takes, checks, adds or passes over; `Report`
  and `Send` are the final select; `Sum` and `Flush` finish the repo;
  `Deliver` is localIndex's own look at the context. Names and counts are
  bags, since a name can come twice.
* `Searcher`. `obj` is the repo pointer a search holds: its state changes
  under everybody who holds it. `MarkBad` and `Condemn` are the two writes of
  a shard whose index is gone. `ReportLate` is the unsynchronised write to
  the caller's `Errors`; `Race` is the outcome the runtime gives when two
  such writes meet.
* `GrepReader`. Files are sequences over a newline, a byte that matches and
  one that does not. `Read` is `io.ReadFull` with its end-of-file and failure
  cases, `MatchLine` one round of the inner loop, `NextChunk` the copy of the
  rest to the front. The expression takes a byte, so that the branch for an
  empty match (line 187), which is in the model, is not taken. `Line`,
  `LineStart`, `Matching` are the reference.
* `Cluster`. One key, several daemons; `calls[s]` is the chain of frames of a
  request, each one handler on one daemon. `IndexMark`, `IndexBuilt`,
  `IndexAnswered` and `SearchWrites` are the writes to a store, `Relay` calls
  the next daemon; a frame whose caller gave up goes on alone (`Orphan`). A
  host name is a daemon's own, "localhost", or an `Alias` that dials a daemon
  which does not know it (an address, another DNS name: `isLocal`).
* `Counters`. The three selects of the loop are `LoopQuit`, `LoopInc` and
  `LoopRead`; Inc and Close are handed over on unbuffered channels, so the
  loop's step is also the caller's. Counters wrap at `2^Width`. A caller makes
  one call; a goroutine that calls again is another caller. So there are
  finitely many Incs, and that reads wait while Incs keep coming, which the
  code intends ("prioritise writes"), is not held against it.
* `RpcServer`. `closing[c]` is a call of Close: Quit starts a goroutine that
  sends a token (`QuitSends`) and takes one itself (`QuitTakes`), then the
  listener is closed. Serve takes a token only between two Accepts.
* `Finder`, `SearchApi`, `FindApi`. A job is a key and shard, or a set of keys
  of one host. `PickKey` selects repos, the `Queue` actions fill the job
  channel and wait when it is full, `ParReturns` closes the result channel.
  `SearchApi`'s `metaHost` is the `host` entry of the Meta map that all
  copies of a query share; `MetaRace`, in `FindApi` too, is the end of the
  process when the runtime notices the feeder write to that map while the
  client of a running job encodes it. A result of `SearchApi` has the labels of
  its errors: the keys of repos that are gone, bad or had a shard fail, and
  the host of a backend call that failed.

### par

`github.com/savaki/par` is not in the repository. The code needs to know
whether `DoWithContext` returns when the context is done although functions
it started are still running. If it does, a worker between its look at the
context and its send panics on the closed channel. The models allow both:

* in `Indexer` and `Finder` par may return early whenever the context is done,
  and a send after that ends the process (`panicked`); the properties hold
  either way;
* `IndexApi` and `FindApi` choose once, in their initial states, which of the
  two par does (`early`); `NoSendOnClosed` is what the index handler gets from
  a par that waits, `FindServiceReturns` says what each of them does to doFind,
  and everything else holds for both;
* `SearchApi` has it as the field `early` of a setup; it is TRUE in one of the
  three that `search_api` draws from.

What else is assumed of par: it starts a function only if there is room
(`Concurrency`), and returns once all have returned; it may report a done
context as an error or not (`Indexer`), and may or may not stop at a
function's error (`FindApi`).

## 3. Runs

All passing runs finish within about three minutes on two cores. A run that
checks two components which share no state (`search`, `find`, `daemon`) is
their sum: the initial state picks the one that runs, and the other stays in
an initial state.

| run | shows |
|---|---|
| `store` | two goroutines, two keys, any disk fault, any exit: the saved copy is current between calls (`FileIsCurrent`) and always some committed map (`FileIsACommit`); ForEach, although it ranges without the mutex, hands out finished writes only (`ForEachHandsOutCommitted`); every call returns (`CallsReturn`); refinement of `PersistentMap` (`IsPersistentMap`) |
| `index` | two requests for one key and a search of it: `MarkerHasHandler`, `RpcFailureLeavesNothing`, `OnlyStaleReplaces`, `NoSendOnClosed`; every request is answered (`EventuallyAnswered`) |
| `indexer` | a result delivered without an error is complete (`DeliveredIsComplete`) and final (`DeliveredIsFinal`); Index returns (`IndexReturns`); a walk of any directory, with any calls failing, misses a file only to those (`ScanFindsAll`) |
| `search` | a search returns the merge of every shard (`MergedComplete`), takes a repo whose index is gone out of service (`BadShardCondemnsRepo`), ends the process only by the write a shard makes after its context is done (`DiesOnlyOfLateWrite`), and returns until then (`ReturnsUnlessCancelled`); for every file of up to five bytes matches are found, whole, under their numbers (`FindsMatches`), what else is recorded is right but for the context after a match (`RecordsLines`), and the reader ends (`GrepEnds`) |
| `find` | every repo has its answer (`FoundComplete`); given room for the jobs, Find returns (`FinderReturns`) and its jobs end (`FinderJobsEnd`). The service answers in time for every repo asked for by key or metadata, with an error exactly when there is no result (`FindComplete`), and returns if par does not wait for a local Find that hangs, or none does (`FindServiceReturns`) |
| `search_api` | complete merge, with an error for every bad repo (`MergedComplete`), backend limit (`BackendLimit`), write-back (`StoreFollowsResults`); a search returns unless a local one outlives the context or the process ends of the Meta map's race (`ReturnsOrLocalStuck`) |
| `daemon` | a read of a counter misses no increment that had returned and adds only what is under way (`ReadsAreCurrent`), calls return until the counters are closed (`CallsReturnOrClosed`); a Close of the RPC server that returns has stopped Serve (`CloseStopsServe`), the tokens sent and taken add up to the Quits that wait (`TokensAddUp`), and at most one Close does not return (`AtMostOneCloseHangs`) |
| `cluster` | index requests are relayed once (`IndexProxiedOnce`); searches too, as long as no store has lost a good repo (`HopsNeedLoss`); a good repo, wherever it is, was built by a daemon its host names (`OkRepoIsBuilt`); crossing index requests end without a timeout (`IndexEnds`) |

`TypeOK` of the store is checked with them. In the other modules it documents
what the variables hold; where there are proofs it is part of the inductive
invariant. Four runs must be found violated. Their properties state what the
repository itself says of the program, and the counterexample is what the code
does instead:

| run | counterexample |
|---|---|
| `store_restart` (`AckedSurvives`) | exit between truncation and rewriting: the daemon starts empty |
| `search_cancel` (`ReturnsOnceShardsEnd`) | `break` leaves the select, not the loop: the cancelled search spins |
| `find_full` (`FindReturns`) | one job more than the channel holds: Find never returns |
| `cluster_hops` (`SearchProxiedOnce`) | a front end knows a repo to be on B, where it was deleted and then indexed for C: the search goes on from B to C |

### Other divergences met while modelling

These follow from the models as they stand, and the properties above are
worded so as to leave room for them; none has a run of its own.

* `afind/db.go:127`: ForEach ranges over the map without the mutex. When a Set
  or Delete meets it, repos may be skipped or handed out twice, or the runtime
  ends the process; only what the callback gets of each is right.
* `afind/api/index.go:165`: a request that missed displaces with its marker a
  good repo that was put under the key since, while line 146 says "A repo
  cannot be updated or replaced". Either another request that had missed too
  stored it, or a search that had found it before it was deleted wrote it back
  (`afind/api/search.go:301`). `OnlyStaleReplaces` says that doIndex displaces
  a good repo in no other way.
* `afind/api/index.go:165`: the marker is saved like any repo, so after an exit
  the store holds an INDEXING repo ("currently indexing", `afind/repo.go:14`)
  that nobody indexes and that answers every later request for its key.
* `afind/api/index.go:149`: a request that meets a marker or a repo in ERROR is
  answered with it and no error; `afind/index.go:26` says that "an error is
  returned along with the existing Repo in the response".
* `afind/api/index.go:221`: a nil `*errs.StructError` in an `error` makes
  webIndex answer every successful run with status 500.
* `afind/search.go:305`: a shard goroutine deletes or overwrites what is under
  the key by then, also a new repo indexed since.
* `afind/search.go:213`: NumMatches counts context lines too; line 129 says it
  "does not include any lines included for context".
* `afind/index.go:114`: a file below two of the Dirs, or listed and below one,
  is indexed twice; line 101 means "to avoid duplicate indexing of files".
* `afind/index.go:261`: the error of the scan is overwritten by par's.
* `afind/index.go:241`: with `-index_in_repo=false` the directory of the index
  files is scanned instead of the query's Root.
* `afind/api/search.go:109`: the copies of a query share one Meta map, so the
  error of a backend may be put under another host's name; and the write may
  meet the encoding of a query that is being sent, for which the runtime can
  end the process. The same at `afind/api/find.go:225`.
* `afind/api/find.go:282`: a backend that cannot be dialled leaves no trace in
  the answer.
* `afind/api/find.go:151`: doFind reads until par returns, so that with a par
  that waits a local Find that hangs (`find_full`) keeps it from returning by
  its timeout.
* `afind/grepper.go:158`: a line as long as the buffer leaves no room to read
  into, and the reader's loop turns for ever.
* `afind/api/search.go:104`: at the backend limit the loop over all hosts ends,
  and local repos may go unsearched.
* `afind/api/search.go:301`: the write-back puts a repo back that a user deleted
  during the search, and removes the marker of an index request (line 303).
* `afind/api/search.go:280`: a cancelled local search that spins keeps doSearch
  from returning by its timeout.
* `afind/api/find.go:200`: the number of files wanted is taken as the limit on
  backend requests.
* `afind/api/index.go:149`: of two index requests that cross, each relayed to
  the daemon where the other one began, both are answered with an INDEXING
  repo and no error, and then both delete their markers: nothing is indexed.
* `afind/api/index.go:210`: a repo that a backend indexed for the host
  "localhost" is stored as it is by a front end that is told of it, which from
  then on takes it for its own, and condemns it at the first search. A backend
  that is asked under a name it does not know refuses, although it is the
  right one.
* `afind/api/search.go:90`: a backend that has no repo under a key answers with
  neither a repo nor an error, and the front end keeps its own.
* `afind/config.go:21`: MaxSearchRepo, "Maximum number of Repo to consider per
  search", is read by nothing; genGetReqpos passes 0 for any.
* `afind/repo.go:130`: a filter "!" has the empty expression, so that it passes
  only repos without the field.
* `walkablefs/walker.go:76`: the failure of one Lstat ends the walk of its
  directory and is not returned; the entries behind it go unindexed.
* `afind/api/server.go:32`: if Serve takes the token that a Close put into the
  channel, that Close waits for another one's.
* `counters/counters.go:93`: reads queued when the counters are closed never
  return; increments and reads after that panic, and a second Close waits.
* `cmd/afind/afind.go:377`: `repos` loops over all its arguments, flags too, as
  keys, and reports only the last one's error.
* `afind/grepper.go:294`: getPostCtx looks for the newline from `chunkstart` in
  every round, so the lines recorded after a match are pieces of them; and
  line 202 asks for three lines of context whatever the query asks for.

## 4. Bounds, and why they are enough

* `RepoStore`: two goroutines, two keys, one value (a key has it or has not).
  A mutex protocol breaks with two; two keys let an iteration stand between a
  changed and an unchanged one.
* `IndexApi`: two requests, one search and one key. Requests for different keys
  share nothing; the theorems cover any number of each. One exit (`exited`). The requests
  are for another daemon's repo, whose results include a local repo's.
* `Indexer`: two shards, files that lie under nested directories, one listed
  file, `ChanCap` 1 for 100. `MaxLines`, `MaxNames`, `MaxSize` bound the data.
* `Walker`: every walk of the instance's tree (nested directories, an excluded
  file and an excluded directory, a special file), for every set of calls that
  fail, is checked in the states where Index is about to scan.
* `Cluster`: three daemons, one of them behind an alias, two requests at a time,
  three in all (`MaxCalls`), a delete (`MaxDeletes`) and chains of three
  (`MaxFrames`): enough for a search to be relayed twice, for requests to
  cross, and for an answer to come too late. An index request that went
  through three daemons would be within the bound.
* `Counters`: three calls, two counters of two bits, queues of one place. A
  `Close` of the RPC server by two others besides Serve's and main's; delays
  from 3 to 20 stand for 3 ms to 5 s.
* `Searcher`: one search of two shards and two repo objects, so that the key
  is re-indexed under it.
* `Finder`, `SearchApi`, `FindApi`: channels of one place instead of 100 and
  10 and a concurrency of two, so that every channel is full and every job
  waits in some behaviour; up to four keys on three hosts, one of them local.
  (`Finder`'s job channel has room for the jobs, but for `find_full`.)
* `SearchApi` draws one of three setups: a limit of one backend with a store
  that others change; two local repos, with two matches enough; and a par that
  returns early, where good repos may have errors too (`faults`). What others do
  to a repo before it is picked is one of the
  initial states, so changes are of picked repos.
* `GrepReader`: a buffer of three bytes and files of up to five, so that lines
  are shorter than, as long as, and longer than the buffer, a match has
  neighbours on both sides in one buffer, and a file takes more than one. On a
  line longer than the buffer the code's loop does not end, since there is no
  room to read into; `GrepEnds` is about the others (`LinesFit`).

Deadlock checking is off (`CHECK_DEADLOCK FALSE`) where a finite number of
requests come to their end; the store, which serves for ever, has it on.
No run uses symmetry, since most check liveness.

## 5. Fairness

Goroutines that can run do run: weak fairness of every goroutine's steps,
because the Go scheduler runs every runnable goroutine. Strong fairness only
for a caller that waits for the store's mutex, because `sync.RWMutex` queues
its waiters. Calls of another daemon return because their client also waits
for the context, and the context of a service ends because it has a timeout.
`Searcher` and `Indexer` do not assume that the context ever ends.
`SearchApi` does not assume that a local search returns once its context is
done, since `search_cancel` shows that it need not, and `FindApi` does not
assume that a local Find returns at all, because of `find_full`. Nothing is
assumed of a par that waits but that it returns after its functions have. A
ForEach's range ends although writers meet it (strong fairness of
`ForEachEnd`): it goes once over the buckets that the map has. `Cluster` assumes that the
steps of doIndex are taken and that a daemon which answers is heard
(`Progress`), and nothing of timeouts, lost answers, clients or users. In
`daemon` the loop, the callers, Serve and the Closes run, and Accept returns
from a closed listener; connections, errors of Accept and other closers come
or do not.

## 6. Proofs

`RepoStoreProofs` (for all `Keys`, `Repos`, `Procs`):

* `TypeCorrect`.
* `FileIsCurrentHolds`, `FileIsACommitHolds`. Neither is inductive. `MutexInv`
  says that a goroutine between its Lock and Unlock is the one `lock` names;
  `SaveInv` ties `file` to `R` and `acked` by where that one writer is: before
  its mutation both are the saved map, between truncation and encoding the
  file is not intact, after the encoding the file is `R`. With them a step of
  anyone but the lock's owner cannot disturb the file, and a step of the owner
  goes from one line of `SaveInv` to the next.
* `ForEachHandsOutCommittedHolds`, an action property, from the same two: who
  gets the mutex for its Get finds no writer inside, where `SaveInv` has the map
  be what returned calls made it, and the file with it unless a flush failed.
* `Refinement`: `RepoStore` implements `PersistentMap` under the map `file`
  would load; lock, unlock and the iteration are stuttering steps.

`IndexApiProofs` (for all `Keys`, `Reqs`, and sets of `Queries`):

* `TypeCorrect`.
* `MarkerHasHandlerHolds`, from `EntryInv`: an entry belongs to the key of the
  request that stored it.
* `FailureIsClean`. A failed request may still be inside doIndex, with its
  marker in the store; `FailureInv` says what it can still have there at every
  place, `AnswerInv` what it has been told by then.
* `OnlyStaleReplacesHolds`, from `StaleInv`: a request past its Get that is
  not `stale` has seen no good repo put under its key since, by a request or a
  search. `HeldInv`: what a search holds is a good repo or one it has condemned,
  never a marker, so that it writes no marker back either.
* `NoSendOnClosedHolds`, from `ChannelInv`: while a worker exists its channel
  is open, given that par waits (`~early`).

`IndexerProofs` (for any tree, shards, requests and capacity of the channel):

* `DeliveredIsCompleteHolds`. The property is about the end, and says nothing
  of the names on their way. `FlowInv` does: on a live context a name that was
  scanned is with the feeder, in the channel, in a goroutine's hand, in a
  shard, or of a file that did not open, with its multiplicity; the hands and
  the shards are sums over the shards. `CountInv` has the goroutines' counts
  add up to what the shards have. `ShardInv` says that a goroutine leaves its
  loop on a live context only when feeder and channel are empty, and
  `AfterInv` that par returns then without an error only after all of them.
* `DeliveredIsFinalHolds`, an action property: `DoneInv` has all goroutines
  ended by then, also if the context is done later.
* `WalksAreWholeHolds` of `Walker`, for any tree and whatever calls fail, and
  with it `ScanFindsAllHolds`. The walk is a recursive function on the tree,
  which TLA+ defines as *some* function that satisfies the recursion, so that
  there is one has to be shown first: `WalkExists` puts it together from
  functions on parts of the tree that agree where they meet (`WalkUnique`),
  and `WalkUnfolds` is then the recursion as a fact. The rest is two arguments
  by a least counterexample. Going down (`WalkDown`), a walk that had gotten
  to n from d adds only regular files below d, and its error is that of a
  directory below d; there is a last node where that fails, and its entries
  refute it. Going up (`WalkUp`), a file that is not lost is added by the walk
  of each directory on the way from it to d.

`SearcherProofs` (for any searches, shards and repo objects):

* `MergedCompleteHolds`. `PhaseInv`: a search that waits has merged some set of
  shards, whose goroutines have ended, with the sum of their lines; the results
  it waits for are as many as the other shards.
* `BadShardCondemnsRepoHolds`, from `GoneInv`: a goroutine that found its index
  gone has, past each of its steps, done that step's part.
* `DiesOnlyOfLateWriteHolds`, from `PhaseInv` (nobody sends after Search has
  closed its channel) and `LateInv`.
* `FindsMatchesHolds`, `RecordsLinesHolds` and `GrepTypeCorrect` of
  `GrepReader`, for any file, size of the buffer and context asked for. The
  properties are about the end, where the buffer's place in the file is
  forgotten. `BufferInv` keeps it: the buffer is the piece of the file that
  ends at `pos`. `ChunkInv` has what is being worked on end with a newline, or
  with the file; `LineInv` has it begin with a line, and that line's number in
  `lineno`, counted by the newlines before it; `RestInv` says that nothing is
  left behind unseen. On these rest `MatchInv` and `RecordInv`, which say of
  the lines before `lineno` what the properties say of all. `LineInv` has a
  second case, which TLC found: after a last line that matches and has no
  newline, `lineno` is one too many, and there is nothing left to use it.

`SearchApiProofs` (for any repos, hosts, setups, capacities and concurrency):

* `BackendLimitHolds`. `ShareInv`: the jobs share out the keys picked, less
  what the feeder still has in hand. `RemoteInv`: `countBe` counts the remote
  jobs, which are for different hosts.
* `MergedCompleteHolds`, from `ShareInv`, `FlowInv` (on a live context a job
  that has ended has its result in the channel or in the response, and the
  channel is closed after the last), `RespInv` (the response is the sum) and
  `BadInv` (a bad repo in a result has its error there).
* `StoreFollowsResultsHolds`, from `StoreInv`: what was merged of a repo is
  still to be written, or the store has it, unless others changed it; and
  updateRepos has no repo that no result was merged of, so that the exception
  for bad ones (line 283) applies to none.

`FindProofs` (for any repos, shards, names, hosts, queries and capacities):

* `FoundCompleteHolds` of `Finder`. `FillInv`: a key is to be looked up, is
  missing, or has its shards in the job channel or beyond. `NameInv`: on a live
  context a name found is in its job, in the channel or in the result.
* `FindCompleteHolds` of `FindApi`. As in `SearchApi`, but doFind reads on
  after its context is done, so the parts of `FlowInv` hold for as long as
  nothing has given doFind a reason to answer less (`Intact`).

`DaemonProofs` (for any number of daemons, front ends and requests, chains of
any length, any callers and width of the counters):

* `IndexProxiedOnceHolds`. Inductive with `FrameOK`: a frame that was relayed
  serves a request that may not be relayed again.
* `HopsNeedLossHolds`. `LossInv`: until an OK repo was lost, a daemon that has
  index files has an OK repo in its store and takes it for its own, so that a
  search relayed to it ends there; `FrameOK` has relayed searches only on such
  daemons.
* `OkRepoIsBuiltHolds`, from `Built` of every store and every answer on its way.
* `ReadsAreCurrentHolds` of `Counters`. `ValueInv`: a counter is what the
  returned increments add up to, modulo its width; what has begun is that and
  what still waits for the loop. `CallInv` keeps what a read must not miss
  below what has returned.
* `TokensAddUpHolds` of `RpcServer`, for any number of Closes. It needs
  `ServeLeft`: with the token it takes Serve leaves its loop, and so takes one
  at most. That there are never more tokens still to be sent than Closes
  (`SrvTypeCorrect`) follows from the sum and not from the types.

`TypeCorrect` (`FindTypeCorrect` for `Finder`) is proved in each of these
modules.

`SumTheorems`. The community modules sum a function over a finite set by
recursion, and say nothing about it; the library's induction theorems take an
operator, which the provers cannot instantiate. `NatSets` and
`SubsetInduction` are induction for a *set* P instead, `NatSets` from the
theorem that a finite set has no injection into a proper part of itself. From
these, the sum over a set is one member's value and the sum over the rest
(`SumRemove`), whichever member the recursion takes first, and a sum changes by
what one value changes (`SumChange`). `MinIsLeast`: a set of numbers that is
not empty has a least one, which is what `Min` chooses.

Assumptions are those on the constants, each named in the module that declares
them and evaluated by TLC in the runs: finite sets of keys, shards, nodes,
hosts and callers, at least one shard, channels and concurrency of at least one
place, names for nothing (`NoKey`, `NoObj`, `NoHost`, `None`) that are not
names of something. `QueriesAreOfKeys` limits a query to the keys there are: a
key that no repo has selects nothing. `EntriesAreATree` says of the nodes of a
walk what is true of paths: each but the root is an entry of one directory,
once, and none is below itself; Lstat does not follow links. `2^Width \in Nat \ {0}` is true of every
`Width`, and stated because the provers know nothing of powers.

The invariants named here were checked by TLC before they were proved.

Only model-checked: liveness under fairness, which the prover does not
support (`CallsReturn`, `EventuallyAnswered`, `IndexReturns`,
`ReturnsUnlessCancelled`, `GrepEnds`, `FinderReturns`, `FinderJobsEnd`,
`FindServiceReturns`, `ReturnsOrLocalStuck`, `CallsReturnOrClosed`,
`CloseStopsServe`, `AtMostOneCloseHangs`, `IndexEnds`). Every invariant and
every other action property of the passing runs has its theorem.

## 7. Plan

1. An abstract specification of a scatter-gather call, which `Finder`,
   `SearchApi` and `FindApi` implement: their completeness properties, proved
   one by one now, would follow from one proof.
2. The contracts between components as theorems: that every result of
   `Indexer` is one of `IndexApi`'s `LocalResults`, and every outcome of
   `Searcher` and `Finder` one of the services' `LocalReturns`. They are
   matched by reading today.

## 8. Not modelled, and why

* Posting queries and regular expressions (the `codesearch` library): what a
  grep of a shard or a find over its names returns is a choice.
* The JSON text of the backing file: complete or not.
* HTTP routing, TLS, flags, the client's printing, logging, stopwatches, byte
  sizes, error types: no state that the properties are about. The HTTP server
  is never shut down; what its handlers do differently from RPC is in
  `IndexApi`.
* The configuration: its values are constants or choices of the modules that
  read it, and it does not change while the daemon runs.
* Find requests in `Cluster`: they relay as searches do and change no store.
* The refusal of a query leaves the feeder of a search or find waiting once
  its channel is full: a leak of one goroutine, without an effect on answers.
* A repo's `NumShards` and the like that come from a remote daemon are taken
  to be consistent with its index files.
