------------------------------ MODULE IndexApi ------------------------------
(***************************************************************************)
(* The index service of one afindd (afind/api/index.go).  A request that   *)
(* misses in the repo store puts an INDEXING marker there, hands the work  *)
(* to a goroutine under a context with a timeout, and stores, or clears,   *)
(* what comes back.  Several requests, for one key too, run at once, with  *)
(* users deleting repos meanwhile, and searches condemning the repos they  *)
(* hold, or writing them back when they end.                               *)
(*                                                                         *)
(* One operation on the store is one step (RepoStore shows that each is    *)
(* atomic and saved before it returns, so the entries outlive an exit).    *)
(* Of a repo this module keeps its state and the request it came from.     *)
(***************************************************************************)
CONSTANTS
  Keys,      \* repo keys
  Reqs,      \* index requests, each served by a goroutine
  NoReq,     \* not a request
  Searches,  \* searches that may be in flight
  Queries    \* what the requests may ask for

ASSUME NoReqIsNone == NoReq \notin Reqs

VARIABLES
  cfg,       \* the value of Config.DeleteRepoOnError
  early,     \* does par's DoWithContext return before its functions do, when
             \* the context is done?  (External library: either, for good.)
  repos,     \* the store: an entry for every key
  held,      \* per search and key, the repo found good that its answers have
  pc,        \* where each request's handler is
  query,     \* its request
  ctx,       \* its context: "none", "live" or "done"
  worker,    \* where the goroutine run by par is
  ch,        \* the result channel: is it open, and its one-place buffer
  answer     \* is the caller told of an error?

\* History variables.
VARIABLES
  exited,    \* has the process ever exited?  (An interrupt comes once.)
  stale      \* requests in progress that had missed when a good repo was put
             \* under their key by another request or by a search

vars == <<cfg, early, repos, held, pc, query, ctx, worker, ch, answer,
          exited, stale>>

\* What doIndex reads of a request.  Recurse is not part of the JSON form:
\* the HTTP handler always sets it.
Query ==
  {q \in [key : Keys, local : BOOLEAN, recurse : BOOLEAN, valid : BOOLEAN,
          web : BOOLEAN] : q.web => q.recurse}

ASSUME QueriesAreQueries == Queries \subseteq Query

States == {"INDEXING", "OK", "ERROR"}

\* An entry names the request whose doIndex stored it, or none for a repo
\* that came in another daemon's answer to a search.
NoEntry == [state |-> "none", by |-> NoReq]
Entry == [state : States, by : Reqs \cup {NoReq}] \cup {NoEntry}

\* An IndexResult: is its Repo, if it has one, OK (all that is asked about
\* it), and is Error set?
Result == [repo : {"OK", "bad", "none"}, err : BOOLEAN]

\* The states of a channel that holds no result, or has lost its goroutine.
NoResult == [repo |-> "none", err |-> FALSE]
FreshChan == [open |-> TRUE, full |-> FALSE, buf |-> NoResult]

\* What Indexer.Index returns: no repo when a shard file cannot be created,
\* an ERROR repo when par reports an error.
LocalResults ==
  {[repo |-> "OK", err |-> FALSE],
   [repo |-> "bad", err |-> TRUE],
   [repo |-> "none", err |-> TRUE]}

\* What another afindd's doIndex returns, any repo it already has, in ERROR
\* or INDEXING too, included; a failed dial, a broken connection and a done
\* context give an empty result with an error.
RemoteResults == LocalResults \cup {[repo |-> "bad", err |-> FALSE]}

\* The handler is between its Set of the marker and the end of its deferred
\* cleanup.
Indexing == {"refuse", "wait", "select", "cleanget", "cleandel"}

TypeOK ==
  /\ cfg \in BOOLEAN
  /\ early \in BOOLEAN
  /\ repos \in [Keys -> Entry]
  /\ held \in [Searches -> [Keys -> Entry]]
  /\ pc \in [Reqs -> Indexing \cup {"new", "get", "mark", "done"}]
  /\ query \in [Reqs -> Queries]
  /\ ctx \in [Reqs -> {"none", "live", "done"}]
  /\ worker \in [Reqs -> [at : {"none", "run", "check", "send"}, res : Result]]
  /\ ch \in [Reqs -> [open : BOOLEAN, full : BOOLEAN, buf : Result]]
  /\ answer \in [Reqs -> {"pending", "ok", "error"}]
  /\ exited \in BOOLEAN
  /\ stale \subseteq Reqs

NoWorker == [at |-> "none", res |-> NoResult]

\* One request's variables all start out unused; the query is read only
\* after Arrive has set it.
Init ==
  /\ cfg \in BOOLEAN
  /\ early \in BOOLEAN
  /\ repos = [k \in Keys |-> NoEntry]
  /\ held = [s \in Searches |-> [k \in Keys |-> NoEntry]]
  /\ pc = [r \in Reqs |-> "new"]
  /\ query \in [Reqs -> Queries]
  /\ ctx = [r \in Reqs |-> "none"]
  /\ worker = [r \in Reqs |-> NoWorker]
  /\ ch = [r \in Reqs |-> FreshChan]
  /\ answer = [r \in Reqs |-> "pending"]
  /\ exited = FALSE
  /\ stale = {}

Goto(r, l) == pc' = [pc EXCEPT ![r] = l]

\* repos.Set, repos.Delete and repos.Get
Store(k, e) == repos' = [repos EXCEPT ![k] = e]
Remove(k) == Store(k, NoEntry)
Has(k) == repos[k] # NoEntry

\* doIndex has decided on resp and err; Index and webIndex turn them into
\* the caller's answer once the deferred cleanup has run.
Respond(r, a) == answer' = [answer EXCEPT ![r] = a]

\* The requests for k that are past their Get.
Committed(k) ==
  {r \in Reqs : query[r].key = k /\ pc[r] \in Indexing \cup {"mark"}}

history == <<exited, stale>>
-----------------------------------------------------------------------------
\* Index, or webIndex once the body has decoded, calls doIndex.
Arrive(r) ==
  /\ pc[r] = "new"
  /\ Goto(r, "get")
  /\ UNCHANGED <<cfg, early, repos, held, query, ctx, worker, ch, answer, history>>

\* "If a Repo with the same key already exists on this instance, return it
\* immediately", whatever its state.
ReturnExisting(r) ==
  /\ pc[r] = "get"
  /\ Has(query[r].key)
  /\ Respond(r, "ok")
  /\ Goto(r, "done")
  /\ UNCHANGED <<cfg, early, repos, held, query, ctx, worker, ch, history>>

\* No such repo, and Normalize refuses the query.
RejectInvalid(r) ==
  /\ pc[r] = "get"
  /\ ~Has(query[r].key)
  /\ ~query[r].valid
  /\ Respond(r, "error")
  /\ Goto(r, "done")
  /\ UNCHANGED <<cfg, early, repos, held, query, ctx, worker, ch, history>>

\* Mutant: only a repo that is being indexed stops a second request.
Miss_ReplacesGood(r) ==
  /\ pc[r] = "get"
  /\ repos[query[r].key].state # "INDEXING"
  /\ query[r].valid
  /\ Goto(r, "mark")
  /\ UNCHANGED <<cfg, early, repos, held, query, ctx, worker, ch, answer, history>>

\* No such repo, and the query is good.
Miss(r) ==
  /\ pc[r] = "get"
  /\ ~Has(query[r].key)
  /\ query[r].valid
  /\ Goto(r, "mark")
  /\ UNCHANGED <<cfg, early, repos, held, query, ctx, worker, ch, answer, history>>

\* The marker is stored, whatever has appeared since the Get; the context is
\* made and, for a query this daemon can serve, par starts the goroutine.
SetMarker(r) ==
  LET served == query[r].local \/ query[r].recurse
  IN /\ pc[r] = "mark"
     /\ Store(query[r].key, [state |-> "INDEXING", by |-> r])
     /\ ctx' = [ctx EXCEPT ![r] = "live"]
     /\ worker' = [worker EXCEPT ![r].at = IF served THEN "run" ELSE "none"]
     /\ Goto(r, IF served THEN "wait" ELSE "refuse")
     /\ UNCHANGED <<cfg, early, held, query, ch, answer, history>>

\* Neither local nor recursive: this daemon was the one hop allowed.
Refuse(r) ==
  /\ pc[r] = "refuse"
  /\ Remove(query[r].key)
  /\ Respond(r, "error")
  /\ Goto(r, "cleanget")
  /\ UNCHANGED <<cfg, early, held, query, ctx, worker, ch, history>>

-----------------------------------------------------------------------------
\* localIndex or remoteIndex: the call returns...
WorkerReturns(r, res) ==
  /\ worker[r].at = "run"
  /\ res \in IF query[r].local THEN LocalResults ELSE RemoteResults
  /\ worker' = [worker EXCEPT ![r] = [at |-> "check", res |-> res]]
  /\ UNCHANGED <<cfg, early, repos, held, pc, query, ctx, ch, answer, history>>

\* ... its select finds the context done and drops the result...
WorkerDrops(r) ==
  /\ worker[r].at = "check"
  /\ ctx[r] = "done"
  /\ worker' = [worker EXCEPT ![r] = NoWorker]
  /\ UNCHANGED <<cfg, early, repos, held, pc, query, ctx, ch, answer, history>>

\* ... or finds it live and goes on to send.
WorkerGoesOn(r) ==
  /\ worker[r].at = "check"
  /\ ctx[r] = "live"
  /\ worker' = [worker EXCEPT ![r].at = "send"]
  /\ UNCHANGED <<cfg, early, repos, held, pc, query, ctx, ch, answer, history>>

\* The send finds room in the buffer.
WorkerSends(r) ==
  /\ worker[r].at = "send"
  /\ ch[r].open
  /\ ch' = [ch EXCEPT ![r] = [@ EXCEPT !.full = TRUE, !.buf = worker[r].res]]
  /\ worker' = [worker EXCEPT ![r] = NoWorker]
  /\ UNCHANGED <<cfg, early, repos, held, pc, query, ctx, answer, history>>

\* The request's timeout passes.
Timeout(r) ==
  /\ ctx[r] = "live"
  /\ ctx' = [ctx EXCEPT ![r] = "done"]
  /\ UNCHANGED <<cfg, early, repos, held, pc, query, worker, ch, answer, history>>

\* Mutant: the handler does not wait for the goroutine.
ParReturns_NoWait(r) ==
  /\ pc[r] = "wait"
  /\ worker[r].at = "none" \/ ctx[r] = "done"
  /\ ch' = [ch EXCEPT ![r].open = FALSE]
  /\ Goto(r, "select")
  /\ UNCHANGED <<cfg, early, repos, held, query, ctx, worker, answer, history>>

\* Mutant: the handler waits for a result that may have been dropped.
ParReturns_NeedsResult(r) ==
  /\ pc[r] = "wait"
  /\ worker[r].at = "none" /\ ch[r].full
  /\ ch' = [ch EXCEPT ![r].open = FALSE]
  /\ Goto(r, "select")
  /\ UNCHANGED <<cfg, early, repos, held, query, ctx, worker, answer, history>>

\* DoWithContext returns and the handler closes the result channel.
ParReturns(r) ==
  /\ pc[r] = "wait"
  /\ \/ worker[r].at = "none"
     \/ early /\ ctx[r] = "done"
  /\ ch' = [ch EXCEPT ![r].open = FALSE]
  /\ Goto(r, "select")
  /\ UNCHANGED <<cfg, early, repos, held, query, ctx, worker, answer, history>>

\* Mutant: the marker is cleared on the result paths only.
SelectTimeout_NoCleanup(r) ==
  /\ pc[r] = "select"
  /\ ctx[r] = "done"
  /\ Respond(r, "error")
  /\ Goto(r, "done")
  /\ UNCHANGED <<cfg, early, repos, held, query, ctx, worker, ch, history>>

\* Mutant: a result that came with the timeout is stored all the same.
SelectTimeout_StoresLate(r) ==
  /\ pc[r] = "select"
  /\ ctx[r] = "done"
  /\ IF ch[r].full /\ ch[r].buf.repo = "OK"
       THEN Store(query[r].key, [state |-> "OK", by |-> r])
       ELSE UNCHANGED repos
  /\ Respond(r, "error")
  /\ Goto(r, "cleanget")
  /\ UNCHANGED <<cfg, early, held, query, ctx, worker, ch, history>>

\* Of two ready cases select takes either: the context is done, and what is
\* in the channel is dropped...
SelectTimeout(r) ==
  /\ pc[r] = "select"
  /\ ctx[r] = "done"
  /\ Respond(r, "error")
  /\ ch' = [ch EXCEPT ![r].full = FALSE, ![r].buf = NoResult]
  /\ Goto(r, "cleanget")
  /\ UNCHANGED <<cfg, early, repos, held, query, ctx, worker, history>>

\* ... or the closed channel is empty, which reads as nil...
SelectNothing(r) ==
  /\ pc[r] = "select"
  /\ ~ch[r].full
  /\ Respond(r, "error")
  /\ Goto(r, "cleanget")
  /\ UNCHANGED <<cfg, early, repos, held, query, ctx, worker, ch, history>>

\* ... or holds the result: a good repo replaces what is under the key, a
\* bad one is cleared if so configured, and so is the marker when there is
\* no repo.  err becomes an interface holding incoming.Error: SetError takes
\* a nil pointer out of it again, webIndex's err # nil does not.
SelectResult(r) ==
  LET in == ch[r].buf
      k == query[r].key
  IN /\ pc[r] = "select"
     /\ ch[r].full
     /\ \/ in.repo = "OK" /\ Store(k, [state |-> "OK", by |-> r])
        \/ in.repo = "none" /\ Remove(k)
        \/ in.repo = "bad" /\ cfg /\ Remove(k)
        \/ in.repo = "bad" /\ ~cfg /\ UNCHANGED repos
     /\ Respond(r, IF in.err \/ query[r].web THEN "error" ELSE "ok")
     /\ Goto(r, "cleanget")
     /\ ch' = [ch EXCEPT ![r].full = FALSE, ![r].buf = NoResult]
     /\ stale' = IF in.repo = "OK" THEN stale \cup (Committed(k) \ {r}) ELSE stale
     /\ UNCHANGED <<cfg, early, held, query, ctx, worker, exited>>

\* The deferred function cancels the context and looks under the key: an
\* INDEXING entry, this request's or not, has to go.
CleanupGet(r) ==
  LET marked == repos[query[r].key].state = "INDEXING"
  IN /\ pc[r] = "cleanget"
     /\ ctx' = [ctx EXCEPT ![r] = "done"]
     /\ Goto(r, IF marked THEN "cleandel" ELSE "done")
     /\ stale' = IF marked THEN stale ELSE stale \ {r}
     /\ UNCHANGED <<cfg, early, repos, held, query, worker, ch, answer, exited>>

\* It goes, whatever is there by now.
CleanupDelete(r) ==
  /\ pc[r] = "cleandel"
  /\ Remove(query[r].key)
  /\ Goto(r, "done")
  /\ stale' = stale \ {r}
  /\ UNCHANGED <<cfg, early, held, query, ctx, worker, ch, answer, exited>>

-----------------------------------------------------------------------------
\* reposServer.Delete and webDelete, for a key that is there; and a search,
\* if so configured, of a repo that it finds not OK.
DeleteRepo(k) ==
  /\ Has(k)
  /\ Remove(k)
  /\ UNCHANGED <<cfg, early, held, pc, query, ctx, worker, ch, answer, history>>

\* A search finds a good repo under k, or, of another daemon's, is answered
\* with that daemon's own.
SearchPicks(s, k, e) ==
  /\ Has(k)
  /\ held[s][k] = NoEntry
  /\ e \in {repos[k], [state |-> "OK", by |-> NoReq]}
  /\ e.state = "OK"
  /\ held' = [held EXCEPT ![s][k] = e]
  /\ UNCHANGED <<cfg, early, repos, pc, query, ctx, worker, ch, answer, history>>

\* A shard of this daemon's own repo cannot be opened: the search acts on the
\* repo it holds, whatever is under the key by now (Searcher has the detail).
SearchFails(s, k) ==
  LET bad == [held[s][k] EXCEPT !.state = "ERROR"]
  IN /\ held[s][k] # NoEntry /\ held[s][k].by # NoReq
     /\ IF cfg THEN Remove(k) ELSE Store(k, bad)
     /\ held' = [held EXCEPT ![s][k] = bad]
     /\ UNCHANGED <<cfg, early, pc, query, ctx, worker, ch, answer, history>>

\* doSearch ends with updating the store from the repos in its answers: a
\* good one is Set, whatever has happened to the key meanwhile.
SearchWritesBack(s, k) ==
  /\ held[s][k] # NoEntry
  /\ \/ held[s][k].state = "OK" /\ Store(k, held[s][k])
     \/ held[s][k].state # "OK" /\ cfg /\ Remove(k)
     \/ held[s][k].state # "OK" /\ ~cfg /\ UNCHANGED repos
  /\ held' = [held EXCEPT ![s][k] = NoEntry]
  /\ stale' = IF held[s][k].state = "OK" THEN stale \cup Committed(k) ELSE stale
  /\ UNCHANGED <<cfg, early, pc, query, ctx, worker, ch, answer, exited>>

\* The process ends and a new one loads the store; requests that were in
\* progress have no handler any more.
Restart ==
  /\ exited' = TRUE
  /\ held' = [s \in Searches |-> [k \in Keys |-> NoEntry]]
  /\ pc' = [r \in Reqs |-> IF pc[r] = "new" THEN "new" ELSE "done"]
  /\ ctx' = [r \in Reqs |-> "none"]
  /\ worker' = [r \in Reqs |-> NoWorker]
  /\ ch' = [r \in Reqs |-> FreshChan]
  /\ answer' = [r \in Reqs |-> IF pc[r] = "done" THEN answer[r] ELSE "pending"]
  /\ stale' = {}
  /\ UNCHANGED <<cfg, early, repos, query>>

\* An interrupt.
Exit == ~exited /\ Restart

\* A send on the channel that the handler has closed ends the process.
WorkerPanics(r) ==
  /\ worker[r].at = "send"
  /\ ~ch[r].open
  /\ Restart

Handler(r) ==
  \/ ReturnExisting(r) \/ RejectInvalid(r) \/ Miss(r) \/ SetMarker(r)
  \/ Refuse(r) \/ ParReturns(r)
  \/ SelectTimeout(r) \/ SelectNothing(r) \/ SelectResult(r)
  \/ CleanupGet(r) \/ CleanupDelete(r)

Worker(r) ==
  \/ \E res \in RemoteResults : WorkerReturns(r, res)
  \/ WorkerDrops(r) \/ WorkerGoesOn(r) \/ WorkerSends(r) \/ WorkerPanics(r)

Next ==
  \/ \E r \in Reqs : Arrive(r) \/ Handler(r) \/ Worker(r) \/ Timeout(r)
  \/ \E k \in Keys : DeleteRepo(k)
  \/ \E s \in Searches, k \in Keys :
       \/ \E e \in Entry : SearchPicks(s, k, e)
       \/ SearchFails(s, k)
       \/ SearchWritesBack(s, k)
  \/ Exit

Spec == Init /\ [][Next]_vars

\* Goroutines that can run do run, and a call to the indexer or to another
\* daemon returns (the client gives up when the context is done).
Fairness == \A r \in Reqs : WF_vars(Handler(r)) /\ WF_vars(Worker(r))

FairSpec == Spec /\ Fairness

-----------------------------------------------------------------------------
\* PROPERTIES

\* Until the process first exits, every INDEXING entry has a handler that
\* is still to clear or replace it: on the timeout, nil-result, bad-repo and
\* refusal paths alike, and whatever requests for the same key, deletes and
\* searches did in between.
MarkerHasHandler ==
  ~exited =>
    \A k \in Keys :
      repos[k].state = "INDEXING" =>
        LET r == repos[k].by IN pc[r] \in Indexing /\ query[r].key = k

\* A request that an RPC caller was told has failed leaves nothing of its own
\* in the store: no marker, and no repo stored late by its goroutine.
RpcFailureLeavesNothing ==
  \A r \in Reqs, k \in Keys :
    (pc[r] = "done" /\ answer[r] = "error" /\ ~query[r].web) => repos[k].by # r

\* doIndex displaces a good repo only in the race it is open to: the request
\* had missed in the store before that repo was put there, by another
\* request or by a search that wrote back what it had found earlier.
OnlyStaleReplaces ==
  [][\A r \in Reqs, k \in Keys :
       (repos[k].state = "OK" /\ Handler(r) /\ repos'[k] # repos[k])
         => r \in stale]_vars

\* When par waits for its functions, no goroutine gets to send its result on
\* a channel that the handler has closed, however the timeout falls.
NoSendOnClosed ==
  ~early => \A r \in Reqs : worker[r].at = "send" => ch[r].open

\* Every index request is answered, also when its goroutine drops its result
\* because the context was done, unless the process exits first.  (A request
\* comes once, so in the end there are only answered ones and ones that
\* never came.)
EventuallyAnswered == <>[](\A r \in Reqs : pc[r] \in {"new", "done"})
=============================================================================
