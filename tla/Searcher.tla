------------------------------ MODULE Searcher ------------------------------
(***************************************************************************)
(* The searcher of one afindd (afind/search.go): a search of one repo runs *)
(* one grep goroutine per index shard and merges their results.  Repos are *)
(* pointers, so a goroutine that finds its shard file missing changes the  *)
(* state of the very object the store and other searches hold.  Users      *)
(* delete the repo, and an indexer stores a new one under the same key, at *)
(* any moment.                                                             *)
(*                                                                         *)
(* Of a grep's result this module keeps how many lines it has, those taken *)
(* for context included, and whether it carries an error.                  *)
(***************************************************************************)
EXTENDS Integers, FiniteSets, Functions

CONSTANTS
  Searches,   \* concurrent searches of the repo
  Shards,     \* index shards of each of its repo objects
  Objs,       \* repo objects
  NoObj,      \* a nil from Get
  MaxLines    \* bound on the lines one grep finds

ASSUME NoObjIsNone == NoObj \notin Objs
ASSUME ShardsAreFinite == IsFiniteSet(Shards) /\ Shards # {}
ASSUME MaxLinesIsNat == MaxLines \in Nat

VARIABLES
  cfg,       \* Config.DeleteRepoOnError
  store,     \* the object under the repo's key
  state,     \* each object's State; "unused" before it is made
  pc,        \* where each search's own goroutine is
  obj,       \* the repo it found
  ctx,       \* its context: "live" or "done"
  resp,      \* the SearchResult it returns
  waiting,   \* waitingFor
  ch,        \* results sent and not yet received, by shard
  gr,        \* where each shard's goroutine is, and its result
  down       \* "no", or why the process has ended

vars == <<cfg, store, state, pc, obj, ctx, resp, waiting, ch, gr, down>>

Lines == 0 .. MaxLines

\* What a grep returns: lines, an error?
Result == [lines : Lines, err : BOOLEAN]
NoResult == [lines |-> 0, err |-> FALSE]

\* resp: NumMatches, and is there an entry in Errors for the repo?
Resp == [num : Nat, err : BOOLEAN]

Grepping == {"none", "grep", "mark", "condemn", "check", "late", "send",
             "recv", "end"}

TypeOK ==
  /\ cfg \in BOOLEAN
  /\ store \in Objs \cup {NoObj}
  /\ state \in [Objs -> {"unused", "OK", "INDEXING", "ERROR"}]
  /\ pc \in [Searches -> {"new", "state", "drop", "loop", "update", "done"}]
  /\ obj \in [Searches -> Objs \cup {NoObj}]
  /\ ctx \in [Searches -> {"live", "done"}]
  /\ resp \in [Searches -> Resp]
  /\ waiting \in [Searches -> 0 .. Cardinality(Shards)]
  /\ ch \in [Searches -> SUBSET Shards]
  /\ gr \in [Searches -> [Shards -> [at : Grepping, res : Result, gone : BOOLEAN]]]
  /\ down \in {"no", "panic", "race"}

\* The repo may be there or not, in any state.
Init ==
  /\ cfg \in BOOLEAN
  /\ store \in Objs \cup {NoObj}
  /\ \E s \in {"OK", "INDEXING", "ERROR"} :
       state = [o \in Objs |-> IF o = store THEN s ELSE "unused"]
  /\ pc = [a \in Searches |-> "new"]
  /\ obj = [a \in Searches |-> NoObj]
  /\ ctx = [a \in Searches |-> "live"]
  /\ resp = [a \in Searches |-> [num |-> 0, err |-> FALSE]]
  /\ waiting = [a \in Searches |-> 0]
  /\ ch = [a \in Searches |-> {}]
  /\ gr = [a \in Searches |-> [s \in Shards |->
             [at |-> "none", res |-> NoResult, gone |-> FALSE]]]
  /\ down = "no"

Up == down = "no"
Goto(a, l) == pc' = [pc EXCEPT ![a] = l]
GrepGoto(a, s, l) == gr' = [gr EXCEPT ![a][s].at = l]
SetError(a) == resp' = [resp EXCEPT ![a].err = TRUE]

repoVars == <<cfg, store, state>>
mainVars == <<pc, obj, resp, waiting, ch>>
-----------------------------------------------------------------------------
\* repos.Get finds nothing.
GetNothing(a) ==
  /\ Up /\ pc[a] = "new"
  /\ store = NoObj
  /\ SetError(a)
  /\ Goto(a, "done")
  /\ UNCHANGED <<repoVars, obj, ctx, waiting, ch, gr, down>>

\* repos.Get finds the repo.
GetRepo(a) ==
  /\ Up /\ pc[a] = "new"
  /\ store # NoObj
  /\ obj' = [obj EXCEPT ![a] = store]
  /\ Goto(a, "state")
  /\ UNCHANGED <<repoVars, ctx, resp, waiting, ch, gr, down>>

\* A repo that is being indexed is left alone, without an error.
StateIndexing(a) ==
  /\ Up /\ pc[a] = "state"
  /\ state[obj[a]] = "INDEXING"
  /\ Goto(a, "done")
  /\ UNCHANGED <<repoVars, obj, ctx, resp, waiting, ch, gr, down>>

\* A repo in error is reported, and dropped if so configured.
StateBad(a) ==
  /\ Up /\ pc[a] = "state"
  /\ state[obj[a]] = "ERROR"
  /\ SetError(a)
  /\ Goto(a, IF cfg THEN "drop" ELSE "done")
  /\ UNCHANGED <<repoVars, obj, ctx, waiting, ch, gr, down>>

Drop(a) ==
  /\ Up /\ pc[a] = "drop"
  /\ store' = NoObj
  /\ Goto(a, "done")
  /\ UNCHANGED <<cfg, state, obj, ctx, resp, waiting, ch, gr, down>>

\* One goroutine for every shard of a good repo.
StartShards(a) ==
  /\ Up /\ pc[a] = "state"
  /\ state[obj[a]] = "OK"
  /\ waiting' = [waiting EXCEPT ![a] = Cardinality(Shards)]
  /\ gr' = [gr EXCEPT ![a] = [s \in Shards |-> [@[s] EXCEPT !.at = "grep"]]]
  /\ Goto(a, "loop")
  /\ UNCHANGED <<repoVars, obj, ctx, resp, ch, down>>

-----------------------------------------------------------------------------
\* The grep ends: its index opened, and files were searched until the end,
\* an error, or the end of the context.
Grep(a, s, res) ==
  /\ Up /\ gr[a][s].at = "grep"
  /\ gr' = [gr EXCEPT ![a][s] = [at |-> "check", res |-> res, gone |-> FALSE]]
  /\ UNCHANGED <<repoVars, mainVars, ctx, down>>

\* The index file is missing or may not be read.
GrepGone(a, s) ==
  /\ Up /\ gr[a][s].at = "grep"
  /\ gr' = [gr EXCEPT ![a][s] = [at |-> "mark", res |-> NoResult, gone |-> TRUE]]
  /\ UNCHANGED <<repoVars, mainVars, ctx, down>>

\* Mutant: the goroutine marks a copy of the repo.
MarkBad_Copy(a, s) ==
  /\ Up /\ gr[a][s].at = "mark"
  /\ gr' = [gr EXCEPT ![a][s] = [@ EXCEPT !.at = "condemn", !.res.err = TRUE]]
  /\ UNCHANGED <<repoVars, mainVars, ctx, down>>

\* r.State = ERROR, in the object that is shared, and the result's error.
MarkBad(a, s) ==
  /\ Up /\ gr[a][s].at = "mark"
  /\ state' = [state EXCEPT ![obj[a]] = "ERROR"]
  /\ gr' = [gr EXCEPT ![a][s] = [@ EXCEPT !.at = "condemn", !.res.err = TRUE]]
  /\ UNCHANGED <<cfg, store, mainVars, ctx, down>>

\* repos.Delete(r.Key), or repos.Set(r.Key, r): whatever is there by now.
Condemn(a, s) ==
  /\ Up /\ gr[a][s].at = "condemn"
  /\ store' = IF cfg THEN NoObj ELSE obj[a]
  /\ GrepGoto(a, s, "check")
  /\ UNCHANGED <<cfg, state, mainVars, ctx, down>>

\* Mutant: the goroutine reports its own errors instead of sending them.
Check_ReportsItself(a, s) ==
  /\ Up /\ gr[a][s].at = "check"
  /\ GrepGoto(a, s, IF ctx[a] = "done" \/ gr[a][s].res.err THEN "late" ELSE "send")
  /\ UNCHANGED <<repoVars, mainVars, ctx, down>>

\* Mutant: a goroutine whose index is gone reports nothing.
Check_Silent(a, s) ==
  /\ Up /\ gr[a][s].at = "check"
  /\ GrepGoto(a, s, IF gr[a][s].gone THEN "end"
                    ELSE IF ctx[a] = "done" THEN "late" ELSE "send")
  /\ UNCHANGED <<repoVars, mainVars, ctx, down>>

\* select: the context is done, or the default case sends.
Check(a, s) ==
  /\ Up /\ gr[a][s].at = "check"
  /\ GrepGoto(a, s, IF ctx[a] = "done" THEN "late" ELSE "send")
  /\ UNCHANGED <<repoVars, mainVars, ctx, down>>

\* The goroutine writes the timeout into its caller's result itself, and
\* sends nothing.
ReportLate(a, s) ==
  /\ Up /\ gr[a][s].at = "late"
  /\ SetError(a)
  /\ GrepGoto(a, s, "end")
  /\ UNCHANGED <<repoVars, pc, obj, ctx, waiting, ch, down>>

\* That write is not synchronised: the runtime may catch it together with
\* another write to the same map, by resp.Update or another goroutine.
Race(a, s) ==
  /\ Up /\ gr[a][s].at = "late"
  /\ pc[a] = "update" \/ \E t \in Shards \ {s} : gr[a][t].at = "late"
  /\ down' = "race"
  /\ UNCHANGED <<repoVars, mainVars, ctx, gr>>

\* The channel has room for every shard, but once Search has returned its
\* deferred close(ch) has run.
Send(a, s) ==
  /\ Up /\ gr[a][s].at = "send"
  /\ IF pc[a] = "done"
       THEN down' = "panic" /\ UNCHANGED ch
       ELSE ch' = [ch EXCEPT ![a] = @ \cup {s}] /\ UNCHANGED down
  /\ GrepGoto(a, s, "end")
  /\ UNCHANGED <<repoVars, pc, obj, ctx, resp, waiting>>

-----------------------------------------------------------------------------
\* case in := <-ch; goroutines finish in any order.
Receive(a, s) ==
  /\ Up /\ pc[a] = "loop"
  /\ waiting[a] > 0
  /\ s \in ch[a]
  /\ ch' = [ch EXCEPT ![a] = @ \ {s}]
  /\ GrepGoto(a, s, "recv")
  /\ Goto(a, "update")
  /\ UNCHANGED <<repoVars, obj, ctx, resp, waiting, down>>

\* Mutant: the merge keeps the last error only.
Update_LastError(a, s) ==
  LET res == gr[a][s].res
  IN /\ gr[a][s].at = "recv"
     /\ Up /\ pc[a] = "update"
     /\ resp' = [resp EXCEPT ![a] =
                   [num |-> @.num + res.lines,
                    err |-> res.err]]
     /\ waiting' = [waiting EXCEPT ![a] = @ - 1]
     /\ GrepGoto(a, s, "end")
     /\ Goto(a, "loop")
     /\ UNCHANGED <<repoVars, obj, ctx, ch, down>>

\* resp.Update(in): AddFileRepoMatches counts every line it is given.  Each
\* file is taken to be in one shard; one that a request named twice may be in
\* two (see Indexer), and its lines would be counted twice.
Update(a, s) ==
  LET res == gr[a][s].res
  IN /\ gr[a][s].at = "recv"
     /\ Up /\ pc[a] = "update"
     /\ resp' = [resp EXCEPT ![a] =
                   [num |-> @.num + res.lines,
                    err |-> @.err \/ res.err]]
     /\ waiting' = [waiting EXCEPT ![a] = @ - 1]
     /\ GrepGoto(a, s, "end")
     /\ Goto(a, "loop")
     /\ UNCHANGED <<repoVars, obj, ctx, ch, down>>

\* The loop ends when no result is outstanding.  (The case of a done context
\* breaks out of the select, and the loop goes round again.)
LoopEnds(a) ==
  /\ Up /\ pc[a] = "loop"
  /\ waiting[a] = 0
  /\ Goto(a, "done")
  /\ UNCHANGED <<repoVars, obj, ctx, resp, waiting, ch, gr, down>>

-----------------------------------------------------------------------------
\* The timeout passes, or doSearch has enough matches and cancels.
CtxDone(a) ==
  /\ Up /\ ctx[a] = "live"
  /\ ctx' = [ctx EXCEPT ![a] = "done"]
  /\ UNCHANGED <<repoVars, mainVars, gr, down>>

\* A user deletes the repo.
UserDelete ==
  /\ Up /\ store # NoObj
  /\ store' = NoObj
  /\ UNCHANGED <<cfg, state, mainVars, ctx, gr, down>>

\* An index request stores a new, good repo.
Reindex(o) ==
  /\ Up /\ store = NoObj
  /\ state[o] = "unused"
  /\ store' = o
  /\ state' = [state EXCEPT ![o] = "OK"]
  /\ UNCHANGED <<cfg, mainVars, ctx, gr, down>>

Main(a) ==
  \/ GetNothing(a) \/ GetRepo(a)
  \/ StateIndexing(a) \/ StateBad(a) \/ Drop(a) \/ StartShards(a)
  \/ \E s \in Shards : Receive(a, s) \/ Update(a, s)
  \/ LoopEnds(a)

Shard(a, s) ==
  \/ \E res \in Result : Grep(a, s, res)
  \/ GrepGone(a, s) \/ MarkBad(a, s) \/ Condemn(a, s) \/ Check(a, s)
  \/ ReportLate(a, s) \/ Race(a, s) \/ Send(a, s)

Next ==
  \/ \E a \in Searches :
       Main(a) \/ CtxDone(a) \/ \E s \in Shards : Shard(a, s)
  \/ UserDelete
  \/ \E o \in Objs : Reindex(o)

Spec == Init /\ [][Next]_vars

\* Goroutines that can run do run; a grep ends.
Fairness ==
  \A a \in Searches : WF_vars(Main(a)) /\ \A s \in Shards : WF_vars(Shard(a, s))

FairSpec == Spec /\ Fairness

-----------------------------------------------------------------------------
\* PROPERTIES

\* The goroutines of the search have been started.
Searched(a) == \E s \in Shards : gr[a][s].at # "none"

\* The process survives its searches, however the end of a context falls
\* between the steps of a search and its goroutines: none of these sends on
\* the channel that Search closes when it returns, and the unsynchronised
\* write to resp.Errors can end the process only once a search was cancelled
\* or has timed out.
DiesOnlyOfLateWrite ==
  ~Up => down = "race" /\ \E a \in Searches : ctx[a] = "done"

\* Search returns the merge of every shard's result, each counted once, with
\* an error if any of them had one.
MergedComplete ==
  \A a \in Searches :
    (pc[a] = "done" /\ Searched(a)) =>
      /\ resp[a].num = SumFunctionOnSet([s \in Shards |-> gr[a][s].res.lines], Shards)
      /\ (\E s \in Shards : gr[a][s].res.err) => resp[a].err

\* When the index of one shard is gone, the search says so although other
\* shards answered, and the repo it used is out of service: in ERROR for all
\* who hold it and, if so configured, no longer in the store.
BadShardCondemnsRepo ==
  \A a \in Searches :
    (pc[a] = "done" /\ \E s \in Shards : gr[a][s].gone) =>
      /\ resp[a].err
      /\ state[obj[a]] = "ERROR"
      /\ store = obj[a] => ~cfg

\* A search that is neither cancelled nor timed out returns.
ReturnsUnlessCancelled ==
  \A a \in Searches :
    (pc[a] = "loop") ~> (pc[a] = "done" \/ ctx[a] = "done" \/ ~Up)

\* "Await goroutine completion either in error or otherwise": a search whose
\* goroutines have all completed returns, after the end of its context too.
ReturnsOnceShardsEnd ==
  \A a \in Searches :
    (pc[a] = "loop" /\ \A s \in Shards : gr[a][s].at = "end")
      ~> (pc[a] = "done" \/ ~Up)
=============================================================================
