------------------------------ MODULE Indexer ------------------------------
(***************************************************************************)
(* One call of the indexer (afind/index.go): the names of the files to     *)
(* index are collected, a feeder goroutine puts them into a channel, one   *)
(* goroutine per index shard takes names out and adds the files to its     *)
(* shard, and the caller sums up, flushes the shards and hands the result  *)
(* to the index service.  The context may be done at any moment.           *)
(*                                                                         *)
(* A channel of names is a bag: the order of the names is left out.        *)
(***************************************************************************)
EXTENDS Walker, Functions

CONSTANTS
  Abs,       \* directories a query must not name
  Shards,    \* index shards, cfg.NumShards but at least one
  ChanCap,   \* room in the channel of names (100 in the code)
  Queries,   \* what may be asked for
  FsFaults   \* may reading directories and files fail?

\* files and dirs of an IndexQuery, and whether it has a key and an absolute
\* root.
Query == [files : SUBSET Files, dirs : SUBSET (Dirs \cup Abs \cup {"."}),
          keyed : BOOLEAN]

ASSUME QueriesAreQueries == Queries \subseteq Query
ASSUME ShardsAreFinite == IsFiniteSet(Shards) /\ Shards # {}
ASSUME ChanHasRoom == ChanCap \in Nat \ {0}
ASSUME FsFaultsIsBoolean == FsFaults \in BOOLEAN

VARIABLES
  inRepo,    \* Config.IndexInRepo
  query,     \* the request
  ctx,       \* its context: "live" or "done"
  pc,        \* where the calling goroutine is
  feeder,    \* where the feeder is: "none", "feed" or "end"
  names,     \* names the feeder still has, with their multiplicity
  chn,       \* names in the channel
  w,         \* each shard's goroutine: where it is, its file, its numFiles
  out,       \* the numFiles of the goroutines whose count is in out
  idx,       \* how often each file was added to each shard
  result,    \* the IndexResult: its Repo's state and NumFiles, and an error?
  delivered, \* was the result sent to doIndex?
  panicked   \* was there a send on a closed channel?

\* History variables.
VARIABLES
  scanned,   \* what the scanner returned
  skipped    \* how often each file could not be opened

vars == <<inRepo, query, ctx, pc, feeder, names, chn, w, out, idx, result,
          delivered, panicked, scanned, skipped>>

Bag == [Files -> Nat]
EmptyBag == [f \in Files |-> 0]
Size(b) == SumFunctionOnSet(b, Files)
Plus(b, f) == [b EXCEPT ![f] = @ + 1]
Minus(b, f) == [b EXCEPT ![f] = @ - 1]

\* How often f was added to any shard.
Added(f) == SumFunctionOnSet([s \in Shards |-> idx[s][f]], Shards)

NoFile == "no file"
NoRepo == [repo |-> "none", num |-> 0, err |-> TRUE]

TypeOK ==
  /\ inRepo \in BOOLEAN
  /\ query \in Queries
  /\ ctx \in {"live", "done"}
  /\ pc \in {"new", "create", "scan", "par", "sum", "flush", "deliver", "done"}
  /\ feeder \in {"none", "feed", "end"}
  /\ names \in Bag /\ chn \in Bag
  /\ w \in [Shards -> [at : {"none", "take", "check", "open", "report", "send", "end"},
                       file : Files \cup {NoFile}, num : Nat]]
  /\ out \subseteq Shards
  /\ idx \in [Shards -> Bag]
  /\ result \in [repo : {"none", "new", "OK", "ERROR"}, num : Nat, err : BOOLEAN]
  /\ delivered \in BOOLEAN /\ panicked \in BOOLEAN
  /\ scanned \in Bag /\ skipped \in Bag
  /\ Size(chn) <= ChanCap

Init ==
  /\ inRepo \in BOOLEAN
  /\ query \in Queries
  /\ ctx = "live"
  /\ pc = "new"
  /\ feeder = "none"
  /\ names = EmptyBag /\ chn = EmptyBag
  /\ w = [s \in Shards |-> [at |-> "none", file |-> NoFile, num |-> 0]]
  /\ out = {}
  /\ idx = [s \in Shards |-> EmptyBag]
  /\ result = [repo |-> "none", num |-> 0, err |-> FALSE]
  /\ delivered = FALSE /\ panicked = FALSE
  /\ scanned = EmptyBag /\ skipped = EmptyBag

Up == ~panicked
Goto(l) == pc' = l
history == <<scanned, skipped>>
chans == <<feeder, names, chn, w, out, idx>>
-----------------------------------------------------------------------------
\* Normalize: "." becomes "/", and the directories a set.
Canon(dirs) == {IF d = "." THEN "/" ELSE d : d \in dirs}

Valid(q) == q.keyed /\ (q.dirs # {} \/ q.files # {}) /\ q.dirs \cap Abs = {}

NormalizeFails ==
  /\ Up /\ pc = "new"
  /\ ~Valid(query)
  /\ result' = NoRepo
  /\ Goto("deliver")
  /\ UNCHANGED <<inRepo, query, ctx, chans, delivered, panicked, history>>

Normalize ==
  /\ Up /\ pc = "new"
  /\ Valid(query)
  /\ Goto("create")
  /\ UNCHANGED <<inRepo, query, ctx, chans, result, delivered, panicked, history>>

\* A shard file cannot be created: an error, and no repo.
CreateFails ==
  /\ Up /\ pc = "create"
  /\ FsFaults
  /\ result' = NoRepo
  /\ Goto("deliver")
  /\ UNCHANGED <<inRepo, query, ctx, chans, delivered, panicked, history>>

Create ==
  /\ Up /\ pc = "create"
  /\ result' = [result EXCEPT !.repo = "new"]
  /\ Goto("scan")
  /\ UNCHANGED <<inRepo, query, ctx, chans, delivered, panicked, history>>

\* The file system that is scanned: getFileSystem gets i.root, which is the
\* directory of the index files.  Where that is not the root it holds index
\* files only, which are excluded.
Seen(files) == IF inRepo THEN files ELSE {}

\* What a walk of each directory may add: the walks of one scan meet failures
\* of their own.
Found ==
  [d \in Dirs |-> {Walk(d, lf, rf).added :
                     lf \in IF FsFaults THEN SUBSET Nodes ELSE {{}},
                     rf \in IF FsFaults THEN SUBSET Dirs ELSE {{}}}]

\* The scanner: listed files that are there, excluded or not, and what the
\* walks added.  The walks' error does not outlive the call.
Scan(listed, found) ==
  LET dirs == Canon(query.dirs)
      bag == [f \in Files |->
                Cardinality({d \in dirs : f \in Seen(found[d])})
                + (IF f \in Seen(listed) THEN 1 ELSE 0)]
  IN /\ Up /\ pc = "scan"
     /\ IF FsFaults THEN listed \subseteq query.files ELSE listed = query.files
     /\ \A d \in dirs : found[d] \in Found[d]
     /\ scanned' = bag
     /\ names' = bag
     /\ feeder' = "feed"
     /\ w' = [s \in Shards |-> [w[s] EXCEPT !.at = "take"]]
     /\ Goto("par")
     /\ UNCHANGED <<inRepo, query, ctx, chn, out, idx, result, delivered, panicked, skipped>>

-----------------------------------------------------------------------------
\* The feeder's goroutine.
Feed(f) ==
  /\ Up /\ feeder = "feed"
  /\ names[f] > 0 /\ Size(chn) < ChanCap
  /\ names' = Minus(names, f)
  /\ chn' = Plus(chn, f)
  /\ UNCHANGED <<inRepo, query, ctx, pc, feeder, w, out, idx, result, delivered, panicked, history>>

\* Mutant: the channel is not closed.
FeedClose_Forgotten ==
  /\ Up /\ feeder = "feed"
  /\ names = EmptyBag
  /\ UNCHANGED vars

FeedClose ==
  /\ Up /\ feeder = "feed"
  /\ names = EmptyBag
  /\ feeder' = "end"
  /\ UNCHANGED <<inRepo, query, ctx, pc, names, chn, w, out, idx, result, delivered, panicked, history>>

\* The goroutine of shard s: for name := range in
Take(s, f) ==
  /\ Up /\ w[s].at = "take"
  /\ chn[f] > 0
  /\ chn' = Minus(chn, f)
  /\ w' = [w EXCEPT ![s].at = "check", ![s].file = f]
  /\ UNCHANGED <<inRepo, query, ctx, pc, feeder, names, out, idx, result, delivered, panicked, history>>

\* The channel is closed and empty.
TakeEnd(s) ==
  /\ Up /\ w[s].at = "take"
  /\ feeder = "end" /\ chn = EmptyBag
  /\ w' = [w EXCEPT ![s].at = "report"]
  /\ UNCHANGED <<inRepo, query, ctx, pc, feeder, names, chn, out, idx, result, delivered, panicked, history>>

\* The context is done: the goroutine returns, its name in hand.
CheckDone(s) ==
  /\ Up /\ w[s].at = "check"
  /\ w' = [w EXCEPT ![s].at = IF ctx = "done" THEN "end" ELSE "open"]
  /\ UNCHANGED <<inRepo, query, ctx, pc, feeder, names, chn, out, idx, result, delivered, panicked, history>>

\* The file opens and is added.
Add(s) ==
  /\ Up /\ w[s].at = "open"
  /\ idx' = [idx EXCEPT ![s] = Plus(@, w[s].file)]
  /\ w' = [w EXCEPT ![s] = [at |-> "take", file |-> NoFile, num |-> @.num + 1]]
  /\ UNCHANGED <<inRepo, query, ctx, pc, feeder, names, chn, out, result, delivered, panicked, history>>

\* The file does not open: it is passed over.
OpenFails(s) ==
  /\ Up /\ w[s].at = "open"
  /\ FsFaults
  /\ skipped' = Plus(skipped, w[s].file)
  /\ w' = [w EXCEPT ![s].at = "take", ![s].file = NoFile]
  /\ UNCHANGED <<inRepo, query, ctx, pc, feeder, names, chn, out, idx, result, delivered, panicked, scanned>>

\* The count is sent unless the context is done.
Report(s) ==
  /\ Up /\ w[s].at = "report"
  /\ w' = [w EXCEPT ![s].at = IF ctx = "done" THEN "end" ELSE "send"]
  /\ UNCHANGED <<inRepo, query, ctx, pc, feeder, names, chn, out, idx, result, delivered, panicked, history>>

\* out has room for every shard's count, but Index closes it after par.
Send(s) ==
  /\ Up /\ w[s].at = "send"
  /\ IF pc = "par"
       THEN out' = out \cup {s} /\ UNCHANGED panicked
       ELSE panicked' = TRUE /\ UNCHANGED out
  /\ w' = [w EXCEPT ![s].at = "end"]
  /\ UNCHANGED <<inRepo, query, ctx, pc, feeder, names, chn, idx, result, delivered, history>>

-----------------------------------------------------------------------------
\* DoWithContext returns.  The goroutines return no error.  Whether a done
\* context is one, and whether it ends the call while goroutines still run,
\* is for par to say.
ParReturns(err) ==
  /\ Up /\ pc = "par"
  /\ \/ \A s \in Shards : w[s].at = "end"
     \/ ctx = "done"
  /\ err => ctx = "done"
  /\ result' = [result EXCEPT !.err = err]
  /\ Goto("sum")
  /\ UNCHANGED <<inRepo, query, ctx, chans, delivered, panicked, history>>

\* NumFiles is the sum of the counts that were sent.
Sum ==
  /\ Up /\ pc = "sum"
  /\ result' = [result EXCEPT !.num = SumFunctionOnSet([s \in Shards |-> w[s].num], out)]
  /\ Goto("flush")
  /\ UNCHANGED <<inRepo, query, ctx, chans, delivered, panicked, history>>

\* The shards are flushed, and the repo gets its state.
Flush ==
  /\ Up /\ pc = "flush"
  /\ result' = [result EXCEPT !.repo = IF result.err THEN "ERROR" ELSE "OK"]
  /\ Goto("deliver")
  /\ UNCHANGED <<inRepo, query, ctx, chans, delivered, panicked, history>>

\* Mutant: localIndex sends the result although the context is done.
Deliver_Always ==
  /\ Up /\ pc = "deliver"
  /\ delivered' = TRUE
  /\ Goto("done")
  /\ UNCHANGED <<inRepo, query, ctx, chans, result, panicked, history>>

\* localIndex gets the result and sends it, unless the context is done.
Deliver ==
  /\ Up /\ pc = "deliver"
  /\ delivered' = (ctx = "live")
  /\ Goto("done")
  /\ UNCHANGED <<inRepo, query, ctx, chans, result, panicked, history>>

\* The request's timeout passes.
CtxDone ==
  /\ ctx = "live"
  /\ ctx' = "done"
  /\ UNCHANGED <<inRepo, query, pc, chans, result, delivered, panicked, history>>

Main ==
  \/ NormalizeFails \/ Normalize \/ CreateFails \/ Create
  \/ pc = "scan" /\ \E listed \in SUBSET query.files :
       \E found \in [Canon(query.dirs) -> UNION {Found[d] : d \in Dirs}] :
         Scan(listed, found)
  \/ \E err \in BOOLEAN : ParReturns(err)
  \/ Sum \/ Flush \/ Deliver

Feeder == FeedClose \/ \E f \in Files : Feed(f)

Worker(s) ==
  \/ \E f \in Files : Take(s, f)
  \/ TakeEnd(s) \/ CheckDone(s) \/ Add(s) \/ OpenFails(s) \/ Report(s) \/ Send(s)

Next == Main \/ Feeder \/ CtxDone \/ \E s \in Shards : Worker(s)

Spec == Init /\ [][Next]_vars

\* Goroutines that can run do run.  The context need never be done.
Fairness ==
  /\ WF_vars(Main) /\ WF_vars(Feeder)
  /\ \A s \in Shards : WF_vars(Worker(s))

FairSpec == Spec /\ Fairness

-----------------------------------------------------------------------------
\* PROPERTIES

Successful == delivered /\ ~result.err

\* What Scan takes from its walks is what a walk of the tree should find, but
\* for what failed: see WalksAreWhole.
ScanFindsAll == pc = "scan" => WalksAreWhole

\* A result that reaches doIndex without an error is whole: every name the
\* scanner returned was added to the shards, or did not open, as often as it
\* was returned, and NumFiles counts what was added.  A done context cuts
\* the work short at any point, and never such a result.
DeliveredIsComplete ==
  Successful =>
    /\ \A f \in Files : Added(f) + skipped[f] = scanned[f]
    /\ result.num = SumFunctionOnSet([f \in Files |-> Added(f)], Files)

\* Nothing is added to the shards of such a result after their flush.
DeliveredIsFinal == [][Successful => UNCHANGED idx]_vars

\* Index returns, whatever fails and whenever its context is done: the names
\* that the feeder still has, and goroutines that are gone, keep nobody
\* waiting.  (A send on the closed channel, after par returned early, ends
\* the process.)
IndexReturns == (pc = "new") ~> (pc = "done" \/ panicked)

=============================================================================
