------------------------------ MODULE Cluster -------------------------------
(***************************************************************************)
(* Several afindd that relay requests to each other.  An index request     *)
(* names the host it is for in its metadata, a search goes where the repo  *)
(* stored under its key is.  A daemon that relays waits for the answer as  *)
(* a client would, with a timeout of its own, and puts the repo it is told *)
(* of into its own store, from which it answers, and relays, later ones.   *)
(*                                                                         *)
(* All of it is about one repo key with one root.  A call frame is one     *)
(* doIndex or doSearch on one daemon; calls[s][1] serves a client and      *)
(* calls[s][i + 1] what frame i relayed.  IndexApi and SearchApi have the  *)
(* steps inside a frame; here a frame's steps are its operations on the    *)
(* store.  doFind relays as doSearch does and writes nothing back.         *)
(* Config.DeleteRepoOnError is set, as it is by default.                   *)
(***************************************************************************)
EXTENDS Naturals

CONSTANTS
  Daemons,     \* the daemons, which are also the host names they know as own
  LocalName,   \* "localhost": own to every daemon
  Alias,       \* a name that dials Target, which does not know it as its own
  Target,
  None,        \* no host
  FrontEnds,   \* the daemons that clients call
  Slots,       \* requests under way at once
  MaxFrames,   \* bound: daemons that one request may go through
  MaxCalls,    \* bound: calls by clients
  MaxDeletes   \* bound: repos deleted by users

ASSUME ClusterAssumption ==
  /\ Target \in Daemons
  /\ FrontEnds \subseteq Daemons
  /\ {LocalName, Alias, None} \cap Daemons = {}
  /\ LocalName # Alias /\ None \notin {LocalName, Alias}
  /\ MaxFrames \in Nat \ {0} /\ MaxCalls \in Nat /\ MaxDeletes \in Nat

VARIABLES
  store,    \* what each daemon has under the key
  files,    \* the daemons that have index files of the repo
  calls,    \* the frames of each request
  made,     \* calls made so far
  deleted   \* deletes made so far

\* History variables.
VARIABLES
  lost,     \* has an OK repo been removed from a store, or replaced in it?
  relayed   \* the most daemons that one request of each kind went through

vars == <<store, files, calls, made, deleted, lost, relayed>>

Hosts == Daemons \cup {LocalName, Alias}
Ops == {"index", "search"}

\* isLocal and the address that getAddress gives for another name.
Local(d, h) == h \in {d, LocalName}
Resolve(h) == IF h = Alias THEN Target ELSE h

\* What a store, or an answer, has of the repo: its state, the host in its
\* metadata and the daemon that built its index.  An answer without a repo
\* is NoRepo, one with an error besides is Failed.
NoRepo == [state |-> "none", host |-> None, built |-> None]
Failed == [state |-> "failed", host |-> None, built |-> None]
Marker == [state |-> "INDEXING", host |-> None, built |-> None]
Condemned == [state |-> "ERROR", host |-> None, built |-> None]
Good == [state : {"OK"}, host : Hosts, built : Daemons]
Entry == Good \cup {NoRepo, Marker}
Answer == Good \cup {NoRepo, Failed, Marker, Condemned}

\* pc: "get" is the first look at the store, "mark" and "work" are doIndex
\* before and after its marker, "work" is also the searcher, "wait" a relayed
\* call, "write" doSearch's update of the store; "done" has an answer.
Idle == [op |-> "none", pc |-> "idle", at |-> None, host |-> None,
         recurse |-> FALSE, ans |-> NoRepo]
Frame ==
  [op : Ops, pc : {"get", "mark", "work", "wait", "write", "done"},
   at : Daemons, host : Hosts \cup {None}, recurse : BOOLEAN, ans : Answer]
  \cup {Idle}
Depth == 1..MaxFrames

TypeOK ==
  /\ store \in [Daemons -> Entry]
  /\ files \subseteq Daemons
  /\ calls \in [Slots -> [Depth -> Frame]]
  /\ made \in 0..MaxCalls
  /\ deleted \in 0..MaxDeletes
  /\ lost \in BOOLEAN
  /\ relayed \in [Ops -> 0..MaxFrames]

Init ==
  /\ store = [d \in Daemons |-> NoRepo]
  /\ files = {}
  /\ calls = [s \in Slots |-> [i \in Depth |-> Idle]]
  /\ made = 0
  /\ deleted = 0
  /\ lost = FALSE
  /\ relayed = [o \in Ops |-> 0]

\* A request has gone through n daemons.
Reached(op, n) ==
  relayed' = [relayed EXCEPT ![op] = IF n > @ THEN n ELSE @]

\* Frame i of s and, if it relayed, the frame above it, become f and g.
Becomes(s, i, f) == calls' = [calls EXCEPT ![s][i] = f]
BecomeBoth(s, i, f, g) == calls' = [calls EXCEPT ![s][i] = f, ![s][i + 1] = g]

\* Frame i of s at its end: its answer is kept for a caller that still waits.
Ended(s, i, ans) ==
  IF i > 1 /\ calls[s][i - 1].pc = "wait"
  THEN [calls[s][i] EXCEPT !.pc = "done", !.ans = ans]
  ELSE Idle

\* repos.Set and repos.Delete on daemon d
Put(d, e) ==
  /\ store' = [store EXCEPT ![d] = e]
  /\ lost' = (lost \/ (store[d].state = "OK" /\ e # store[d]))
Remove(d) == Put(d, NoRepo)
Unwritten == UNCHANGED <<store, lost>>

-----------------------------------------------------------------------------
(***************************************************************************)
(* Clients                                                                 *)
(***************************************************************************)

\* A client calls daemon d, to index the repo on host h or to search it.
\* Clients of both interfaces have Recurse set.
Call(s, op, d, h) ==
  /\ made < MaxCalls
  /\ \A i \in Depth : calls[s][i] = Idle
  /\ Becomes(s, 1, [op |-> op, pc |-> "get", at |-> d, host |-> h,
                    recurse |-> TRUE, ans |-> NoRepo])
  /\ Reached(op, 1)
  /\ made' = made + 1
  /\ UNCHANGED <<files, deleted>> /\ Unwritten

ClientIndexes(s, d, h) == Call(s, "index", d, h)
ClientSearches(s, d) == Call(s, "search", d, None)

ClientDeletes(d) ==
  /\ deleted < MaxDeletes
  /\ deleted' = deleted + 1
  /\ Remove(d)
  /\ UNCHANGED <<files, calls, made, relayed>>

-----------------------------------------------------------------------------
(***************************************************************************)
(* The frames                                                              *)
(***************************************************************************)

\* Frame i of s is at pc l of an operation op.
At(s, i, op, l) == calls[s][i].op = op /\ calls[s][i].pc = l
Goto(s, i, l) == Becomes(s, i, [calls[s][i] EXCEPT !.pc = l])

\* Mutant: Recurse is left as it came.
RelayOf_Recurses(f, h) == [f EXCEPT !.pc = "get", !.at = Resolve(h)]

\* What a frame relays: index requests with Recurse unset, which doSearch and
\* doFind never look at.
RelayOf(f, h) ==
  [f EXCEPT !.pc = "get", !.at = Resolve(h),
            !.recurse = IF f.op = "index" THEN FALSE ELSE @]

\* Frame i relays to host h and waits; i < MaxFrames is a bound.
Relay(s, i, h) ==
  LET f == calls[s][i] IN
  /\ i < MaxFrames
  /\ BecomeBoth(s, i, [f EXCEPT !.pc = "wait"], RelayOf(f, h))
  /\ Reached(f.op, i + 1)

\* The relayed call ends without an answer: the host cannot be dialled, the
\* connection breaks or the timeout is over.  Its frame may go on alone.
Orphan(s, i) == IF calls[s][i + 1].pc = "done" THEN Idle ELSE calls[s][i + 1]

\* Mutant: a request that meets a marker waits for the repo.
IndexHit_WaitsForRepo(s, i) ==
  LET d == calls[s][i].at IN
  /\ At(s, i, "index", "get")
  /\ store[d].state = "OK"
  /\ Becomes(s, i, Ended(s, i, store[d]))
  /\ UNCHANGED <<files, relayed, made, deleted>> /\ Unwritten

\* doIndex.  A repo with the key, whatever its state, is the answer.
IndexHit(s, i) ==
  LET d == calls[s][i].at IN
  /\ At(s, i, "index", "get")
  /\ store[d] # NoRepo
  /\ Becomes(s, i, Ended(s, i, store[d]))
  /\ UNCHANGED <<files, relayed, made, deleted>> /\ Unwritten

IndexMiss(s, i) ==
  /\ At(s, i, "index", "get")
  /\ store[calls[s][i].at] = NoRepo
  /\ Goto(s, i, "mark")
  /\ UNCHANGED <<files, relayed, made, deleted>> /\ Unwritten

IndexMark(s, i) ==
  /\ At(s, i, "index", "mark")
  /\ Put(calls[s][i].at, Marker)
  /\ Goto(s, i, "work")
  /\ UNCHANGED <<files, relayed, made, deleted>>

\* The host is one's own: the indexer has written its files and doIndex
\* stores the repo.
IndexBuilt(s, i) ==
  LET f == calls[s][i]
      repo == [state |-> "OK", host |-> f.host, built |-> f.at]
  IN
  /\ At(s, i, "index", "work")
  /\ Local(f.at, f.host)
  /\ files' = files \cup {f.at}
  /\ Put(f.at, repo)
  /\ Becomes(s, i, Ended(s, i, repo))
  /\ UNCHANGED <<relayed, made, deleted>>

IndexRelay(s, i) ==
  LET f == calls[s][i] IN
  /\ At(s, i, "index", "work")
  /\ ~Local(f.at, f.host) /\ f.recurse
  /\ Relay(s, i, f.host)
  /\ UNCHANGED <<files, made, deleted>> /\ Unwritten

\* The indexer fails, or the request is neither local nor to be relayed.
IndexFails(s, i) ==
  LET f == calls[s][i] IN
  /\ At(s, i, "index", "work")
  /\ Local(f.at, f.host) \/ ~f.recurse
  /\ Remove(f.at)
  /\ Becomes(s, i, Ended(s, i, Failed))
  /\ UNCHANGED <<files, relayed, made, deleted>>

\* Mutant: the repo is stored with the host that was asked for.
Applied_AsAsked(f, ans) ==
  IF ans.state = "OK"
  THEN Put(f.at, IF f.op = "index" THEN [ans EXCEPT !.host = f.host] ELSE ans)
  ELSE Remove(f.at)

\* An OK repo in the answer is stored, anything else removes what is stored.
Applied(f, ans) == IF ans.state = "OK" THEN Put(f.at, ans) ELSE Remove(f.at)

IndexAnswered(s, i) ==
  LET ans == calls[s][i + 1].ans IN
  /\ At(s, i, "index", "wait") /\ At(s, i + 1, "index", "done")
  /\ Applied(calls[s][i], ans)
  /\ BecomeBoth(s, i, Ended(s, i, ans), Idle)
  /\ UNCHANGED <<files, relayed, made, deleted>>

IndexUnanswered(s, i) ==
  /\ At(s, i, "index", "wait")
  /\ Remove(calls[s][i].at)
  /\ BecomeBoth(s, i, Ended(s, i, Failed), Orphan(s, i))
  /\ UNCHANGED <<files, relayed, made, deleted>>

\* The context is done first: only a marker, whoever's it is, is removed.
IndexTimeout(s, i) ==
  LET d == calls[s][i].at IN
  /\ \/ /\ At(s, i, "index", "work") /\ Local(d, calls[s][i].host)
        /\ Becomes(s, i, Ended(s, i, Failed))
     \/ /\ At(s, i, "index", "wait")
        /\ BecomeBoth(s, i, Ended(s, i, Failed), Orphan(s, i))
  /\ IF store[d] = Marker THEN Remove(d) ELSE Unwritten
  /\ UNCHANGED <<files, relayed, made, deleted>>

\* doSearch of the key: nothing is searched unless an OK repo is stored.
SearchNothing(s, i) ==
  /\ At(s, i, "search", "get")
  /\ store[calls[s][i].at].state # "OK"
  /\ Becomes(s, i, Ended(s, i, NoRepo))
  /\ UNCHANGED <<files, relayed, made, deleted>> /\ Unwritten

SearchLocally(s, i) ==
  LET d == calls[s][i].at IN
  /\ At(s, i, "search", "get")
  /\ store[d].state = "OK" /\ Local(d, store[d].host)
  /\ Goto(s, i, "work")
  /\ UNCHANGED <<files, relayed, made, deleted>> /\ Unwritten

SearchRelay(s, i) ==
  LET d == calls[s][i].at IN
  /\ At(s, i, "search", "get")
  /\ store[d].state = "OK" /\ ~Local(d, store[d].host)
  /\ Relay(s, i, store[d].host)
  /\ UNCHANGED <<files, made, deleted>> /\ Unwritten

\* The searcher gets the repo again; without its index files it condemns it.
Searched(s, i) ==
  LET f == calls[s][i]
      bad == store[f.at].state = "OK" /\ f.at \notin files
  IN
  /\ At(s, i, "search", "work")
  /\ Becomes(s, i, [f EXCEPT !.pc = "write",
                             !.ans = IF bad THEN Condemned ELSE store[f.at]])
  /\ IF bad THEN Remove(f.at) ELSE Unwritten
  /\ UNCHANGED <<files, relayed, made, deleted>>

SearchAnswered(s, i) ==
  /\ At(s, i, "search", "wait") /\ At(s, i + 1, "search", "done")
  /\ BecomeBoth(s, i, [calls[s][i] EXCEPT !.pc = "write",
                                          !.ans = calls[s][i + 1].ans], Idle)
  /\ UNCHANGED <<files, relayed, made, deleted>> /\ Unwritten

\* An answer that does not come, or comes late, has no repo to write back.
SearchUnanswered(s, i) ==
  /\ \/ /\ At(s, i, "search", "work")
        /\ Becomes(s, i, Ended(s, i, NoRepo))
     \/ /\ At(s, i, "search", "wait")
        /\ BecomeBoth(s, i, Ended(s, i, NoRepo), Orphan(s, i))
  /\ UNCHANGED <<files, relayed, made, deleted>> /\ Unwritten

\* doSearch updates its store with the repo it was told of.
SearchWrites(s, i) ==
  LET f == calls[s][i] IN
  /\ At(s, i, "search", "write")
  /\ IF f.ans = NoRepo THEN Unwritten ELSE Applied(f, f.ans)
  /\ Becomes(s, i, Ended(s, i, f.ans))
  /\ UNCHANGED <<files, relayed, made, deleted>>

-----------------------------------------------------------------------------
IndexStep(s, i) ==
  \/ IndexHit(s, i) \/ IndexMiss(s, i) \/ IndexMark(s, i) \/ IndexBuilt(s, i)
  \/ IndexRelay(s, i) \/ IndexFails(s, i) \/ IndexAnswered(s, i)
  \/ IndexUnanswered(s, i) \/ IndexTimeout(s, i)

SearchStep(s, i) ==
  \/ SearchNothing(s, i) \/ SearchLocally(s, i) \/ SearchRelay(s, i)
  \/ Searched(s, i) \/ SearchAnswered(s, i) \/ SearchUnanswered(s, i)
  \/ SearchWrites(s, i)

Next ==
  \/ \E s \in Slots, d \in FrontEnds :
       \/ \E h \in Hosts : ClientIndexes(s, d, h)
       \/ ClientSearches(s, d)
  \/ \E d \in FrontEnds : ClientDeletes(d)
  \/ \E s \in Slots, i \in Depth : IndexStep(s, i) \/ SearchStep(s, i)

Spec == Init /\ [][Next]_vars

\* A frame's goroutine runs and a reachable daemon answers; nothing is assumed
\* of timeouts, clients or users.
Progress(s, i) ==
  \/ IndexHit(s, i) \/ IndexMiss(s, i) \/ IndexMark(s, i) \/ IndexBuilt(s, i)
  \/ IndexRelay(s, i) \/ IndexFails(s, i) \/ IndexAnswered(s, i)

FairSpec == Spec /\ \A s \in Slots, i \in Depth : WF_vars(Progress(s, i))

-----------------------------------------------------------------------------
(***************************************************************************)
(* Properties                                                              *)
(***************************************************************************)

\* An index request goes through two daemons at most, whatever names their
\* hosts go by: doIndex unsets Recurse in what it relays, and refuses what it
\* may not relay (api/index.go:182-185, 223-231).
IndexProxiedOnce == relayed["index"] <= 2

\* The same of searches, as the README has it: "queries directed for a single
\* host will be proxies by an afindd job once only".  It does not hold.
SearchProxiedOnce == relayed["search"] <= 2

\* ... but a search goes further only once some store's OK repo was removed
\* or replaced: until then a daemon's knowledge of a repo leads straight to
\* the daemon that built it (api/index.go:207-210, api/search.go:297-305).
HopsNeedLoss == relayed["search"] > 2 => lost

\* Every OK repo, in whatever store or answer it is by now, was built by a
\* daemon that has index files and that the host in the repo is a name of:
\* no relay, late answer or write-back makes a repo up or moves it to another
\* host.
OkRepoIsBuilt ==
  \A e \in {store[d] : d \in Daemons}
           \cup {calls[s][i].ans : s \in Slots, i \in Depth} :
    e.state = "OK" => e.built \in files /\ Local(e.built, e.host)

\* Index requests that cross never wait for each other for ever, though no
\* timeout ends them and each has marked the repo that the other asks for:
\* a request that meets a marker is answered with it (api/index.go:146-151).
IndexEnds == []<>(\A s \in Slots, i \in Depth : calls[s][i].op # "index")
=============================================================================
