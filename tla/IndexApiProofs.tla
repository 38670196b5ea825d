--------------------------- MODULE IndexApiProofs ---------------------------
(***************************************************************************)
(* Proofs about IndexApi, for any number of keys and requests, and for     *)
(* either behaviour of par's DoWithContext.                                *)
(***************************************************************************)
EXTENDS IndexApi, TLAPS

\* An entry is stored only under the key of the request it names, and not
\* before that request has put its marker there.
EntryInv ==
  \A r \in Reqs, k \in Keys :
    /\ repos[k].by = r => query[r].key = k /\ pc[r] \notin {"new", "get", "mark"}
    /\ repos[k].state = "INDEXING" => repos[k].by \in Reqs

\* Until a handler has decided on its answer, all it can have in the store
\* is its marker; a result that carries an error is never a good repo.
AnswerInv ==
  \A r \in Reqs :
    /\ pc[r] \in {"new", "get", "mark", "refuse", "wait", "select"}
         => answer[r] # "error"
    /\ pc[r] \in {"refuse", "wait", "select"}
         => \A k \in Keys : repos[k].by = r => repos[k].state = "INDEXING"
    /\ worker[r].res.repo = "OK" => ~worker[r].res.err
    /\ ch[r].buf.repo = "OK" => ~ch[r].buf.err

\* What an RPC request that has failed still has in the store is its marker,
\* and it is about to be cleared.
FailureInv ==
  \A r \in Reqs, k \in Keys :
    (answer[r] = "error" /\ ~query[r].web /\ repos[k].by = r)
      => pc[r] \in {"cleanget", "cleandel"} /\ repos[k].state = "INDEXING"

\* What a search holds was good when it was stored: its request, if it came
\* from one, had decided on its answer, and that was no failure.  A search
\* never holds a marker, so it can put none back.
HeldInv ==
  \A s \in Searches, k \in Keys :
    /\ held[s][k].state \in {"none", "OK", "ERROR"}
    /\ \A r \in Reqs :
         held[s][k].by = r =>
           /\ query[r].key = k
           /\ pc[r] \in {"cleanget", "cleandel", "done"}
           /\ answer[r] = "error" => query[r].web

\* Every request that is past its Get of the key of a good repo counts as
\* stale, but for one whose cleanup will find that repo and leave it alone.
StaleInv ==
  \A k \in Keys :
    repos[k].state = "OK" =>
      \A r \in Committed(k) : r \in stale \/ pc[r] = "cleanget"

\* A goroutine that par runs keeps the handler waiting, and until par returns
\* the channel is open.
ChannelInv ==
  \A r \in Reqs :
    /\ worker[r].at # "none" => pc[r] = "wait"
    /\ pc[r] \in {"new", "get", "mark", "refuse", "wait"} => ch[r].open

Inv == TypeOK /\ EntryInv /\ MarkerHasHandler
Inv2 == AnswerInv /\ FailureInv /\ HeldInv
-----------------------------------------------------------------------------
\* The parts of a result and an entry have their types.
LEMMA ResultTypes ==
  /\ RemoteResults \subseteq Result
  /\ LocalResults \subseteq RemoteResults
  /\ NoResult \in Result
  /\ \A res \in RemoteResults : res.repo = "OK" => ~res.err
<1>1. LocalResults \subseteq RemoteResults
  BY DEF RemoteResults
<1>2. NoResult \in Result
  BY DEF NoResult, Result
<1>3. ASSUME NEW res \in RemoteResults
      PROVE res \in Result /\ (res.repo = "OK" => ~res.err)
  <2>1. CASE res \in LocalResults
    <3>1. \/ res = [repo |-> "OK", err |-> FALSE]
          \/ res = [repo |-> "bad", err |-> TRUE]
          \/ res = [repo |-> "none", err |-> TRUE]
      BY <2>1 DEF LocalResults
    <3>2. CASE res = [repo |-> "OK", err |-> FALSE]
      BY <3>2 DEF Result
    <3>3. CASE res = [repo |-> "bad", err |-> TRUE]
      BY <3>3 DEF Result
    <3>4. CASE res = [repo |-> "none", err |-> TRUE]
      BY <3>4 DEF Result
    <3> QED BY <3>1, <3>2, <3>3, <3>4
  <2>2. CASE res = [repo |-> "bad", err |-> FALSE]
    BY <2>2 DEF Result
  <2> QED BY <2>1, <2>2 DEF RemoteResults
<1> QED BY <1>1, <1>2, <1>3

\* Type correctness: every step, a restart included, keeps every variable
\* in its type.
LEMMA TypeInductive == TypeOK /\ [Next]_vars => TypeOK'
<1> SUFFICES ASSUME TypeOK, [Next]_vars PROVE TypeOK'
  OBVIOUS
<1> USE ResultTypes DEF TypeOK, history
<1>q. \A r \in Reqs : query[r] \in Query /\ query[r].key \in Keys
                      /\ query[r].web \in BOOLEAN
  BY QueriesAreQueries DEF Query
<1>e. /\ NoEntry \in Entry
      /\ \A s \in States, r \in Reqs : [state |-> s, by |-> r] \in Entry
  BY DEF Entry
<1>s. "INDEXING" \in States /\ "OK" \in States
  BY DEF States
<1>1. ASSUME NEW r \in Reqs, Arrive(r) \/ Miss(r) PROVE TypeOK'
  BY <1>1 DEF Arrive, Miss, Goto, Indexing
<1>2. ASSUME NEW r \in Reqs, ReturnExisting(r) PROVE TypeOK'
  BY <1>2 DEF ReturnExisting, Respond, Goto
<1>3. ASSUME NEW r \in Reqs, RejectInvalid(r) PROVE TypeOK'
  BY <1>3 DEF RejectInvalid, Respond, Goto
<1>4. ASSUME NEW r \in Reqs, SetMarker(r) PROVE TypeOK'
  <2>1. repos' \in [Keys -> Entry]
    BY <1>4, <1>q, <1>e, <1>s DEF SetMarker, Store
  <2>2. pc' \in [Reqs -> Indexing \cup {"new", "get", "mark", "done"}]
    BY <1>4 DEF SetMarker, Goto, Indexing
  <2>3. worker' \in [Reqs -> [at : {"none", "run", "check", "send"}, res : Result]]
    BY <1>4, SMTT(30) DEF SetMarker
  <2>4. ctx' \in [Reqs -> {"none", "live", "done"}]
    BY <1>4 DEF SetMarker
  <2>5. UNCHANGED <<cfg, early, held, query, ch, answer, exited, stale>>
    BY <1>4 DEF SetMarker
  <2> QED BY <2>1, <2>2, <2>3, <2>4, <2>5
<1>5. ASSUME NEW r \in Reqs, Refuse(r) PROVE TypeOK'
  <2>1. repos' \in [Keys -> Entry]
    BY <1>5, <1>q, <1>e DEF Refuse, Remove, Store
  <2> QED BY <1>5, <2>1 DEF Refuse, Respond, Goto, Indexing
<1>6. ASSUME NEW r \in Reqs, NEW res \in RemoteResults, WorkerReturns(r, res)
      PROVE TypeOK'
  BY <1>6 DEF WorkerReturns
<1>w. NoWorker \in [at : {"none", "run", "check", "send"}, res : Result]
  BY DEF NoWorker
<1>7. ASSUME NEW r \in Reqs, WorkerDrops(r) PROVE TypeOK'
  BY <1>7, <1>w DEF WorkerDrops
<1>8. ASSUME NEW r \in Reqs, WorkerGoesOn(r) PROVE TypeOK'
  BY <1>8 DEF WorkerGoesOn
<1>9. ASSUME NEW r \in Reqs, WorkerSends(r) PROVE TypeOK'
  BY <1>9, <1>w DEF WorkerSends
<1>10. ASSUME NEW r \in Reqs, Timeout(r) PROVE TypeOK'
  BY <1>10 DEF Timeout
<1>11. ASSUME NEW r \in Reqs, ParReturns(r) PROVE TypeOK'
  BY <1>11 DEF ParReturns, Goto, Indexing
<1>c. ASSUME NEW r \in Reqs,
             ch' = [ch EXCEPT ![r].full = FALSE, ![r].buf = NoResult]
      PROVE ch' \in [Reqs -> [open : BOOLEAN, full : BOOLEAN, buf : Result]]
  <2>1. ch[r] \in [open : BOOLEAN, full : BOOLEAN, buf : Result]
    OBVIOUS
  <2>2. [ch[r] EXCEPT !.full = FALSE, !.buf = NoResult]
          \in [open : BOOLEAN, full : BOOLEAN, buf : Result]
    BY <2>1
  <2>3. ch' = [ch EXCEPT ![r] = [ch[r] EXCEPT !.full = FALSE, !.buf = NoResult]]
    BY <1>c
  <2> QED BY <2>2, <2>3
<1>12. ASSUME NEW r \in Reqs, SelectTimeout(r) \/ SelectNothing(r) PROVE TypeOK'
  <2>1. CASE SelectTimeout(r)
    <3>1. ch' \in [Reqs -> [open : BOOLEAN, full : BOOLEAN, buf : Result]]
      BY <2>1, <1>c DEF SelectTimeout
    <3> QED BY <2>1, <3>1 DEF SelectTimeout, Respond, Goto, Indexing
  <2>2. CASE SelectNothing(r)
    BY <2>2 DEF SelectNothing, Respond, Goto, Indexing
  <2> QED BY <1>12, <2>1, <2>2
<1>13. ASSUME NEW r \in Reqs, SelectResult(r) PROVE TypeOK'
  <2>2. repos' \in [Keys -> Entry]
    <3> DEFINE k == query[r].key
    <3>1. \/ Store(k, [state |-> "OK", by |-> r])
          \/ Remove(k)
          \/ UNCHANGED repos
      BY <1>13 DEF SelectResult
    <3>2. k \in Keys /\ [state |-> "OK", by |-> r] \in Entry
      BY <1>q, <1>e, <1>s
    <3> QED BY <3>1, <3>2, <1>e DEF Store, Remove
  <2>3. stale' \subseteq Reqs
    BY <1>13 DEF SelectResult, Committed
  <2>4. ch' \in [Reqs -> [open : BOOLEAN, full : BOOLEAN, buf : Result]]
    BY <1>13, <1>c DEF SelectResult
  <2>5. answer' \in [Reqs -> {"pending", "ok", "error"}]
    BY <1>13 DEF SelectResult, Respond
  <2>6. /\ UNCHANGED <<cfg, early, held, query, ctx, worker, exited>>
        /\ pc' = [pc EXCEPT ![r] = "cleanget"]
    BY <1>13 DEF SelectResult, Goto
  <2> QED BY <2>2, <2>3, <2>4, <2>5, <2>6 DEF Indexing
<1>14. ASSUME NEW r \in Reqs, CleanupGet(r) PROVE TypeOK'
  BY <1>14 DEF CleanupGet, Goto, Indexing
<1>15. ASSUME NEW r \in Reqs, CleanupDelete(r) PROVE TypeOK'
  BY <1>15, <1>q, <1>e DEF CleanupDelete, Remove, Store, Goto
<1>16. ASSUME NEW k \in Keys, DeleteRepo(k) PROVE TypeOK'
  BY <1>16, <1>e DEF DeleteRepo, Remove, Store
<1>h. ASSUME NEW s \in Searches, NEW k \in Keys, NEW e \in Entry,
             held' = [held EXCEPT ![s][k] = e]
      PROVE held' \in [Searches -> [Keys -> Entry]]
  BY <1>h
<1>a. ASSUME NEW s \in Searches, NEW k \in Keys, NEW e \in Entry, SearchPicks(s, k, e)
      PROVE TypeOK'
  BY <1>a, <1>h DEF SearchPicks
<1>b. ASSUME NEW s \in Searches, NEW k \in Keys, SearchFails(s, k) PROVE TypeOK'
  <2> DEFINE bad == [held[s][k] EXCEPT !.state = "ERROR"]
  <2>1. bad \in Entry
    <3>1. held[s][k] \in Entry /\ held[s][k] # NoEntry
      BY <1>b DEF SearchFails
    <3>2. held[s][k] \in [state : States, by : Reqs \cup {NoReq}]
      BY <3>1 DEF Entry
    <3> QED BY <3>2 DEF Entry, States
  <2>2. repos' \in [Keys -> Entry]
    <3>1. Remove(k) \/ Store(k, bad)
      BY <1>b DEF SearchFails
    <3> HIDE DEF bad
    <3> QED BY <3>1, <2>1, <1>e DEF Remove, Store
  <2>3. held' \in [Searches -> [Keys -> Entry]]
    <3>1. held' = [held EXCEPT ![s][k] = bad]
      BY <1>b DEF SearchFails
    <3> HIDE DEF bad
    <3> QED BY <3>1, <2>1, <1>h
  <2> QED BY <1>b, <2>2, <2>3 DEF SearchFails
<1>d. ASSUME NEW s \in Searches, NEW k \in Keys, SearchWritesBack(s, k) PROVE TypeOK'
  <2>1. held[s][k] \in Entry
    OBVIOUS
  <2>2. repos' \in [Keys -> Entry]
    BY <1>d, <2>1, <1>e DEF SearchWritesBack, Remove, Store
  <2>3. held' \in [Searches -> [Keys -> Entry]]
    BY <1>d, <1>e, <1>h DEF SearchWritesBack
  <2>4. stale' \subseteq Reqs
    BY <1>d DEF SearchWritesBack, Committed
  <2> QED BY <1>d, <2>2, <2>3, <2>4 DEF SearchWritesBack
<1>17. ASSUME Restart PROVE TypeOK'
  BY <1>17, <1>w, <1>e DEF Restart, FreshChan
<1>18. CASE Exit
  BY <1>17, <1>18 DEF Exit
<1>19. ASSUME NEW r \in Reqs, WorkerPanics(r) PROVE TypeOK'
  BY <1>17, <1>19 DEF WorkerPanics
<1>20. CASE UNCHANGED vars
  BY <1>20 DEF vars
<1> QED
  BY <1>1, <1>2, <1>3, <1>4, <1>5, <1>6, <1>7, <1>8, <1>9, <1>10, <1>11,
     <1>12, <1>13, <1>14, <1>15, <1>16, <1>a, <1>b, <1>d, <1>18, <1>19, <1>20
  DEF Next, Handler, Worker

\* The queries and entries of a typed state have the fields they should.
LEMMA StoreTypes ==
  TypeOK => /\ \A r \in Reqs : query[r].key \in Keys
            /\ \A k \in Keys : repos[k] # NoEntry => repos[k].state # "none"
            /\ NoEntry.by \notin Reqs /\ NoEntry.state = "none"
<1> SUFFICES ASSUME TypeOK PROVE StoreTypes!2
  OBVIOUS
<1>1. \A r \in Reqs : query[r].key \in Keys
  BY QueriesAreQueries DEF TypeOK, Query
<1>2. NoEntry.by \notin Reqs /\ NoEntry.state = "none"
  BY NoReqIsNone DEF NoEntry
<1>3. \A k \in Keys :
        repos[k] = NoEntry \/ repos[k] \in [state : States, by : Reqs \cup {NoReq}]
  BY DEF TypeOK, Entry
<1> QED BY <1>1, <1>2, <1>3 DEF States

\* A search that cannot open a shard keeps the repo it holds, in ERROR, and
\* removes the entry or puts that repo in its place.
LEMMA FailingSearch ==
  ASSUME TypeOK, NEW s \in Searches, NEW k \in Keys, SearchFails(s, k)
  PROVE \E b : /\ b.by = held[s][k].by /\ b.state = "ERROR"
               /\ held' = [held EXCEPT ![s][k] = b]
               /\ Remove(k) \/ Store(k, b)
               /\ UNCHANGED <<pc, query, ctx, worker, ch, answer, exited, stale>>
<1> DEFINE bad == [held[s][k] EXCEPT !.state = "ERROR"]
<1>1. held[s][k] \in Entry /\ held[s][k] # NoEntry
  BY DEF TypeOK, SearchFails
<1>2. held[s][k] \in [state : States, by : Reqs \cup {NoReq}]
  BY <1>1 DEF Entry
<1>3. bad.by = held[s][k].by /\ bad.state = "ERROR"
  BY <1>2
<1>4. /\ held' = [held EXCEPT ![s][k] = bad]
      /\ Remove(k) \/ Store(k, bad)
      /\ UNCHANGED <<pc, query, ctx, worker, ch, answer, exited, stale>>
  BY DEF SearchFails, history
<1> HIDE DEF bad
<1> QED BY <1>3, <1>4

\* No step of any handler, user or search leaves a marker without the
\* handler that will clear it.
LEMMA MarkerInductive ==
  Inv /\ Inv2 /\ [Next]_vars => (EntryInv /\ MarkerHasHandler)'
<1> SUFFICES ASSUME Inv, Inv2, [Next]_vars PROVE (EntryInv /\ MarkerHasHandler)'
  OBVIOUS
<1> DEFINE G == (EntryInv /\ MarkerHasHandler)'
<1> USE StoreTypes DEF Inv, TypeOK, EntryInv, MarkerHasHandler, Indexing,
             Inv2, HeldInv, history
<1>1. ASSUME NEW r \in Reqs, Arrive(r) PROVE G
  BY <1>1 DEF Arrive, Goto
<1>2. ASSUME NEW r \in Reqs, ReturnExisting(r) PROVE G
  BY <1>2 DEF ReturnExisting, Respond, Goto
<1>3. ASSUME NEW r \in Reqs, RejectInvalid(r) PROVE G
  BY <1>3 DEF RejectInvalid, Respond, Goto
<1>4. ASSUME NEW r \in Reqs, Miss(r) PROVE G
  BY <1>4 DEF Miss, Goto, Has
<1>5. ASSUME NEW r \in Reqs, SetMarker(r) PROVE G
  BY <1>5 DEF SetMarker, Store, Goto
<1>6. ASSUME NEW r \in Reqs, Refuse(r) PROVE G
  BY <1>6 DEF Refuse, Remove, Store, Respond, Goto
<1>7. ASSUME NEW r \in Reqs, NEW res \in RemoteResults,
             WorkerReturns(r, res) PROVE G
  BY <1>7 DEF WorkerReturns
<1>8. ASSUME NEW r \in Reqs, WorkerDrops(r) PROVE G
  BY <1>8 DEF WorkerDrops, NoWorker, NoResult
<1>9. ASSUME NEW r \in Reqs, WorkerGoesOn(r) PROVE G
  BY <1>9 DEF WorkerGoesOn
<1>10. ASSUME NEW r \in Reqs, WorkerSends(r) PROVE G
  BY <1>10 DEF WorkerSends, NoWorker, NoResult
<1>11. ASSUME NEW r \in Reqs, Timeout(r) PROVE G
  BY <1>11 DEF Timeout
<1>12. ASSUME NEW r \in Reqs, ParReturns(r) PROVE G
  BY <1>12 DEF ParReturns, Goto
<1>13. ASSUME NEW r \in Reqs, SelectTimeout(r) PROVE G
  BY <1>13 DEF SelectTimeout, Respond, Goto
<1>14. ASSUME NEW r \in Reqs, SelectNothing(r) PROVE G
  BY <1>14 DEF SelectNothing, Respond, Goto
<1>15. ASSUME NEW r \in Reqs, SelectResult(r) PROVE G
  <2> DEFINE k == query[r].key
             in == ch[r].buf
  <2>1. CASE in.repo = "OK" /\ Store(k, [state |-> "OK", by |-> r])
    BY <1>15, <2>1 DEF SelectResult, Store, Respond, Goto, NoResult
  <2>2. CASE in.repo # "OK" /\ Remove(k)
    BY <1>15, <2>2 DEF SelectResult, Remove, Store, Respond, Goto, NoResult
  <2>3. CASE in.repo # "OK" /\ UNCHANGED repos
    BY <1>15, <2>3 DEF SelectResult, Respond, Goto, NoResult
  <2> QED BY <1>15, <2>1, <2>2, <2>3 DEF SelectResult
<1>16. ASSUME NEW r \in Reqs, CleanupGet(r) PROVE G
  BY <1>16 DEF CleanupGet, Goto
<1>17. ASSUME NEW r \in Reqs, CleanupDelete(r) PROVE G
  BY <1>17 DEF CleanupDelete, Remove, Store, Goto
<1>18. ASSUME NEW k \in Keys, DeleteRepo(k) PROVE G
  BY <1>18 DEF DeleteRepo, Remove, Store
<1>19. ASSUME NEW s \in Searches, NEW k \in Keys, NEW e \in Entry,
              SearchPicks(s, k, e) PROVE G
  BY <1>19 DEF SearchPicks
<1>19a. ASSUME NEW s \in Searches, NEW k \in Keys, SearchFails(s, k) PROVE G
  <2>0. PICK b : /\ b.by = held[s][k].by /\ b.state = "ERROR"
                 /\ held' = [held EXCEPT ![s][k] = b]
                 /\ Remove(k) \/ Store(k, b)
                 /\ UNCHANGED <<pc, query, ctx, worker, ch, answer, exited, stale>>
    BY <1>19a, FailingSearch
  <2>1. CASE Remove(k)
    BY <2>0, <2>1 DEF Remove, Store
  <2>h. /\ held[s][k].state \in {"none", "OK", "ERROR"}
        /\ \A r \in Reqs :
             held[s][k].by = r =>
               /\ query[r].key = k
               /\ pc[r] \in {"cleanget", "cleandel", "done"}
               /\ answer[r] = "error" => query[r].web
    OBVIOUS
  <2>2. CASE Store(k, b)
    <3>1. repos' = [repos EXCEPT ![k] = b]
      BY <2>2 DEF Store
    <3> QED BY <2>0, <2>h, <3>1
  <2> QED BY <2>0, <2>1, <2>2
<1>19b. ASSUME NEW s \in Searches, NEW k \in Keys, SearchWritesBack(s, k) PROVE G
  <2>h. /\ held[s][k].state \in {"none", "OK", "ERROR"}
        /\ \A r \in Reqs :
             held[s][k].by = r =>
               /\ query[r].key = k
               /\ pc[r] \in {"cleanget", "cleandel", "done"}
               /\ answer[r] = "error" => query[r].web
    OBVIOUS
  <2>1. CASE held[s][k].state = "OK" /\ Store(k, held[s][k])
    <3> DEFINE b == held[s][k]
    <3>1. /\ repos' = [repos EXCEPT ![k] = b]
          /\ held' = [held EXCEPT ![s][k] = NoEntry]
          /\ UNCHANGED <<pc, query, worker, ch, answer, exited>>
      BY <1>19b, <2>1 DEF SearchWritesBack, Store
    <3>2. /\ b.state = "OK"
          /\ \A r \in Reqs :
               b.by = r => /\ query[r].key = k
                           /\ pc[r] \in {"cleanget", "cleandel", "done"}
                           /\ answer[r] = "error" => query[r].web
      BY <2>1, <2>h
    <3> HIDE DEF b
    <3> QED BY <3>1, <3>2
  <2>2. CASE held[s][k].state # "OK" /\ Remove(k)
    BY <1>19b, <2>2 DEF SearchWritesBack, Remove, Store
  <2>3. CASE held[s][k].state # "OK" /\ UNCHANGED repos
    BY <1>19b, <2>3 DEF SearchWritesBack
  <2> QED BY <1>19b, <2>1, <2>2, <2>3 DEF SearchWritesBack
<1>20. ASSUME Restart PROVE G
  BY <1>20 DEF Restart, NoWorker, FreshChan, NoResult
<1>21. CASE UNCHANGED vars
  BY <1>21 DEF vars
<1> QED
  BY <1>1, <1>2, <1>3, <1>4, <1>5, <1>6, <1>7, <1>8, <1>9, <1>10, <1>11,
     <1>12, <1>13, <1>14, <1>15, <1>16, <1>17, <1>18, <1>19, <1>19a,
     <1>19b, <1>20, <1>21
  DEF Next, Handler, Worker, Exit, WorkerPanics

\* A failure is decided on before the cleanup and leaves at most the marker.
LEMMA AnswerInductive ==
  Inv /\ Inv2 /\ [Next]_vars => (AnswerInv /\ FailureInv /\ HeldInv)'
<1> SUFFICES ASSUME Inv, Inv2, [Next]_vars
             PROVE (AnswerInv /\ FailureInv /\ HeldInv)'
  OBVIOUS
<1> DEFINE G == (AnswerInv /\ FailureInv /\ HeldInv)'
<1> USE ResultTypes, StoreTypes DEF Inv, TypeOK, EntryInv, Inv2, AnswerInv,
             FailureInv, HeldInv, history
<1>1. ASSUME NEW r \in Reqs, Arrive(r) PROVE G
  BY <1>1 DEF Arrive, Goto
<1>2. ASSUME NEW r \in Reqs, ReturnExisting(r) PROVE G
  BY <1>2 DEF ReturnExisting, Respond, Goto
<1>3. ASSUME NEW r \in Reqs, RejectInvalid(r) PROVE G
  BY <1>3 DEF RejectInvalid, Respond, Goto
<1>4. ASSUME NEW r \in Reqs, Miss(r) PROVE G
  BY <1>4 DEF Miss, Goto, Has
<1>5. ASSUME NEW r \in Reqs, SetMarker(r) PROVE G
  BY <1>5 DEF SetMarker, Store, Goto
<1>6. ASSUME NEW r \in Reqs, Refuse(r) PROVE G
  BY <1>6 DEF Refuse, Remove, Store, Respond, Goto
<1>7. ASSUME NEW r \in Reqs, NEW res \in RemoteResults,
             WorkerReturns(r, res) PROVE G
  BY <1>7 DEF WorkerReturns
<1>8. ASSUME NEW r \in Reqs, WorkerDrops(r) PROVE G
  BY <1>8 DEF WorkerDrops, NoWorker, NoResult
<1>9. ASSUME NEW r \in Reqs, WorkerGoesOn(r) PROVE G
  BY <1>9 DEF WorkerGoesOn
<1>10. ASSUME NEW r \in Reqs, WorkerSends(r) PROVE G
  BY <1>10 DEF WorkerSends, NoWorker, NoResult
<1>11. ASSUME NEW r \in Reqs, Timeout(r) PROVE G
  BY <1>11 DEF Timeout
<1>12. ASSUME NEW r \in Reqs, ParReturns(r) PROVE G
  BY <1>12 DEF ParReturns, Goto
<1>13. ASSUME NEW r \in Reqs, SelectTimeout(r) PROVE G
  <2>1. \A q \in Reqs : ch'[q].buf.repo = "OK" => ~ch'[q].buf.err
    BY <1>13 DEF SelectTimeout, NoResult
  <2> QED BY <1>13, <2>1 DEF SelectTimeout, Respond, Goto
<1>14. ASSUME NEW r \in Reqs, SelectNothing(r) PROVE G
  BY <1>14 DEF SelectNothing, Respond, Goto
<1>15. ASSUME NEW r \in Reqs, SelectResult(r) PROVE G
  <2> DEFINE k == query[r].key
             in == ch[r].buf
  <2>1. CASE in.repo = "OK" /\ Store(k, [state |-> "OK", by |-> r])
    <3>1. answer'[r] = "error" => in.err \/ query[r].web
      BY <1>15 DEF SelectResult, Respond
    <3>2. ~in.err
      BY <2>1
    <3> QED BY <1>15, <2>1, <3>1, <3>2
        DEF SelectResult, Store, Respond, Goto, NoResult
  <2>2. CASE in.repo # "OK" /\ Remove(k)
    BY <1>15, <2>2 DEF SelectResult, Remove, Store, Respond, Goto, NoResult
  <2>3. CASE in.repo # "OK" /\ UNCHANGED repos
    BY <1>15, <2>3 DEF SelectResult, Respond, Goto, NoResult
  <2> QED BY <1>15, <2>1, <2>2, <2>3 DEF SelectResult
<1>16. ASSUME NEW r \in Reqs, CleanupGet(r) PROVE G
  BY <1>16 DEF CleanupGet, Goto
<1>17. ASSUME NEW r \in Reqs, CleanupDelete(r) PROVE G
  BY <1>17 DEF CleanupDelete, Remove, Store, Goto
<1>18. ASSUME NEW k \in Keys, DeleteRepo(k) PROVE G
  BY <1>18 DEF DeleteRepo, Remove, Store
<1>19. ASSUME NEW s \in Searches, NEW k \in Keys, NEW e \in Entry,
              SearchPicks(s, k, e) PROVE G
  <2>1. AnswerInv' /\ FailureInv'
    BY <1>19 DEF SearchPicks
  <2>2. /\ e.state = "OK"
        /\ \A r \in Reqs :
             e.by = r => /\ query[r].key = k
                         /\ pc[r] \notin {"new", "get", "mark"}
                         /\ pc[r] \notin {"refuse", "wait", "select"}
                         /\ answer[r] = "error" => query[r].web
    BY <1>19, NoReqIsNone DEF SearchPicks
  <2>3. /\ held' = [held EXCEPT ![s][k] = e]
        /\ UNCHANGED <<pc, query, answer>>
    BY <1>19 DEF SearchPicks
  <2>4. HeldInv'
    BY <2>2, <2>3 DEF Indexing
  <2> QED BY <2>1, <2>4
<1>19a. ASSUME NEW s \in Searches, NEW k \in Keys, SearchFails(s, k) PROVE G
  <2>0. PICK b : /\ b.by = held[s][k].by /\ b.state = "ERROR"
                 /\ held' = [held EXCEPT ![s][k] = b]
                 /\ Remove(k) \/ Store(k, b)
                 /\ UNCHANGED <<pc, query, ctx, worker, ch, answer, exited, stale>>
    BY <1>19a, FailingSearch
  <2>1. CASE Remove(k)
    BY <2>0, <2>1 DEF Remove, Store
  <2>h. /\ held[s][k].state \in {"none", "OK", "ERROR"}
        /\ \A r \in Reqs :
             held[s][k].by = r =>
               /\ query[r].key = k
               /\ pc[r] \in {"cleanget", "cleandel", "done"}
               /\ answer[r] = "error" => query[r].web
    OBVIOUS
  <2>2. CASE Store(k, b)
    <3>1. repos' = [repos EXCEPT ![k] = b]
      BY <2>2 DEF Store
    <3> QED BY <2>0, <2>h, <3>1
  <2> QED BY <2>0, <2>1, <2>2
<1>19b. ASSUME NEW s \in Searches, NEW k \in Keys, SearchWritesBack(s, k) PROVE G
  <2>h. /\ held[s][k].state \in {"none", "OK", "ERROR"}
        /\ \A r \in Reqs :
             held[s][k].by = r =>
               /\ query[r].key = k
               /\ pc[r] \in {"cleanget", "cleandel", "done"}
               /\ answer[r] = "error" => query[r].web
    OBVIOUS
  <2>1. CASE held[s][k].state = "OK" /\ Store(k, held[s][k])
    <3> DEFINE b == held[s][k]
    <3>1. /\ repos' = [repos EXCEPT ![k] = b]
          /\ held' = [held EXCEPT ![s][k] = NoEntry]
          /\ UNCHANGED <<pc, query, worker, ch, answer, exited>>
      BY <1>19b, <2>1 DEF SearchWritesBack, Store
    <3>2. /\ b.state = "OK"
          /\ \A r \in Reqs :
               b.by = r => /\ query[r].key = k
                           /\ pc[r] \in {"cleanget", "cleandel", "done"}
                           /\ answer[r] = "error" => query[r].web
      BY <2>1, <2>h
    <3> HIDE DEF b
    <3> QED BY <3>1, <3>2
  <2>2. CASE held[s][k].state # "OK" /\ Remove(k)
    BY <1>19b, <2>2 DEF SearchWritesBack, Remove, Store
  <2>3. CASE held[s][k].state # "OK" /\ UNCHANGED repos
    BY <1>19b, <2>3 DEF SearchWritesBack
  <2> QED BY <1>19b, <2>1, <2>2, <2>3 DEF SearchWritesBack
<1>20. ASSUME Restart PROVE G
  <2>1. AnswerInv'
    BY <1>20 DEF Restart, NoWorker, FreshChan, NoResult
  <2>2. ASSUME NEW r \in Reqs, answer'[r] = "error"
        PROVE pc[r] = "done" /\ answer'[r] = answer[r]
    BY <1>20, <2>2 DEF Restart
  <2>3. UNCHANGED <<repos, query>>
    BY <1>20 DEF Restart
  <2>4. FailureInv'
    <3> SUFFICES ASSUME NEW r \in Reqs, NEW k \in Keys, answer'[r] = "error",
                        ~query'[r].web, repos'[k].by = r
                 PROVE FALSE
      OBVIOUS
    <3>1. answer[r] = "error" /\ pc[r] = "done" /\ ~query[r].web /\ repos[k].by = r
      BY <2>2, <2>3
    <3> HIDE DEF TypeOK, EntryInv, AnswerInv, HeldInv
    <3>2. pc[r] \in {"cleanget", "cleandel"}
      BY <3>1
    <3> QED BY <3>1, <3>2
  <2>5. ASSUME NEW s \in Searches, NEW k \in Keys PROVE held'[s][k] = NoEntry
    BY <1>20 DEF Restart
  <2>6. NoEntry.state = "none" /\ NoEntry.by \notin Reqs
    OBVIOUS
  <2>7. HeldInv'
    <3> HIDE DEF Inv, Inv2
    <3> QED BY <2>5, <2>6
  <2> QED BY <2>1, <2>4, <2>7
<1>21. CASE UNCHANGED vars
  BY <1>21 DEF vars
<1> QED
  BY <1>1, <1>2, <1>3, <1>4, <1>5, <1>6, <1>7, <1>8, <1>9, <1>10, <1>11,
     <1>12, <1>13, <1>14, <1>15, <1>16, <1>17, <1>18, <1>19, <1>19a,
     <1>19b, <1>20, <1>21
  DEF Next, Handler, Worker, Exit, WorkerPanics

\* A request gets past its Get only while no repo is stored under its key,
\* so whoever is past it when one is stored is counted stale then.
LEMMA StaleInductive ==
  Inv /\ StaleInv /\ [Next]_vars => (StaleInv)'
<1> SUFFICES ASSUME Inv, StaleInv, [Next]_vars PROVE (StaleInv)'
  OBVIOUS
<1> DEFINE G == (StaleInv)'
<1> USE StoreTypes DEF Inv, TypeOK, EntryInv, StaleInv, Committed, Indexing,
             history
<1>1. ASSUME NEW r \in Reqs, Arrive(r) PROVE G
  BY <1>1 DEF Arrive, Goto
<1>2. ASSUME NEW r \in Reqs, ReturnExisting(r) PROVE G
  BY <1>2 DEF ReturnExisting, Respond, Goto
<1>3. ASSUME NEW r \in Reqs, RejectInvalid(r) PROVE G
  BY <1>3 DEF RejectInvalid, Respond, Goto
<1>4. ASSUME NEW r \in Reqs, Miss(r) PROVE G
  BY <1>4 DEF Miss, Goto, Has
<1>5. ASSUME NEW r \in Reqs, SetMarker(r) PROVE G
  BY <1>5 DEF SetMarker, Store, Goto
<1>6. ASSUME NEW r \in Reqs, Refuse(r) PROVE G
  BY <1>6 DEF Refuse, Remove, Store, Respond, Goto
<1>7. ASSUME NEW r \in Reqs, NEW res \in RemoteResults,
             WorkerReturns(r, res) PROVE G
  BY <1>7 DEF WorkerReturns
<1>8. ASSUME NEW r \in Reqs, WorkerDrops(r) PROVE G
  BY <1>8 DEF WorkerDrops, NoWorker, NoResult
<1>9. ASSUME NEW r \in Reqs, WorkerGoesOn(r) PROVE G
  BY <1>9 DEF WorkerGoesOn
<1>10. ASSUME NEW r \in Reqs, WorkerSends(r) PROVE G
  BY <1>10 DEF WorkerSends, NoWorker, NoResult
<1>11. ASSUME NEW r \in Reqs, Timeout(r) PROVE G
  BY <1>11 DEF Timeout
<1>12. ASSUME NEW r \in Reqs, ParReturns(r) PROVE G
  BY <1>12 DEF ParReturns, Goto
<1>13. ASSUME NEW r \in Reqs, SelectTimeout(r) PROVE G
  BY <1>13 DEF SelectTimeout, Respond, Goto
<1>14. ASSUME NEW r \in Reqs, SelectNothing(r) PROVE G
  BY <1>14 DEF SelectNothing, Respond, Goto
<1>15. ASSUME NEW r \in Reqs, SelectResult(r) PROVE G
  <2> DEFINE k == query[r].key
             in == ch[r].buf
  <2>1. CASE in.repo = "OK" /\ Store(k, [state |-> "OK", by |-> r])
    BY <1>15, <2>1 DEF SelectResult, Store, Respond, Goto, NoResult
  <2>2. CASE in.repo # "OK" /\ Remove(k)
    BY <1>15, <2>2 DEF SelectResult, Remove, Store, Respond, Goto, NoResult
  <2>3. CASE in.repo # "OK" /\ UNCHANGED repos
    BY <1>15, <2>3 DEF SelectResult, Respond, Goto, NoResult
  <2> QED BY <1>15, <2>1, <2>2, <2>3 DEF SelectResult
<1>16. ASSUME NEW r \in Reqs, CleanupGet(r) PROVE G
  BY <1>16 DEF CleanupGet, Goto
<1>17. ASSUME NEW r \in Reqs, CleanupDelete(r) PROVE G
  BY <1>17 DEF CleanupDelete, Remove, Store, Goto
<1>18. ASSUME NEW k \in Keys, DeleteRepo(k) PROVE G
  BY <1>18 DEF DeleteRepo, Remove, Store
<1>19. ASSUME NEW s \in Searches, NEW k \in Keys, NEW e \in Entry,
              SearchPicks(s, k, e) PROVE G
  BY <1>19 DEF SearchPicks
<1>19a. ASSUME NEW s \in Searches, NEW k \in Keys, SearchFails(s, k) PROVE G
  <2>0. PICK b : /\ b.by = held[s][k].by /\ b.state = "ERROR"
                 /\ held' = [held EXCEPT ![s][k] = b]
                 /\ Remove(k) \/ Store(k, b)
                 /\ UNCHANGED <<pc, query, ctx, worker, ch, answer, exited, stale>>
    BY <1>19a, FailingSearch
  <2>1. CASE Remove(k)
    BY <2>0, <2>1 DEF Remove, Store
  <2>2. CASE Store(k, b)
    BY <2>0, <2>2 DEF Store
  <2> QED BY <2>0, <2>1, <2>2
<1>19b. ASSUME NEW s \in Searches, NEW k \in Keys, SearchWritesBack(s, k) PROVE G
  <2>1. CASE held[s][k].state = "OK" /\ Store(k, held[s][k])
    BY <1>19b, <2>1 DEF SearchWritesBack, Store
  <2>2. CASE held[s][k].state # "OK" /\ Remove(k)
    BY <1>19b, <2>2 DEF SearchWritesBack, Remove, Store
  <2>3. CASE held[s][k].state # "OK" /\ UNCHANGED repos
    BY <1>19b, <2>3 DEF SearchWritesBack
  <2> QED BY <1>19b, <2>1, <2>2, <2>3 DEF SearchWritesBack
<1>20. ASSUME Restart PROVE G
  BY <1>20 DEF Restart, NoWorker, FreshChan, NoResult
<1>21. CASE UNCHANGED vars
  BY <1>21 DEF vars
<1> QED
  BY <1>1, <1>2, <1>3, <1>4, <1>5, <1>6, <1>7, <1>8, <1>9, <1>10, <1>11,
     <1>12, <1>13, <1>14, <1>15, <1>16, <1>17, <1>18, <1>19, <1>19a,
     <1>19b, <1>20, <1>21
  DEF Next, Handler, Worker, Exit, WorkerPanics

\* No step changes which of the two ways par works.
LEMMA ParIsParForGood == [Next]_vars => early' = early
<1> SUFFICES ASSUME [Next]_vars PROVE early' = early
  OBVIOUS
<1>1. ASSUME NEW r \in Reqs, Handler(r) PROVE early' = early
  BY <1>1 DEF Handler, ReturnExisting, RejectInvalid, Miss, SetMarker, Refuse,
              ParReturns, SelectTimeout, SelectNothing, SelectResult,
              CleanupGet, CleanupDelete
<1>2. ASSUME NEW r \in Reqs, Worker(r) PROVE early' = early
  BY <1>2 DEF Worker, WorkerReturns, WorkerDrops, WorkerGoesOn, WorkerSends,
              WorkerPanics, Restart
<1>3. ASSUME NEW r \in Reqs, Arrive(r) \/ Timeout(r) PROVE early' = early
  BY <1>3 DEF Arrive, Timeout
<1>4. ASSUME NEW k \in Keys, DeleteRepo(k) PROVE early' = early
  BY <1>4 DEF DeleteRepo
<1>5. ASSUME NEW s \in Searches, NEW k \in Keys,
             \/ \E e \in Entry : SearchPicks(s, k, e)
             \/ SearchFails(s, k) \/ SearchWritesBack(s, k)
      PROVE early' = early
  BY <1>5 DEF SearchPicks, SearchFails, SearchWritesBack
<1>6. CASE Exit \/ UNCHANGED vars
  BY <1>6 DEF Exit, Restart, vars
<1> QED BY <1>1, <1>2, <1>3, <1>4, <1>5, <1>6 DEF Next

\* When par waits, the channel is open as long as the goroutine runs.
LEMMA ChannelInductive ==
  ~early /\ TypeOK /\ ChannelInv /\ [Next]_vars => (ChannelInv)'
<1> SUFFICES ASSUME ~early, TypeOK, ChannelInv, [Next]_vars PROVE (ChannelInv)'
  OBVIOUS
<1> DEFINE G == (ChannelInv)'
<1> USE StoreTypes DEF TypeOK, ChannelInv, history
<1>1. ASSUME NEW r \in Reqs, Arrive(r) PROVE G
  BY <1>1 DEF Arrive, Goto
<1>2. ASSUME NEW r \in Reqs, ReturnExisting(r) PROVE G
  BY <1>2 DEF ReturnExisting, Respond, Goto
<1>3. ASSUME NEW r \in Reqs, RejectInvalid(r) PROVE G
  BY <1>3 DEF RejectInvalid, Respond, Goto
<1>4. ASSUME NEW r \in Reqs, Miss(r) PROVE G
  BY <1>4 DEF Miss, Goto, Has
<1>5. ASSUME NEW r \in Reqs, SetMarker(r) PROVE G
  BY <1>5 DEF SetMarker, Store, Goto
<1>6. ASSUME NEW r \in Reqs, Refuse(r) PROVE G
  BY <1>6 DEF Refuse, Remove, Store, Respond, Goto
<1>7. ASSUME NEW r \in Reqs, NEW res \in RemoteResults,
             WorkerReturns(r, res) PROVE G
  BY <1>7 DEF WorkerReturns
<1>8. ASSUME NEW r \in Reqs, WorkerDrops(r) PROVE G
  BY <1>8 DEF WorkerDrops, NoWorker, NoResult
<1>9. ASSUME NEW r \in Reqs, WorkerGoesOn(r) PROVE G
  BY <1>9 DEF WorkerGoesOn
<1>10. ASSUME NEW r \in Reqs, WorkerSends(r) PROVE G
  BY <1>10 DEF WorkerSends, NoWorker, NoResult
<1>11. ASSUME NEW r \in Reqs, Timeout(r) PROVE G
  BY <1>11 DEF Timeout
<1>12. ASSUME NEW r \in Reqs, ParReturns(r) PROVE G
  BY <1>12 DEF ParReturns, Goto
<1>13. ASSUME NEW r \in Reqs, SelectTimeout(r) PROVE G
  BY <1>13 DEF SelectTimeout, Respond, Goto
<1>14. ASSUME NEW r \in Reqs, SelectNothing(r) PROVE G
  BY <1>14 DEF SelectNothing, Respond, Goto
<1>15. ASSUME NEW r \in Reqs, SelectResult(r) PROVE G
  <2> DEFINE k == query[r].key
             in == ch[r].buf
  <2>1. CASE in.repo = "OK" /\ Store(k, [state |-> "OK", by |-> r])
    BY <1>15, <2>1 DEF SelectResult, Store, Respond, Goto, NoResult
  <2>2. CASE in.repo # "OK" /\ Remove(k)
    BY <1>15, <2>2 DEF SelectResult, Remove, Store, Respond, Goto, NoResult
  <2>3. CASE in.repo # "OK" /\ UNCHANGED repos
    BY <1>15, <2>3 DEF SelectResult, Respond, Goto, NoResult
  <2> QED BY <1>15, <2>1, <2>2, <2>3 DEF SelectResult
<1>16. ASSUME NEW r \in Reqs, CleanupGet(r) PROVE G
  BY <1>16 DEF CleanupGet, Goto
<1>17. ASSUME NEW r \in Reqs, CleanupDelete(r) PROVE G
  BY <1>17 DEF CleanupDelete, Remove, Store, Goto
<1>18. ASSUME NEW k \in Keys, DeleteRepo(k) PROVE G
  BY <1>18 DEF DeleteRepo, Remove, Store
<1>19. ASSUME NEW s \in Searches, NEW k \in Keys, NEW e \in Entry,
              SearchPicks(s, k, e) PROVE G
  BY <1>19 DEF SearchPicks
<1>19a. ASSUME NEW s \in Searches, NEW k \in Keys, SearchFails(s, k) PROVE G
  <2>0. PICK b : /\ b.by = held[s][k].by /\ b.state = "ERROR"
                 /\ held' = [held EXCEPT ![s][k] = b]
                 /\ Remove(k) \/ Store(k, b)
                 /\ UNCHANGED <<pc, query, ctx, worker, ch, answer, exited, stale>>
    BY <1>19a, FailingSearch
  <2>1. CASE Remove(k)
    BY <2>0, <2>1 DEF Remove, Store
  <2>2. CASE Store(k, b)
    BY <2>0, <2>2 DEF Store
  <2> QED BY <2>0, <2>1, <2>2
<1>19b. ASSUME NEW s \in Searches, NEW k \in Keys, SearchWritesBack(s, k) PROVE G
  <2>1. CASE held[s][k].state = "OK" /\ Store(k, held[s][k])
    BY <1>19b, <2>1 DEF SearchWritesBack, Store
  <2>2. CASE held[s][k].state # "OK" /\ Remove(k)
    BY <1>19b, <2>2 DEF SearchWritesBack, Remove, Store
  <2>3. CASE held[s][k].state # "OK" /\ UNCHANGED repos
    BY <1>19b, <2>3 DEF SearchWritesBack
  <2> QED BY <1>19b, <2>1, <2>2, <2>3 DEF SearchWritesBack
<1>20a. ASSUME NEW r \in Reqs PROVE ~WorkerPanics(r)
  BY DEF WorkerPanics
<1>20. ASSUME Restart PROVE G
  BY <1>20 DEF Restart, NoWorker, FreshChan, NoResult
<1>21. CASE UNCHANGED vars
  BY <1>21 DEF vars
<1> QED
  BY <1>1, <1>2, <1>3, <1>4, <1>5, <1>6, <1>7, <1>8, <1>9, <1>10, <1>11,
     <1>12, <1>13, <1>14, <1>15, <1>16, <1>17, <1>18, <1>19, <1>19a,
     <1>19b, <1>20a,
     <1>20, <1>21
  DEF Next, Handler, Worker, Exit

-----------------------------------------------------------------------------
\* The initial states satisfy every part of the invariant.
LEMMA InitInv == Init => Inv /\ Inv2 /\ StaleInv /\ ChannelInv
<1> SUFFICES ASSUME Init PROVE Inv /\ Inv2 /\ StaleInv /\ ChannelInv
  OBVIOUS
<1> USE DEF Init
<1>1. TypeOK
  BY ResultTypes
  DEF TypeOK, Entry, NoWorker, FreshChan, Indexing
<1>2. \A r \in Reqs, k \in Keys : repos[k].by # r /\ repos[k].state = "none"
  BY NoReqIsNone DEF NoEntry
<1>3. EntryInv /\ MarkerHasHandler /\ StaleInv
  BY <1>2 DEF EntryInv, MarkerHasHandler, StaleInv, NoEntry
<1>4. AnswerInv /\ FailureInv /\ HeldInv
  BY <1>2, NoReqIsNone
  DEF AnswerInv, FailureInv, HeldInv, NoEntry, NoWorker, FreshChan, NoResult
<1>5. ChannelInv
  BY DEF ChannelInv, NoWorker, FreshChan
<1> QED BY <1>1, <1>3, <1>4, <1>5 DEF Inv, Inv2

\* The parts that hold whatever par does are inductive together.
LEMMA Invariance == Spec => [](Inv /\ Inv2 /\ StaleInv)
<1>1. Inv /\ Inv2 /\ StaleInv /\ [Next]_vars => (Inv /\ Inv2 /\ StaleInv)'
  BY TypeInductive, MarkerInductive, AnswerInductive, StaleInductive
  DEF Inv, Inv2
<1> QED BY InitInv, <1>1, PTL DEF Spec

\* Every variable of the index service keeps its type.
THEOREM TypeCorrect == Spec => []TypeOK
BY Invariance, PTL DEF Inv

\* While the process has not exited, every INDEXING entry has a handler that
\* is still to clear or replace it (the deferred cleanup of doIndex).
THEOREM MarkerHasHandlerHolds == Spec => []MarkerHasHandler
BY Invariance, PTL DEF Inv

\* A request that failed for an RPC caller leaves nothing in the store.
THEOREM FailureIsClean == Spec => []RpcFailureLeavesNothing
<1>1. Inv2 => RpcFailureLeavesNothing
  BY DEF Inv2, FailureInv, RpcFailureLeavesNothing
<1> QED BY Invariance, <1>1, PTL

\* doIndex displaces a good repo only when its Get came before the Set that
\* stored that repo, be it another request's or a search's write-back.
THEOREM OnlyStaleReplacesHolds == Spec => OnlyStaleReplaces
<1> DEFINE A == \A r \in Reqs, k \in Keys :
                  (repos[k].state = "OK" /\ Handler(r) /\ repos'[k] # repos[k])
                    => r \in stale
<1>1. Inv /\ StaleInv => A
  <2> SUFFICES ASSUME Inv, StaleInv, NEW r \in Reqs, NEW k \in Keys,
                      repos[k].state = "OK", Handler(r), repos'[k] # repos[k]
               PROVE r \in stale
    OBVIOUS
  <2>1. /\ query[r].key = k
        /\ pc[r] \in {"mark", "refuse", "select", "cleandel"}
    <3> USE DEF Inv, TypeOK
    <3>1. ~ReturnExisting(r) /\ ~RejectInvalid(r) /\ ~Miss(r) /\ ~ParReturns(r)
          /\ ~SelectTimeout(r) /\ ~SelectNothing(r) /\ ~CleanupGet(r)
      BY DEF ReturnExisting, RejectInvalid, Miss, ParReturns, SelectTimeout,
             SelectNothing, CleanupGet
    <3>2. CASE SetMarker(r)
      BY <3>2 DEF SetMarker, Store
    <3>3. CASE Refuse(r)
      BY <3>3 DEF Refuse, Remove, Store
    <3>4. CASE SelectResult(r)
      BY <3>4 DEF SelectResult, Remove, Store
    <3>5. CASE CleanupDelete(r)
      BY <3>5 DEF CleanupDelete, Remove, Store
    <3> QED BY <3>1, <3>2, <3>3, <3>4, <3>5 DEF Handler
  <2>2. r \in Committed(k) /\ pc[r] # "cleanget"
    BY <2>1 DEF Committed, Indexing
  <2> QED BY <2>2 DEF StaleInv
<1>2. Spec => [][A]_vars
  BY Invariance, <1>1, PTL DEF Spec
<1> QED BY <1>2 DEF OnlyStaleReplaces

\* When par waits for its functions, the daemon never panics on a closed
\* result channel.
THEOREM NoSendOnClosedHolds == Spec => []NoSendOnClosed
<1> DEFINE J == TypeOK /\ (~early => ChannelInv)
<1>1. J /\ [Next]_vars => J'
  <2> SUFFICES ASSUME J, [Next]_vars PROVE J'
    OBVIOUS
  <2>1. TypeOK'
    BY TypeInductive
  <2>2. CASE early' = early
    BY <2>1, <2>2, ChannelInductive
  <2> QED BY <2>1, <2>2, ParIsParForGood
<1>2. Init => J
  BY InitInv DEF Inv
<1>3. J => NoSendOnClosed
  BY DEF ChannelInv, NoSendOnClosed
<1> QED BY <1>1, <1>2, <1>3, PTL DEF Spec
=============================================================================
