---------------------------- MODULE DaemonProofs ----------------------------
(***************************************************************************)
(* Proofs about daemons: about Cluster, for any number of daemons and      *)
(* requests and for chains of any length, about the Counters that each of  *)
(* them keeps and about the end of its RpcServer.                          *)
(***************************************************************************)
EXTENDS Cluster, Counters, RpcServer, SumTheorems

\* An OK repo is what one of the daemons in fs built, under a name of its own.
Built(e, fs) == e.state = "OK" => e.built \in fs /\ Local(e.built, e.host)

\* What is true of a frame, if the daemons in fs have index files.  A frame
\* that waits has relayed, within the bound.  An index request is for a host,
\* and a frame that was relayed serves one that may not be relayed again, or
\* a search on a daemon that has index files.
FrameOK(i, f, fs) ==
  /\ f \in Frame
  /\ f.pc = "wait" => i < MaxFrames
  /\ f.op = "index" => f.host \in Hosts /\ (i > 1 => ~f.recurse)
  /\ f.op = "search" /\ i > 1 => f.at \in fs
  /\ Built(f.ans, fs)

FramesInv ==
  /\ calls \in [Slots -> [Depth -> Frame]]
  /\ \A s \in Slots, i \in Depth : FrameOK(i, calls[s][i], files)

\* Until an OK repo was lost, the daemons that have index files have an OK
\* repo in their stores, and take it for their own.
LossInv ==
  ~lost => \A d \in files : store[d].state = "OK" /\ Local(d, store[d].host)

StoreInv ==
  /\ store \in [Daemons -> Entry] /\ lost \in BOOLEAN
  /\ \A d \in Daemons : Built(store[d], files)
  /\ LossInv

\* How far requests of each kind went.
RelayInv ==
  /\ relayed \in [Ops -> 0..MaxFrames]
  /\ IndexProxiedOnce
  /\ HopsNeedLoss

BoundsInv ==
  files \subseteq Daemons /\ made \in 0..MaxCalls /\ deleted \in 0..MaxDeletes

Inv == FramesInv /\ StoreInv /\ RelayInv /\ BoundsInv
-----------------------------------------------------------------------------
\* The constant frames and answers.
LEMMA Constants ==
  /\ Idle \in Frame /\ Idle.op = "none" /\ Idle.pc = "idle" /\ Idle.ans = NoRepo
  /\ \A e \in {NoRepo, Failed, Marker, Condemned} : e \in Answer /\ e.state # "OK"
  /\ NoRepo \in Entry /\ Marker \in Entry /\ Entry \subseteq Answer
  /\ \A e \in Answer : e.state = "OK" => e \in Good /\ e \in Entry
  /\ \A e \in Good : e.state = "OK" /\ e.built \in Daemons /\ e.host \in Hosts
BY DEF Idle, Frame, NoRepo, Failed, Marker, Condemned, Answer, Entry, Good

\* An idle frame is always in order.
LEMMA IdleOK == \A fs : \A i \in Depth : FrameOK(i, Idle, fs)
BY Constants DEF FrameOK, Built

\* A frame of a request has the fields of one, and keeps them when its place
\* or its answer changes.
LEMMA Fields ==
  ASSUME NEW f \in Frame, f.op \in Ops
  PROVE  /\ f.at \in Daemons /\ f.host \in Hosts \cup {None}
         /\ f.recurse \in BOOLEAN /\ f.ans \in Answer
         /\ \A l \in {"get", "mark", "work", "wait", "write", "done"}, e \in Answer :
              [f EXCEPT !.pc = l] \in Frame /\ [f EXCEPT !.pc = l, !.ans = e] \in Frame
<1>1. f \in [op : Ops, pc : {"get", "mark", "work", "wait", "write", "done"},
             at : Daemons, host : Hosts \cup {None}, recurse : BOOLEAN, ans : Answer]
  BY Constants DEF Frame, Ops
<1>2. f.at \in Daemons /\ f.host \in Hosts \cup {None}
      /\ f.recurse \in BOOLEAN /\ f.ans \in Answer
  BY <1>1
<1>3. ASSUME NEW l \in {"get", "mark", "work", "wait", "write", "done"},
             NEW e \in Answer
      PROVE [f EXCEPT !.pc = l] \in Frame /\ [f EXCEPT !.pc = l, !.ans = e] \in Frame
  BY <1>1 DEF Frame
<1> QED BY <1>2, <1>3

\* More index files disturb no frame and no repo.
LEMMA Monotone ==
  ASSUME NEW fs, NEW gs, fs \subseteq gs
  PROVE  /\ \A e : Built(e, fs) => Built(e, gs)
         /\ \A i, f : FrameOK(i, f, fs) => FrameOK(i, f, gs)
BY DEF Built, FrameOK

\* One frame changes ...
LEMMA OneFrame ==
  ASSUME FramesInv, NEW s \in Slots, NEW i \in Depth, NEW f, Becomes(s, i, f),
         FrameOK(i, f, files'), files \subseteq files'
  PROVE  FramesInv'
<1>1. calls' = [calls EXCEPT ![s] = [calls[s] EXCEPT ![i] = f]]
  BY DEF Becomes
<1>2. f \in Frame
  BY DEF FrameOK
<1>3. calls' \in [Slots -> [Depth -> Frame]]
  BY <1>1, <1>2 DEF FramesInv
<1>4. \A t \in Slots, j \in Depth :
        calls'[t][j] = IF t = s /\ j = i THEN f ELSE calls[t][j]
  BY <1>1 DEF FramesInv
<1>5. \A t \in Slots, j \in Depth : FrameOK(j, calls[t][j], files')
  BY Monotone DEF FramesInv
<1>6. \A t \in Slots, j \in Depth : FrameOK(j, calls'[t][j], files')
  BY <1>4, <1>5
<1> QED BY <1>3, <1>6 DEF FramesInv

\* ... or two.
LEMMA TwoFrames ==
  ASSUME FramesInv, NEW s \in Slots, NEW i \in Depth, i < MaxFrames,
         NEW f, NEW g, BecomeBoth(s, i, f, g),
         FrameOK(i, f, files'), FrameOK(i + 1, g, files'), files \subseteq files'
  PROVE  FramesInv'
<1>0. i + 1 \in Depth /\ i + 1 # i
  BY ClusterAssumption DEF Depth
<1>1. calls' = [calls EXCEPT ![s] = [[calls[s] EXCEPT ![i] = f] EXCEPT ![i + 1] = g]]
  BY DEF BecomeBoth, FramesInv
<1>2. f \in Frame /\ g \in Frame
  BY DEF FrameOK
<1>3. calls' \in [Slots -> [Depth -> Frame]]
  BY <1>0, <1>1, <1>2 DEF FramesInv
<1>4. \A t \in Slots, j \in Depth :
        calls'[t][j] = IF t = s /\ j = i THEN f
                       ELSE IF t = s /\ j = i + 1 THEN g ELSE calls[t][j]
  BY <1>0, <1>1 DEF FramesInv
<1>5. \A t \in Slots, j \in Depth : FrameOK(j, calls[t][j], files')
  BY Monotone DEF FramesInv
<1>6. \A t \in Slots, j \in Depth : FrameOK(j, calls'[t][j], files')
  BY <1>4, <1>5
<1> QED BY <1>3, <1>6 DEF FramesInv

\* A frame at its end is idle, or has an answer for its caller.
LEMMA EndedOK ==
  ASSUME NEW s \in Slots, NEW i \in Depth, NEW fs, NEW ans \in Answer,
         FrameOK(i, calls[s][i], fs), calls[s][i].op \in Ops, Built(ans, fs)
  PROVE  FrameOK(i, Ended(s, i, ans), fs)
<1> DEFINE f == calls[s][i]
           g == [f EXCEPT !.pc = "done", !.ans = ans]
<1>1. g \in Frame
  BY Fields DEF FrameOK
<1>2. g.pc = "done" /\ g.ans = ans /\ g.op = f.op /\ g.at = f.at
      /\ g.recurse = f.recurse /\ g.host = f.host
  <2>1. f \in [op : Ops, pc : {"get", "mark", "work", "wait", "write", "done"},
               at : Daemons, host : Hosts \cup {None}, recurse : BOOLEAN, ans : Answer]
    BY Constants DEF Frame, Ops, FrameOK
  <2> QED BY <2>1
<1>3. FrameOK(i, g, fs)
  BY <1>1, <1>2 DEF FrameOK
<1> QED BY <1>3, IdleOK DEF Ended

\* Set and Delete keep the store in order, if what they put there is.
LEMMA PutOK ==
  ASSUME StoreInv, NEW d \in Daemons, NEW e \in Entry, Put(d, e), Built(e, files'),
         files \subseteq files',
         \A c \in files' \ files : c = d /\ e.state = "OK" /\ Local(d, e.host),
         files' \subseteq Daemons
  PROVE  StoreInv'
<1>1. store' \in [Daemons -> Entry] /\ lost' \in BOOLEAN
  BY DEF StoreInv, Put
<1>2. ASSUME NEW c \in Daemons PROVE Built(store'[c], files')
  BY Monotone DEF StoreInv, Put
<1>3. ASSUME ~lost', NEW c \in files'
      PROVE store'[c].state = "OK" /\ Local(c, store'[c].host)
  <2>1. ~lost /\ (store[d].state = "OK" => e = store[d])
    BY <1>3 DEF Put
  <2>2. \A b \in files : store[b].state = "OK" /\ Local(b, store[b].host)
    BY <2>1 DEF StoreInv, LossInv
  <2>3. c \in Daemons /\ store'[c] = IF c = d THEN e ELSE store[c]
    BY DEF StoreInv, Put
  <2>4. CASE c \in files
    BY <2>1, <2>2, <2>3, <2>4
  <2>5. CASE c \notin files
    BY <2>3, <2>5
  <2> QED BY <2>4, <2>5
<1> QED BY <1>1, <1>2, <1>3 DEF StoreInv, LossInv

\* A delete, and no write at all.
LEMMA RemoveOK ==
  ASSUME StoreInv, BoundsInv, NEW d \in Daemons, Remove(d), files' = files
  PROVE  StoreInv'
BY PutOK, Constants DEF Remove, Built, BoundsInv

\* A step that leaves the stores alone.
LEMMA UnwrittenOK ==
  ASSUME StoreInv, Unwritten, files' = files
  PROVE  StoreInv'
BY DEF StoreInv, Unwritten, LossInv

\* What is lost stays lost, so that requests which go no further than before
\* keep to their limits.
LEMMA RelayedOK ==
  ASSUME RelayInv, UNCHANGED relayed, lost => lost'
  PROVE  RelayInv'
BY DEF RelayInv, IndexProxiedOnce, HopsNeedLoss

\* No step of a store takes a loss back.
LEMMA LostStays ==
  /\ \A d, e : Put(d, e) => (lost => lost')
  /\ \A d : Remove(d) => (lost => lost')
  /\ Unwritten => (lost => lost')
BY DEF Put, Remove, Unwritten

\* A request gets to its nth daemon.
LEMMA ReachedOK ==
  ASSUME RelayInv, NEW op \in Ops, NEW n \in Depth, Reached(op, n), Unwritten,
         n > 2 => op = "search" /\ lost
  PROVE  RelayInv'
<1>1. relayed' \in [Ops -> 0..MaxFrames]
  BY ClusterAssumption DEF RelayInv, Reached, Depth
<1>2. \A o \in Ops : relayed'[o] = IF o = op /\ n > relayed[o] THEN n ELSE relayed[o]
  BY DEF RelayInv, Reached
<1>3. relayed["index"] \in Nat /\ relayed["search"] \in Nat /\ n \in Nat
  BY ClusterAssumption DEF RelayInv, Ops, Depth
<1>4. IndexProxiedOnce'
  BY <1>2, <1>3 DEF RelayInv, IndexProxiedOnce, Ops
<1>5. HopsNeedLoss'
  BY <1>2, <1>3 DEF RelayInv, HopsNeedLoss, Ops, Unwritten
<1> QED BY <1>1, <1>4, <1>5 DEF RelayInv

-----------------------------------------------------------------------------
\* Every step keeps Inv: one step of the proof for each operation of a client
\* and of a frame.
LEMMA InvInductive == Inv /\ [Next]_vars => Inv'
<1> SUFFICES ASSUME Inv, [Next]_vars PROVE Inv'
  OBVIOUS
<1> USE DEF Inv
<1>b. ASSUME UNCHANGED <<made, deleted>>, files' = files PROVE BoundsInv'
  BY <1>b DEF BoundsInv
<1>f. ASSUME NEW s \in Slots, NEW i \in Depth
      PROVE FrameOK(i, calls[s][i], files) /\ calls[s][i] \in Frame
  BY DEF FramesInv, FrameOK
<1>a. ASSUME NEW s \in Slots, NEW i \in Depth, calls[s][i].op \in Ops
      PROVE /\ calls[s][i].at \in Daemons /\ calls[s][i].ans \in Answer
            /\ store[calls[s][i].at] \in Entry /\ store[calls[s][i].at] \in Answer
            /\ Built(store[calls[s][i].at], files)
            /\ Built(calls[s][i].ans, files)
            /\ \A e \in {NoRepo, Failed, Marker, Condemned} : Built(e, files)
  <2>1. calls[s][i].at \in Daemons /\ calls[s][i].ans \in Answer
    BY <1>a, <1>f, Fields
  <2> QED BY <2>1, <1>f, Constants DEF StoreInv, Built, FrameOK
<1>g. ASSUME NEW s \in Slots, NEW i \in Depth, calls[s][i].op \in Ops,
             NEW l \in {"get", "mark", "work", "write", "done"}, Goto(s, i, l),
             files' = files
      PROVE FramesInv'
  <2> DEFINE f == calls[s][i]
             g == [f EXCEPT !.pc = l]
  <2>1. g \in Frame
    BY <1>f, <1>g, Fields
  <2>2. g.pc = l /\ g.ans = f.ans /\ g.op = f.op /\ g.at = f.at
      /\ g.recurse = f.recurse /\ g.host = f.host
    <3>1. f \in [op : Ops, pc : {"get", "mark", "work", "wait", "write", "done"},
                 at : Daemons, host : Hosts \cup {None}, recurse : BOOLEAN, ans : Answer]
      BY <1>f, <1>g, Constants DEF Frame, Ops
    <3> QED BY <3>1
  <2>3. FrameOK(i, g, files')
    BY <1>f, <1>g, <2>1, <2>2 DEF FrameOK
  <2> QED BY <1>g, <2>3, OneFrame DEF Goto
<1>e. ASSUME NEW s \in Slots, NEW i \in Depth, calls[s][i].op \in Ops,
             NEW ans \in Answer, Built(ans, files'), files \subseteq files',
             Becomes(s, i, Ended(s, i, ans))
      PROVE FramesInv'
  <2>1. FrameOK(i, calls[s][i], files')
    BY <1>e, <1>f, Monotone
  <2>2. FrameOK(i, Ended(s, i, ans), files')
    BY <1>e, <2>1, EndedOK
  <2> QED BY <1>e, <2>2, OneFrame
<1>o. ASSUME NEW s \in Slots, NEW i \in Depth, calls[s][i].op \in Ops,
             calls[s][i].pc = "wait", NEW ans \in Answer, Built(ans, files),
             NEW g, g = Idle \/ g = calls[s][i + 1], files' = files,
             BecomeBoth(s, i, Ended(s, i, ans), g)
      PROVE FramesInv'
  <2>1. i < MaxFrames /\ i + 1 \in Depth
    BY <1>f, <1>o, ClusterAssumption DEF FrameOK, Depth
  <2>2. FrameOK(i, Ended(s, i, ans), files)
    BY <1>f, <1>o, EndedOK
  <2>3. FrameOK(i + 1, g, files)
    BY <1>f, <1>o, <2>1, IdleOK
  <2> QED BY <1>o, <2>1, <2>2, <2>3, TwoFrames
<1>r. ASSUME NEW s \in Slots, NEW i \in Depth, calls[s][i].op \in Ops,
             NEW h, Resolve(h) \in Daemons, Relay(s, i, h), files' = files,
             calls[s][i].op = "search" => Resolve(h) \in files
      PROVE FramesInv'
  <2> DEFINE f == calls[s][i]
             g == [f EXCEPT !.pc = "wait"]
  <2>1. f \in [op : Ops, pc : {"get", "mark", "work", "wait", "write", "done"},
               at : Daemons, host : Hosts \cup {None}, recurse : BOOLEAN, ans : Answer]
    BY <1>f, <1>r, Constants DEF Frame, Ops
  <2>2. i < MaxFrames /\ i + 1 \in Depth /\ i + 1 > 1
    BY <1>r, ClusterAssumption DEF Relay, Depth
  <2>3. FrameOK(i, g, files)
    <3>1. g \in Frame /\ g.ans = f.ans /\ g.op = f.op /\ g.at = f.at
          /\ g.recurse = f.recurse /\ g.host = f.host
      BY <2>1 DEF Frame
    <3> QED BY <1>f, <2>2, <3>1 DEF FrameOK
  <2>4. FrameOK(i + 1, RelayOf(f, h), files)
    <3> DEFINE k == RelayOf(f, h)
    <3>1. k \in Frame
      BY <1>r, <2>1 DEF RelayOf, Frame
    <3>2. k.pc = "get" /\ k.at = Resolve(h) /\ k.op = f.op /\ k.host = f.host
          /\ k.ans = f.ans /\ (f.op = "index" => k.recurse = FALSE)
      BY <2>1 DEF RelayOf
    <3> QED BY <1>f, <1>r, <2>2, <3>1, <3>2 DEF FrameOK
  <2> QED BY <1>r, <2>2, <2>3, <2>4, TwoFrames DEF Relay
<1>1. ASSUME NEW s \in Slots, NEW op \in Ops, NEW d \in Daemons, NEW h \in Hosts \cup {None},
             op = "index" => h \in Hosts, Call(s, op, d, h)
      PROVE Inv'
  <2> DEFINE f == [op |-> op, pc |-> "get", at |-> d, host |-> h,
                   recurse |-> TRUE, ans |-> NoRepo]
  <2>1. 1 \in Depth
    BY ClusterAssumption DEF Depth
  <2>2. f \in Frame
    BY Constants DEF Frame
  <2>3. FrameOK(1, f, files)
    BY <1>1, <2>2, Constants DEF FrameOK, Built
  <2>4. FramesInv'
    BY <1>1, <2>1, <2>3, OneFrame DEF Call
  <2>5. RelayInv'
    BY <1>1, <2>1, ReachedOK DEF Call
  <2>6. StoreInv'
    BY <1>1, UnwrittenOK DEF Call
  <2>7. BoundsInv'
    BY <1>1, ClusterAssumption DEF Call, BoundsInv
  <2> QED BY <2>4, <2>5, <2>6, <2>7
<1>2. ASSUME NEW d \in Daemons, ClientDeletes(d) PROVE Inv'
  <2>1. FramesInv'
    BY <1>2 DEF ClientDeletes, FramesInv
  <2>2. StoreInv'
    BY <1>2, RemoveOK DEF ClientDeletes
  <2>3. RelayInv'
    BY <1>2, RelayedOK, LostStays DEF ClientDeletes
  <2>4. BoundsInv'
    BY <1>2, ClusterAssumption DEF ClientDeletes, BoundsInv
  <2> QED BY <2>1, <2>2, <2>3, <2>4
<1>3. ASSUME NEW s \in Slots, NEW i \in Depth, IndexStep(s, i) PROVE Inv'
  <2> DEFINE f == calls[s][i]
  <2>o. f.op = "index" /\ f.op \in Ops
    BY <1>3 DEF IndexStep, IndexHit, IndexMiss, IndexMark, IndexBuilt, IndexRelay,
      IndexFails, IndexAnswered, IndexUnanswered, IndexTimeout, At, Ops
  <2>a. /\ f.at \in Daemons /\ store[f.at] \in Answer
        /\ Built(store[f.at], files)
        /\ Failed \in Answer /\ Built(Failed, files)
    BY <1>a, <2>o, Constants
  <2>w. ASSUME f.pc = "wait" PROVE i + 1 \in Depth
    BY <1>f, <2>w, ClusterAssumption DEF FrameOK, Depth
  <2>1. CASE IndexHit(s, i)
    <3>1. FramesInv'
      BY <2>1, <2>o, <2>a, <1>e DEF IndexHit
    <3> QED BY <2>1, <3>1, <1>b, UnwrittenOK, RelayedOK, LostStays DEF IndexHit
  <2>2. CASE IndexMiss(s, i)
    <3>1. FramesInv'
      BY <2>2, <2>o, <1>g DEF IndexMiss
    <3> QED BY <2>2, <3>1, <1>b, UnwrittenOK, RelayedOK, LostStays DEF IndexMiss
  <2>3. CASE IndexMark(s, i)
    <3>1. FramesInv'
      BY <2>3, <2>o, <1>g DEF IndexMark
    <3>2. StoreInv'
      BY <2>3, <2>a, PutOK, Constants DEF IndexMark, Built, BoundsInv
    <3> QED BY <2>3, <3>1, <3>2, <1>b, RelayedOK, LostStays DEF IndexMark
  <2>4. CASE IndexBuilt(s, i)
    <3> DEFINE repo == [state |-> "OK", host |-> f.host, built |-> f.at]
    <3>1. repo \in Good /\ repo \in Entry /\ repo \in Answer
      BY <2>a, <2>o, <1>f DEF Good, Entry, Answer, FrameOK
    <3>2. files' = files \cup {f.at} /\ Local(f.at, f.host) /\ files' \subseteq Daemons
      BY <2>4, <2>a DEF IndexBuilt, BoundsInv
    <3>3. Built(repo, files')
      BY <3>2 DEF Built
    <3>4. FramesInv'
      BY <2>4, <2>o, <3>1, <3>2, <3>3, <1>e DEF IndexBuilt
    <3>5. StoreInv'
      BY <2>4, <2>a, <3>1, <3>2, <3>3, PutOK DEF IndexBuilt
    <3>6. BoundsInv'
      BY <2>4, <3>2 DEF IndexBuilt, BoundsInv
    <3> QED BY <2>4, <3>4, <3>5, <3>6, RelayedOK, LostStays DEF IndexBuilt
  <2>5. CASE IndexRelay(s, i)
    <3>1. f.host \in Hosts /\ Resolve(f.host) \in Daemons
      BY <2>5, <2>o, <1>f, ClusterAssumption DEF IndexRelay, FrameOK, Hosts, Local, Resolve
    <3>2. i = 1 /\ i + 1 \in Depth
      BY <2>5, <2>o, <1>f, ClusterAssumption DEF IndexRelay, Relay, FrameOK, Depth
    <3>3. FramesInv'
      BY <2>5, <2>o, <3>1, <1>r DEF IndexRelay
    <3>4. RelayInv'
      BY <2>5, <2>o, <3>2, ReachedOK DEF IndexRelay, Relay
    <3> QED BY <2>5, <3>3, <3>4, <1>b, UnwrittenOK DEF IndexRelay
  <2>6. CASE IndexFails(s, i)
    <3>1. FramesInv'
      BY <2>6, <2>o, <2>a, <1>e DEF IndexFails
    <3>2. StoreInv'
      BY <2>6, <2>a, RemoveOK DEF IndexFails
    <3> QED BY <2>6, <3>1, <3>2, <1>b, RelayedOK, LostStays DEF IndexFails
  <2>7. CASE IndexAnswered(s, i)
    <3> DEFINE ans == calls[s][i + 1].ans
    <3>0. f.pc = "wait" /\ i + 1 \in Depth /\ calls[s][i + 1].op \in Ops
      BY <2>7, <2>w DEF IndexAnswered, At, Ops
    <3>1. ans \in Answer /\ Built(ans, files)
      BY <3>0, <1>a
    <3>2. FramesInv'
      BY <2>7, <2>o, <3>0, <3>1, <1>o DEF IndexAnswered
    <3>3. StoreInv' /\ (lost => lost')
      <4>1. (Put(f.at, ans) /\ ans.state = "OK") \/ Remove(f.at)
        BY <2>7 DEF IndexAnswered, Applied
      <4>2. CASE Remove(f.at)
        BY <2>7, <4>2, <2>a, RemoveOK, LostStays DEF IndexAnswered
      <4>3. CASE Put(f.at, ans) /\ ans.state = "OK"
        BY <2>7, <4>3, <3>1, <2>a, PutOK, LostStays, Constants DEF IndexAnswered, BoundsInv
      <4> QED BY <4>1, <4>2, <4>3
    <3> QED BY <2>7, <3>2, <3>3, <1>b, RelayedOK DEF IndexAnswered
  <2>8. CASE IndexUnanswered(s, i)
    <3>1. FramesInv'
      BY <2>8, <2>o, <2>a, <1>o DEF IndexUnanswered, Orphan, At
    <3>2. StoreInv'
      BY <2>8, <2>a, RemoveOK DEF IndexUnanswered
    <3> QED BY <2>8, <3>1, <3>2, <1>b, RelayedOK, LostStays DEF IndexUnanswered
  <2>9. CASE IndexTimeout(s, i)
    <3>1. FramesInv'
      <4>1. CASE Becomes(s, i, Ended(s, i, Failed))
        BY <2>9, <4>1, <2>o, <2>a, <1>e DEF IndexTimeout
      <4>2. CASE f.pc = "wait" /\ BecomeBoth(s, i, Ended(s, i, Failed), Orphan(s, i))
        BY <2>9, <4>2, <2>o, <2>a, <1>o DEF IndexTimeout, Orphan
      <4> QED BY <2>9, <4>1, <4>2 DEF IndexTimeout, At
    <3>2. StoreInv' /\ (lost => lost')
      BY <2>9, <2>a, RemoveOK, UnwrittenOK, LostStays DEF IndexTimeout
    <3> QED BY <2>9, <3>1, <3>2, <1>b, RelayedOK DEF IndexTimeout
  <2> QED BY <1>3, <2>1, <2>2, <2>3, <2>4, <2>5, <2>6, <2>7, <2>8, <2>9 DEF IndexStep
<1>4. ASSUME NEW s \in Slots, NEW i \in Depth, SearchStep(s, i) PROVE Inv'
  <2> DEFINE f == calls[s][i]
  <2>o. f.op = "search" /\ f.op \in Ops
    BY <1>4 DEF SearchStep, SearchNothing, SearchLocally, SearchRelay, Searched,
      SearchAnswered, SearchUnanswered, SearchWrites, At, Ops
  <2>a. /\ f.at \in Daemons /\ store[f.at] \in Answer
        /\ Built(store[f.at], files)
        /\ f.ans \in Answer /\ Built(f.ans, files)
        /\ NoRepo \in Answer /\ Built(NoRepo, files)
        /\ Condemned \in Answer /\ Built(Condemned, files)
    BY <1>a, <2>o, Constants
  <2>w. ASSUME f.pc = "wait" PROVE i < MaxFrames /\ i + 1 \in Depth
    BY <1>f, <2>w, ClusterAssumption DEF FrameOK, Depth
  <2>n. ASSUME NEW ans \in Answer, Built(ans, files)
        PROVE FrameOK(i, [f EXCEPT !.pc = "write", !.ans = ans], files)
    <3> DEFINE g == [f EXCEPT !.pc = "write", !.ans = ans]
    <3>1. f \in [op : Ops, pc : {"get", "mark", "work", "wait", "write", "done"},
                 at : Daemons, host : Hosts \cup {None}, recurse : BOOLEAN, ans : Answer]
      BY <1>f, <2>o, Constants DEF Frame, Ops
    <3>2. g \in Frame /\ g.pc = "write" /\ g.ans = ans /\ g.op = f.op /\ g.at = f.at
          /\ g.recurse = f.recurse /\ g.host = f.host
      BY <3>1 DEF Frame
    <3> QED BY <1>f, <2>n, <3>2 DEF FrameOK
  <2>1. CASE SearchNothing(s, i)
    <3>1. FramesInv'
      BY <2>1, <2>o, <2>a, <1>e DEF SearchNothing
    <3> QED BY <2>1, <3>1, <1>b, UnwrittenOK, RelayedOK, LostStays DEF SearchNothing
  <2>2. CASE SearchLocally(s, i)
    <3>1. FramesInv'
      BY <2>2, <2>o, <1>g DEF SearchLocally
    <3> QED BY <2>2, <3>1, <1>b, UnwrittenOK, RelayedOK, LostStays DEF SearchLocally
  <2>3. CASE SearchRelay(s, i)
    <3> DEFINE h == store[f.at].host
    <3>1. h = store[f.at].built /\ h \in files /\ h \in Daemons /\ Resolve(h) = h
      BY <2>3, <2>a, ClusterAssumption DEF SearchRelay, Built, Local, Resolve, BoundsInv
    <3>2. i + 1 \in Depth /\ (i > 1 => lost)
      <4>1. i + 1 \in Depth
        BY <2>3, ClusterAssumption DEF SearchRelay, Relay, Depth
      <4>2. ASSUME i > 1, ~lost PROVE FALSE
        <5>1. f.at \in files
          BY <4>2, <2>o, <1>f DEF FrameOK
        <5>2. Local(f.at, h)
          BY <4>2, <5>1 DEF StoreInv, LossInv
        <5> QED BY <2>3, <5>2 DEF SearchRelay
      <4> QED BY <4>1, <4>2
    <3>3. FramesInv'
      BY <2>3, <2>o, <3>1, <1>r DEF SearchRelay
    <3>4. RelayInv'
      <4>1. i + 1 > 2 => lost
        BY <3>2 DEF Depth
      <4> QED BY <2>3, <2>o, <3>2, <4>1, ReachedOK DEF SearchRelay, Relay
    <3> QED BY <2>3, <3>3, <3>4, <1>b, UnwrittenOK DEF SearchRelay
  <2>4. CASE Searched(s, i)
    <3> DEFINE bad == store[f.at].state = "OK" /\ f.at \notin files
               ans == IF bad THEN Condemned ELSE store[f.at]
    <3>1. ans \in Answer /\ Built(ans, files)
      BY <2>a
    <3>2. FramesInv'
      <4>1. Becomes(s, i, [f EXCEPT !.pc = "write", !.ans = ans])
        BY <2>4 DEF Searched
      <4>2. files' = files
        BY <2>4 DEF Searched
      <4> QED BY <3>1, <4>1, <4>2, <2>n, OneFrame
    <3>3. StoreInv' /\ (lost => lost')
      BY <2>4, <2>a, RemoveOK, UnwrittenOK, LostStays DEF Searched
    <3> QED BY <2>4, <3>2, <3>3, <1>b, RelayedOK DEF Searched
  <2>5. CASE SearchAnswered(s, i)
    <3> DEFINE ans == calls[s][i + 1].ans
    <3>0. i < MaxFrames /\ i + 1 \in Depth /\ calls[s][i + 1].op \in Ops
      BY <2>5, <2>w DEF SearchAnswered, At, Ops
    <3>1. ans \in Answer /\ Built(ans, files)
      BY <3>0, <1>a
    <3>2. FramesInv'
      BY <2>5, <3>0, <3>1, <2>n, IdleOK, TwoFrames DEF SearchAnswered
    <3> QED BY <2>5, <3>2, <1>b, UnwrittenOK, RelayedOK, LostStays DEF SearchAnswered
  <2>6. CASE SearchUnanswered(s, i)
    <3>1. FramesInv'
      <4>1. CASE Becomes(s, i, Ended(s, i, NoRepo))
        BY <2>6, <4>1, <2>o, <2>a, <1>e DEF SearchUnanswered
      <4>2. CASE f.pc = "wait" /\ BecomeBoth(s, i, Ended(s, i, NoRepo), Orphan(s, i))
        BY <2>6, <4>2, <2>o, <2>a, <1>o DEF SearchUnanswered, Orphan
      <4> QED BY <2>6, <4>1, <4>2 DEF SearchUnanswered, At
    <3> QED BY <2>6, <3>1, <1>b, UnwrittenOK, RelayedOK, LostStays DEF SearchUnanswered
  <2>7. CASE SearchWrites(s, i)
    <3>1. FramesInv'
      BY <2>7, <2>o, <2>a, <1>e DEF SearchWrites
    <3>2. StoreInv' /\ (lost => lost')
      <4>1. Unwritten \/ (Put(f.at, f.ans) /\ f.ans.state = "OK") \/ Remove(f.at)
        BY <2>7 DEF SearchWrites, Applied
      <4>2. CASE Unwritten
        BY <2>7, <4>2, UnwrittenOK, LostStays DEF SearchWrites
      <4>3. CASE Put(f.at, f.ans) /\ f.ans.state = "OK"
        BY <2>7, <4>3, <2>a, PutOK, LostStays, Constants DEF SearchWrites, BoundsInv
      <4>4. CASE Remove(f.at)
        BY <2>7, <4>4, <2>a, RemoveOK, LostStays DEF SearchWrites
      <4> QED BY <4>1, <4>2, <4>3, <4>4
    <3> QED BY <2>7, <3>1, <3>2, <1>b, RelayedOK DEF SearchWrites
  <2> QED BY <1>4, <2>1, <2>2, <2>3, <2>4, <2>5, <2>6, <2>7 DEF SearchStep
<1>5. CASE UNCHANGED vars
  BY <1>5 DEF vars, FramesInv, StoreInv, LossInv, RelayInv, IndexProxiedOnce,
    HopsNeedLoss, BoundsInv
<1>6. FrontEnds \subseteq Daemons /\ None \in Hosts \cup {None}
      /\ "index" \in Ops /\ "search" \in Ops
  BY ClusterAssumption DEF Ops
<1>7. ASSUME NEW s \in Slots, NEW d \in FrontEnds, NEW h \in Hosts, ClientIndexes(s, d, h)
      PROVE Inv'
  BY <1>1, <1>6, <1>7 DEF ClientIndexes
<1>8. ASSUME NEW s \in Slots, NEW d \in FrontEnds, ClientSearches(s, d) PROVE Inv'
  BY <1>1, <1>6, <1>8 DEF ClientSearches
<1> QED BY <1>2, <1>3, <1>4, <1>5, <1>6, <1>7, <1>8 DEF Next

\* The initial states: no store has a repo, and no frame is used.
LEMMA InvInitially == Init => Inv
<1> SUFFICES ASSUME Init PROVE Inv
  OBVIOUS
<1>1. FramesInv
  BY Constants, IdleOK DEF Init, FramesInv
<1>2. StoreInv
  BY Constants DEF Init, StoreInv, LossInv, Built
<1>3. RelayInv
  BY ClusterAssumption DEF Init, RelayInv, IndexProxiedOnce, HopsNeedLoss, Ops
<1>4. BoundsInv
  BY ClusterAssumption DEF Init, BoundsInv
<1> QED BY <1>1, <1>2, <1>3, <1>4 DEF Inv

\* Inv is an invariant of every behaviour of the daemons, their clients and
\* the network between them.
THEOREM InvHolds == Spec => []Inv
BY InvInitially, InvInductive, PTL DEF Spec

\* Type correctness.
THEOREM TypeCorrect == Spec => []TypeOK
<1>1. Inv => TypeOK
  BY DEF Inv, FramesInv, StoreInv, RelayInv, BoundsInv, TypeOK
<1> QED BY <1>1, InvHolds, PTL

\* However many daemons there are and whatever names their hosts go by, an
\* index request goes through two of them at most (api/index.go:182-185).
THEOREM IndexProxiedOnceHolds == Spec => []IndexProxiedOnce
<1>1. Inv => IndexProxiedOnce
  BY DEF Inv, RelayInv
<1> QED BY <1>1, InvHolds, PTL

\* A search goes further than that only once an OK repo was lost.
THEOREM HopsNeedLossHolds == Spec => []HopsNeedLoss
<1>1. Inv => HopsNeedLoss
  BY DEF Inv, RelayInv
<1> QED BY <1>1, InvHolds, PTL

\* An OK repo, in whatever store or answer it is, was built by a daemon with
\* index files that its host is a name of.
THEOREM OkRepoIsBuiltHolds == Spec => []OkRepoIsBuilt
<1>1. Inv => OkRepoIsBuilt
  <2> SUFFICES ASSUME Inv PROVE OkRepoIsBuilt
    OBVIOUS
  <2>1. \A d \in Daemons : Built(store[d], files)
    BY DEF Inv, StoreInv
  <2>2. \A s \in Slots, i \in Depth : Built(calls[s][i].ans, files)
    BY DEF Inv, FramesInv, FrameOK
  <2> QED BY <2>1, <2>2 DEF OkRepoIsBuilt, Built
<1> QED BY <1>1, InvHolds, PTL

-----------------------------------------------------------------------------
(***************************************************************************)
(* Counters: what a read returns.                                          *)
(***************************************************************************)

\* A call; only that of an Inc or a Get has a key of its own.
CtrCall ==
  [op : {"none", "inc", "get", "getall", "close"}, pc : {"idle", "send", "wait", "done"},
   key : CtrKeys \cup {NoCall.key}, n : Nat, got : Counts, low : Counts, high : Counts]

CtrTypes ==
  /\ CtrTypeOK
  /\ call \in [Callers -> CtrCall]
  /\ begun \in Counts /\ acked \in Counts

\* A goroutine that made no call has no operation, an Inc or a Get is of a counter,
\* and what a read must not miss is still in the counters.
CallInv ==
  \A p \in Callers :
    /\ call[p].pc = "idle" => call[p].op = "none"
    /\ call[p].op \in {"inc", "get"} => call[p].key \in CtrKeys
    /\ \A k \in CtrKeys : call[p].low[k] <= acked[k]

\* Only reads are queued.
QueueInv ==
  /\ \A i \in 1..Len(chGet) : call[chGet[i]].op = "get"
  /\ \A i \in 1..Len(chGetAll) : call[chGetAll[i]].op = "getall"

\* What the Incs that still wait for the loop will add to k.
Pending(c, k) ==
  [p \in Callers |->
     IF c[p].pc = "send" /\ c[p].op = "inc" /\ c[p].key = k THEN c[p].n ELSE 0]

\* A counter has the Incs that returned, modulo its width, and what has begun
\* is what returned and what waits.
ValueInv ==
  \A k \in CtrKeys :
    /\ ctr[k] = acked[k] % 2^Width
    /\ begun[k] = acked[k] + SumFunctionOnSet(Pending(call, k), Callers)

CtrInv == CtrTypes /\ CallInv /\ QueueInv /\ ValueInv /\ ReadsAreCurrent
-----------------------------------------------------------------------------
\* Division with a remainder.
LEMMA DivMod ==
  ASSUME NEW a \in Nat, NEW m \in Nat \ {0}
  PROVE  a = m * (a \div m) + (a % m) /\ a % m \in 0..(m - 1) /\ a \div m \in Nat
OBVIOUS

\* A multiple of m that is less than m either way is zero.
LEMMA SmallMultiple ==
  ASSUME NEW m \in Nat \ {0}, NEW d \in Int, m * d < m, m * d > -m
  PROVE  d = 0
<1>1. CASE d >= 1
  <2>1. m * d >= m * 1
    BY <1>1
  <2> QED BY <2>1
<1>2. CASE d <= -1
  <2>1. m * (-d) >= m * 1
    BY <1>2
  <2>2. m * d = -(m * (-d))
    OBVIOUS
  <2> QED BY <2>1, <2>2
<1> QED BY <1>1, <1>2

\* A counter that overflowed goes on as if it had not, modulo its width.
LEMMA ModPlus ==
  ASSUME NEW a \in Nat, NEW n \in Nat, NEW m \in Nat \ {0}
  PROVE  ((a % m) + n) % m = (a + n) % m
<1> DEFINE r0 == a % m
           q0 == a \div m
           x == r0 + n
           y == a + n
           r1 == x % m
           q1 == x \div m
           r2 == y % m
           q2 == y \div m
           d == q2 - q0 - q1
<1>1. a = m * q0 + r0 /\ r0 \in 0..(m - 1) /\ q0 \in Nat
  BY DivMod
<1>2. x \in Nat /\ y \in Nat
  BY <1>1
<1>3. x = m * q1 + r1 /\ r1 \in 0..(m - 1) /\ q1 \in Nat
  BY <1>2, DivMod
<1>4. y = m * q2 + r2 /\ r2 \in 0..(m - 1) /\ q2 \in Nat
  BY <1>2, DivMod
<1> HIDE DEF r0, q0, r1, q1, r2, q2
<1>5. m * q2 + r2 = m * q0 + m * q1 + r1
  BY <1>1, <1>3, <1>4
<1>6. m * d = r1 - r2
  BY <1>1, <1>3, <1>4, <1>5
<1>7. d = 0
  BY <1>1, <1>3, <1>4, <1>6, SmallMultiple
<1>8. r1 = r2
  BY <1>3, <1>4, <1>6, <1>7
<1> QED BY <1>8 DEF r0, r1, r2

\* A step after which the call of p is x, and the others are as they were.
CallIs(p, x) ==
  /\ call' \in [Callers -> CtrCall] /\ call'[p] = x /\ x \in CtrCall
  /\ \A q \in Callers \ {p} : call'[q] = call[q]

\* What p's Inc will add to k, if it is one that waits.
Due(x, k) == IF x.pc = "send" /\ x.op = "inc" /\ x.key = k THEN x.n ELSE 0

\* What waits is a number.
LEMMA PendingIsNat ==
  ASSUME NEW c \in [Callers -> CtrCall], NEW k
  PROVE  /\ SumFunctionOnSet(Pending(c, k), Callers) \in Nat
         /\ \A p \in Callers : Pending(c, k)[p] = Due(c[p], k) /\ Due(c[p], k) \in Nat
<1>1. \A p \in Callers : Pending(c, k)[p] = Due(c[p], k)
  BY DEF Pending, Due
<1>2. \A p \in Callers : Due(c[p], k) \in Nat
  BY DEF Due, CtrCall
<1>3. \A p \in Callers : Pending(c, k)[p] \in Nat
  BY <1>1, <1>2
<1>4. SumFunctionOnSet(Pending(c, k), Callers) \in Nat
  BY <1>3, CountersAssumption, SumType
<1> QED BY <1>1, <1>2, <1>4

\* One call differs, and what waits by what that call has due.
LEMMA PendingDiffers ==
  ASSUME NEW c \in [Callers -> CtrCall], NEW b \in [Callers -> CtrCall], NEW p \in Callers,
         \A q \in Callers \ {p} : b[q] = c[q], NEW k
  PROVE  SumFunctionOnSet(Pending(b, k), Callers) + Due(c[p], k)
           = SumFunctionOnSet(Pending(c, k), Callers) + Due(b[p], k)
<1> DEFINE f == Pending(c, k)
           g == Pending(b, k)
<1>1. /\ \A q \in Callers : f[q] \in Nat /\ g[q] \in Nat
      /\ f[p] = Due(c[p], k) /\ g[p] = Due(b[p], k)
  BY PendingIsNat
<1>2. \A q \in Callers \ {p} : g[q] = f[q]
  BY DEF Pending
<1> HIDE DEF f, g
<1>3. SumFunctionOnSet(g, Callers) + f[p] = SumFunctionOnSet(f, Callers) + g[p]
  BY <1>1, <1>2, CountersAssumption, SumChange
<1> QED BY <1>1, <1>3 DEF f, g

\* The sums of one step.
LEMMA PendingMoves ==
  ASSUME CtrTypes, NEW p \in Callers, NEW x, CallIs(p, x), NEW k
  PROVE  /\ SumFunctionOnSet(Pending(call, k), Callers) \in Nat
         /\ SumFunctionOnSet(Pending(call', k), Callers) \in Nat
         /\ Due(call[p], k) \in Nat /\ Due(x, k) \in Nat
         /\ SumFunctionOnSet(Pending(call', k), Callers) + Due(call[p], k)
              = SumFunctionOnSet(Pending(call, k), Callers) + Due(x, k)
<1>1. call \in [Callers -> CtrCall] /\ call' \in [Callers -> CtrCall] /\ call'[p] = x
      /\ \A q \in Callers \ {p} : call'[q] = call[q]
  BY DEF CtrTypes, CallIs
<1>2. /\ SumFunctionOnSet(Pending(call, k), Callers) \in Nat
      /\ Due(call[p], k) \in Nat
  BY <1>1, PendingIsNat
<1>3. /\ SumFunctionOnSet(Pending(call', k), Callers) \in Nat
      /\ Due(call'[p], k) \in Nat
  BY <1>1, PendingIsNat
<1>4. SumFunctionOnSet(Pending(call', k), Callers) + Due(call[p], k)
        = SumFunctionOnSet(Pending(call, k), Callers) + Due(call'[p], k)
  BY <1>1, PendingDiffers
<1> QED BY <1>1, <1>2, <1>3, <1>4

\* A step that changes the call of p to x, and of the counters nothing: the
\* queues have who they had, and those that p entered.
LEMMA CallMoves ==
  ASSUME CtrInv, NEW p \in Callers, NEW x, CallIs(p, x),
         UNCHANGED <<ctr, acked>>, begun' \in Counts,
         \A k \in CtrKeys : begun'[k] = begun[k] + Due(x, k) - Due(call[p], k),
         x.pc = "idle" => x.op = "none",
         x.op \in {"inc", "get"} => x.key \in CtrKeys,
         \A k \in CtrKeys : x.low[k] <= acked[k],
         x.op \in {"get", "getall"} /\ x.pc = "done" =>
           \A k \in CtrKeys : \E n \in x.low[k]..x.high[k] : n % 2^Width = x.got[k]
  PROVE  CallInv' /\ ValueInv' /\ ReadsAreCurrent'
<1>1. call' \in [Callers -> CtrCall] /\ call'[p] = x /\ x \in CtrCall
      /\ \A q \in Callers \ {p} : call'[q] = call[q]
  BY DEF CallIs
<1>2. CallInv'
  BY <1>1 DEF CtrInv, CallInv
<1>3. ValueInv'
  <2> SUFFICES ASSUME NEW k \in CtrKeys
               PROVE  /\ ctr'[k] = acked'[k] % 2^Width
                      /\ begun'[k] = acked'[k] + SumFunctionOnSet(Pending(call', k), Callers)
    BY DEF ValueInv
  <2> DEFINE S == SumFunctionOnSet(Pending(call, k), Callers)
             T == SumFunctionOnSet(Pending(call', k), Callers)
  <2>1. /\ S \in Nat /\ T \in Nat /\ Due(call[p], k) \in Nat /\ Due(x, k) \in Nat
        /\ T + Due(call[p], k) = S + Due(x, k)
    BY PendingMoves DEF CtrInv
  <2>2. ctr[k] = acked[k] % 2^Width /\ begun[k] = acked[k] + S
    BY DEF CtrInv, ValueInv
  <2>3. acked[k] \in Nat /\ begun[k] \in Nat /\ begun'[k] = begun[k] + Due(x, k) - Due(call[p], k)
    BY DEF CtrInv, CtrTypes, Counts
  <2> HIDE DEF S, T
  <2>4. begun'[k] = acked[k] + T
    BY <2>1, <2>2, <2>3
  <2> QED BY <2>2, <2>4 DEF T
<1>4. ReadsAreCurrent'
  <2> SUFFICES ASSUME NEW q \in Callers, call'[q].op \in {"get", "getall"}, call'[q].pc = "done",
                      NEW k \in Reads(q)'
               PROVE  \E n \in call'[q].low[k]..call'[q].high[k] : n % 2^Width = call'[q].got[k]
    BY DEF ReadsAreCurrent
  <2>1. CASE q = p
    <3>1. x.op = "get" \/ x.op = "getall"
      BY <1>1, <2>1
    <3>2. k \in CtrKeys
      BY <1>1, <2>1, <3>1 DEF Reads
    <3> QED BY <1>1, <2>1, <3>1, <3>2
  <2>2. CASE q # p
    <3>1. call'[q] = call[q]
      BY <1>1, <2>2
    <3>2. k \in Reads(q)
      BY <3>1 DEF Reads
    <3> QED BY <3>1, <3>2 DEF CtrInv, ReadsAreCurrent
  <2> QED BY <2>1, <2>2
<1> QED BY <1>2, <1>3, <1>4

\* The types after a step of p's call.
LEMMA TypesOfMove ==
  ASSUME CtrTypes, NEW p \in Callers, NEW x, CallIs(p, x),
         UNCHANGED <<ctr, acked, dead>>, loop' \in {"quit", "inc", "read", "ended"},
         chGet' \in Seq(Callers), Len(chGet') <= GetDepth,
         chGetAll' \in Seq(Callers), Len(chGetAll') <= GetDepth, begun' \in Counts
  PROVE  CtrTypes'
<1>1. call' \in [Callers -> CtrCall]
  BY DEF CallIs
<1>2. \A q \in Callers : call'[q].pc \in {"idle", "send", "wait", "done"}
  BY <1>1 DEF CtrCall
<1>3. CtrTypeOK'
  BY <1>2 DEF CtrTypes, CtrTypeOK
<1> QED BY <1>1, <1>3 DEF CtrTypes

\* A call begins.
LEMMA BeginStep ==
  ASSUME CtrInv, NEW p \in Callers, NEW op \in {"inc", "get", "getall", "close"},
         NEW k \in CtrKeys \cup {NoCall.key}, NEW n \in Nat, CallBegins(p, op, k, n),
         op \in {"inc", "get"} => k \in CtrKeys, begun' \in Counts,
         \A j \in CtrKeys : begun'[j] = begun[j] + (IF op = "inc" /\ k = j THEN n ELSE 0)
  PROVE  CtrInv'
<1> DEFINE x == [op |-> op, pc |-> "send", key |-> k, n |-> n, got |-> Zero, low |-> acked,
                 high |-> Zero]
<1>1. /\ call[p].pc = "idle" /\ UNCHANGED <<ctr, loop, chGet, chGetAll, dead, acked>>
      /\ call' = [call EXCEPT ![p] = x]
  BY DEF CallBegins
<1>2. CtrTypes /\ call \in [Callers -> CtrCall] /\ call[p].op = "none" /\ acked \in Counts
  BY <1>1 DEF CtrInv, CtrTypes, CallInv
<1>3. Zero \in Counts
  BY DEF Zero, Counts
<1>4. x \in CtrCall
  BY <1>2, <1>3 DEF CtrCall
<1>5. /\ x.pc = "send" /\ x.op = op /\ x.key = k /\ x.n = n /\ x.low = acked
  OBVIOUS
<1> HIDE DEF x
<1>6. CallIs(p, x)
  BY <1>1, <1>2, <1>4 DEF CallIs
<1>7. CtrTypes'
  <2>1. /\ chGet' \in Seq(Callers) /\ Len(chGet') <= GetDepth
        /\ chGetAll' \in Seq(Callers) /\ Len(chGetAll') <= GetDepth
        /\ loop' \in {"quit", "inc", "read", "ended"}
    BY <1>1, <1>2 DEF CtrTypes, CtrTypeOK
  <2> QED BY <1>1, <1>2, <1>6, <2>1, TypesOfMove
<1>8. \A j \in CtrKeys : Due(call[p], j) = 0 /\ Due(x, j) = IF op = "inc" /\ k = j THEN n ELSE 0
  BY <1>1, <1>5 DEF Due
<1>9. \A j \in CtrKeys : begun[j] \in Nat /\ acked[j] \in Nat
  BY <1>2 DEF CtrTypes, Counts
<1>10. \A j \in CtrKeys : begun'[j] = begun[j] + Due(x, j) - Due(call[p], j)
  BY <1>8, <1>9
<1>11. \A j \in CtrKeys : x.low[j] <= acked[j]
  BY <1>5, <1>9
<1>12. CallInv' /\ ValueInv' /\ ReadsAreCurrent'
  BY <1>1, <1>5, <1>6, <1>10, <1>11, CallMoves
<1>13. QueueInv'
  <2>1. /\ \A i \in 1..Len(chGet) : chGet[i] \in Callers /\ chGet[i] # p
        /\ \A i \in 1..Len(chGetAll) : chGetAll[i] \in Callers /\ chGetAll[i] # p
    <3>1. chGet \in Seq(Callers) /\ chGetAll \in Seq(Callers)
      BY <1>2 DEF CtrTypes, CtrTypeOK
    <3>2. /\ \A i \in 1..Len(chGet) : call[chGet[i]].op = "get"
          /\ \A i \in 1..Len(chGetAll) : call[chGetAll[i]].op = "getall"
      BY DEF CtrInv, QueueInv
    <3>3. call[p].op = "none"
      BY <1>2
    <3>4. /\ \A i \in 1..Len(chGet) : chGet[i] \in Callers
          /\ \A i \in 1..Len(chGetAll) : chGetAll[i] \in Callers
      BY <3>1
    <3> QED BY <3>2, <3>3, <3>4
  <2> QED BY <1>1, <1>6, <2>1 DEF CtrInv, QueueInv, CallIs
<1> QED BY <1>7, <1>12, <1>13 DEF CtrInv

\* A call goes on to l, and adds nothing by it.
LEMMA GoesStep ==
  ASSUME CtrInv, NEW p \in Callers, NEW l \in {"wait", "done"}, Goes(p, l),
         call[p].pc = "send", call[p].op # "inc",
         l = "done" => call[p].op \notin {"get", "getall"},
         UNCHANGED <<ctr, acked, dead, begun>>, loop' \in {"quit", "inc", "read", "ended"},
         chGet' \in Seq(Callers), Len(chGet') <= GetDepth,
         chGetAll' \in Seq(Callers), Len(chGetAll') <= GetDepth
  PROVE  /\ CtrTypes' /\ CallInv' /\ ValueInv' /\ ReadsAreCurrent'
         /\ \A q \in Callers : call'[q].op = call[q].op
<1> DEFINE x == [call[p] EXCEPT !.pc = l]
<1>1. CtrTypes /\ call \in [Callers -> CtrCall] /\ call[p] \in CtrCall /\ begun \in Counts
  BY DEF CtrInv, CtrTypes
<1>2. call' = [call EXCEPT ![p] = x]
  BY DEF Goes
<1>3. x \in CtrCall
  BY <1>1 DEF CtrCall
<1>4. x.pc = l /\ x.op = call[p].op /\ x.key = call[p].key /\ x.low = call[p].low
  BY <1>1 DEF CtrCall
<1> HIDE DEF x
<1>5. CallIs(p, x)
  BY <1>1, <1>2, <1>3 DEF CallIs
<1>6. CtrTypes'
  BY <1>1, <1>5, TypesOfMove
<1>7. \A j \in CtrKeys : Due(call[p], j) = 0 /\ Due(x, j) = 0 /\ begun[j] \in Nat
  BY <1>1, <1>4 DEF Due, Counts
<1>8. \A j \in CtrKeys : begun'[j] = begun[j] + Due(x, j) - Due(call[p], j)
  BY <1>7
<1>9. /\ x.op \in {"inc", "get"} => x.key \in CtrKeys
      /\ \A j \in CtrKeys : x.low[j] <= acked[j]
  BY <1>4 DEF CtrInv, CallInv
<1>10. CallInv' /\ ValueInv' /\ ReadsAreCurrent'
  BY <1>1, <1>4, <1>5, <1>8, <1>9, CallMoves
<1>11. \A q \in Callers : call'[q].op = call[q].op
  BY <1>4, <1>5 DEF CallIs
<1> QED BY <1>6, <1>10, <1>11

\* A read is queued.
LEMMA QueueSteps ==
  ASSUME CtrInv, NEW p \in Callers, QueueGet(p) \/ QueueGetAll(p)
  PROVE  CtrInv'
<1>1. /\ Goes(p, "wait") /\ call[p].pc = "send" /\ call[p].op \in {"get", "getall"}
      /\ UNCHANGED <<ctr, loop, dead, begun, acked>>
      /\ \/ /\ call[p].op = "get" /\ Len(chGet) < GetDepth
            /\ chGet' = Append(chGet, p) /\ chGetAll' = chGetAll
         \/ /\ call[p].op = "getall" /\ Len(chGetAll) < GetDepth
            /\ chGetAll' = Append(chGetAll, p) /\ chGet' = chGet
  BY DEF QueueGet, QueueGetAll, Sending
<1>2. /\ chGet \in Seq(Callers) /\ Len(chGet) <= GetDepth /\ GetDepth \in Nat
      /\ chGetAll \in Seq(Callers) /\ Len(chGetAll) <= GetDepth
      /\ loop' \in {"quit", "inc", "read", "ended"}
  BY <1>1, CountersAssumption DEF CtrInv, CtrTypes, CtrTypeOK
<1>a. ASSUME NEW ch \in Seq(Callers)
      PROVE  /\ Append(ch, p) \in Seq(Callers) /\ Len(Append(ch, p)) = Len(ch) + 1
             /\ Len(ch) \in Nat /\ Append(ch, p)[Len(ch) + 1] = p
             /\ \A i \in 1..Len(ch) : Append(ch, p)[i] = ch[i]
  OBVIOUS
<1>3. /\ chGet' \in Seq(Callers) /\ Len(chGet') <= GetDepth
      /\ chGetAll' \in Seq(Callers) /\ Len(chGetAll') <= GetDepth
  <2>1. CASE chGet' = Append(chGet, p) /\ chGetAll' = chGetAll /\ Len(chGet) < GetDepth
    BY <2>1, <1>2, <1>a
  <2>2. CASE chGetAll' = Append(chGetAll, p) /\ chGet' = chGet /\ Len(chGetAll) < GetDepth
    BY <2>2, <1>2, <1>a
  <2> QED BY <1>1, <2>1, <2>2
<1>4. /\ CtrTypes' /\ CallInv' /\ ValueInv' /\ ReadsAreCurrent'
      /\ \A q \in Callers : call'[q].op = call[q].op
  BY <1>1, <1>2, <1>3, GoesStep
<1>5. QueueInv'
  <2>1. /\ \A i \in 1..Len(chGet) : chGet[i] \in Callers /\ call[chGet[i]].op = "get"
        /\ \A i \in 1..Len(chGetAll) : chGetAll[i] \in Callers /\ call[chGetAll[i]].op = "getall"
    BY <1>2 DEF CtrInv, QueueInv
  <2>2. /\ \A i \in 1..Len(chGet') : chGet'[i] \in Callers /\ call[chGet'[i]].op = "get"
        /\ \A i \in 1..Len(chGetAll') : chGetAll'[i] \in Callers /\ call[chGetAll'[i]].op = "getall"
    <3>1. CASE chGet' = Append(chGet, p) /\ chGetAll' = chGetAll /\ call[p].op = "get"
      <4>1. \A i \in 1..Len(chGet') : i \in 1..Len(chGet) \/ i = Len(chGet) + 1
        BY <3>1, <1>2, <1>a
      <4> QED BY <3>1, <4>1, <1>2, <1>a, <2>1
    <3>2. CASE chGetAll' = Append(chGetAll, p) /\ chGet' = chGet /\ call[p].op = "getall"
      <4>1. \A i \in 1..Len(chGetAll') : i \in 1..Len(chGetAll) \/ i = Len(chGetAll) + 1
        BY <3>2, <1>2, <1>a
      <4> QED BY <3>2, <4>1, <1>2, <1>a, <2>1
    <3> QED BY <1>1, <3>1, <3>2
  <2> QED BY <1>4, <2>2 DEF QueueInv
<1> QED BY <1>4, <1>5 DEF CtrInv

\* A step that leaves calls, queues and counters alone.
LEMMA LoopGoesOn ==
  ASSUME CtrInv, UNCHANGED <<ctr, acked, begun, call, chGet, chGetAll>>,
         loop' \in {"quit", "inc", "read", "ended"}, dead' \in BOOLEAN
  PROVE  CtrInv'
<1>1. CtrTypes' /\ CallInv' /\ QueueInv' /\ ValueInv'
  BY DEF CtrInv, CtrTypes, CtrTypeOK, CallInv, QueueInv, ValueInv
<1>2. ReadsAreCurrent'
  BY DEF CtrInv, ReadsAreCurrent, Reads
<1> QED BY <1>1, <1>2 DEF CtrInv

\* A Close is served, or none is there.
LEMMA LoopQuitStep == ASSUME CtrInv, LoopQuit PROVE CtrInv'
<1>1. UNCHANGED <<ctr, chGet, chGetAll, dead, begun, acked>>
  BY DEF LoopQuit
<1>2. /\ chGet' \in Seq(Callers) /\ Len(chGet') <= GetDepth
      /\ chGetAll' \in Seq(Callers) /\ Len(chGetAll') <= GetDepth /\ dead' \in BOOLEAN
  BY <1>1 DEF CtrInv, CtrTypes, CtrTypeOK
<1>3. ASSUME NEW p \in Callers, Sending(p, "close"), Goes(p, "done"), loop' = "ended"
      PROVE  CtrInv'
  <2>1. call[p].pc = "send" /\ call[p].op = "close"
    BY <1>3 DEF Sending
  <2>2. /\ CtrTypes' /\ CallInv' /\ ValueInv' /\ ReadsAreCurrent'
        /\ \A q \in Callers : call'[q].op = call[q].op
    BY <1>1, <1>2, <1>3, <2>1, GoesStep
  <2>3. QueueInv'
    <3>1. /\ \A i \in 1..Len(chGet) : chGet[i] \in Callers
          /\ \A i \in 1..Len(chGetAll) : chGetAll[i] \in Callers
      BY DEF CtrInv, CtrTypes, CtrTypeOK
    <3> QED BY <1>1, <2>2, <3>1 DEF CtrInv, QueueInv
  <2> QED BY <2>2, <2>3 DEF CtrInv
<1>4. ASSUME UNCHANGED call, loop' = "inc" PROVE CtrInv'
  BY <1>1, <1>2, <1>4, LoopGoesOn
<1> QED BY <1>3, <1>4 DEF LoopQuit

\* An Inc is applied, or none is there.
LEMMA LoopIncStep == ASSUME CtrInv, LoopInc PROVE CtrInv'
<1>1. UNCHANGED <<chGet, chGetAll, dead, begun>>
  BY DEF LoopInc
<1>2. /\ chGet \in Seq(Callers) /\ Len(chGet) <= GetDepth
      /\ chGetAll \in Seq(Callers) /\ Len(chGetAll) <= GetDepth /\ dead \in BOOLEAN
      /\ ctr \in [CtrKeys -> 0..(2^Width - 1)] /\ acked \in Counts /\ begun \in Counts
      /\ call \in [Callers -> CtrCall] /\ CtrTypes
  BY DEF CtrInv, CtrTypes, CtrTypeOK
<1>3. ASSUME NEW p \in Callers, Sending(p, "inc"), Goes(p, "done"), loop' = "quit",
             ctr' = [ctr EXCEPT ![call[p].key] = Added(@, call[p].n)],
             acked' = [acked EXCEPT ![call[p].key] = @ + call[p].n]
      PROVE  CtrInv'
  <2> DEFINE k == call[p].key
             n == call[p].n
             x == [call[p] EXCEPT !.pc = "done"]
             M == 2^Width
  <2>1. call[p].pc = "send" /\ call[p].op = "inc" /\ k \in CtrKeys /\ n \in Nat
    BY <1>2, <1>3 DEF Sending, CtrInv, CallInv, CtrCall
  <2>2. call' = [call EXCEPT ![p] = x]
    BY <1>3 DEF Goes
  <2>3. x \in CtrCall /\ x.pc = "done" /\ x.op = "inc" /\ x.low = call[p].low /\ x.key = k
    BY <1>2, <2>1 DEF CtrCall
  <2>4. acked' = [acked EXCEPT ![k] = acked[k] + n] /\ ctr' = [ctr EXCEPT ![k] = (ctr[k] + n) % M]
    BY <1>3 DEF Added
  <2>5. M \in Nat \ {0}
    BY CountersAssumption
  <2> HIDE DEF x, k, n, M
  <2>6. CallIs(p, x)
    BY <1>2, <2>2, <2>3 DEF CallIs
  <2>7. /\ acked' \in Counts /\ acked'[k] = acked[k] + n /\ acked[k] \in Nat
        /\ \A j \in CtrKeys \ {k} : acked'[j] = acked[j]
        /\ \A j \in CtrKeys : acked[j] <= acked'[j] /\ acked[j] \in Nat /\ acked'[j] \in Nat
    BY <1>2, <2>1, <2>4 DEF Counts
  <2>8. ctr'[k] = acked'[k] % M
    <3>1. ctr[k] = acked[k] % M
      BY <2>1 DEF CtrInv, ValueInv, M
    <3>2. ctr'[k] = (ctr[k] + n) % M
      BY <1>2, <2>1, <2>4
    <3> QED BY <2>1, <2>5, <2>7, <3>1, <3>2, ModPlus
  <2>9. \A j \in CtrKeys \ {k} : ctr'[j] = acked'[j] % M
    <3>1. \A j \in CtrKeys \ {k} : ctr'[j] = ctr[j]
      BY <1>2, <2>1, <2>4
    <3> QED BY <2>7, <3>1 DEF CtrInv, ValueInv, M
  <2>10. ctr' \in [CtrKeys -> 0..(M - 1)]
    <3>1. \A j \in CtrKeys : ctr'[j] \in 0..(M - 1)
      <4>1. \A j \in CtrKeys : ctr'[j] = acked'[j] % M /\ acked'[j] \in Nat
        BY <2>7, <2>8, <2>9
      <4>2. \A v \in Nat : v % M \in 0..(M - 1)
        BY <2>5, DivMod
      <4> QED BY <4>1, <4>2
    <3>2. DOMAIN ctr' = CtrKeys /\ ctr' = [j \in CtrKeys |-> ctr'[j]]
      BY <1>2, <2>4
    <3> QED BY <3>1, <3>2
  <2>11. CtrTypes'
    <3>1. call' \in [Callers -> CtrCall]
      BY <2>6 DEF CallIs
    <3>2. \A q \in Callers : call'[q].pc \in {"idle", "send", "wait", "done"}
      BY <3>1 DEF CtrCall
    <3>3. CtrTypeOK'
      <4>1. ctr' \in [CtrKeys -> 0..(2^Width - 1)]
        BY <2>10 DEF M
      <4>2. loop' \in {"quit", "inc", "read", "ended"} /\ dead' \in BOOLEAN
        BY <1>1, <1>2, <1>3
      <4> QED BY <1>1, <1>2, <3>2, <4>1, <4>2 DEF CtrTypeOK
    <3> QED BY <1>1, <1>2, <2>7, <3>1, <3>3 DEF CtrTypes
  <2>12. \A q \in Callers \ {p} : call'[q] = call[q]
    BY <2>6 DEF CallIs
  <2>13. call'[p] = x
    BY <2>6 DEF CallIs
  <2>14. CallInv'
    <3> SUFFICES ASSUME NEW q \in Callers
                 PROVE  /\ call'[q].pc = "idle" => call'[q].op = "none"
                        /\ call'[q].op \in {"inc", "get"} => call'[q].key \in CtrKeys
                        /\ \A j \in CtrKeys : call'[q].low[j] <= acked'[j]
      BY DEF CallInv
    <3>1. /\ call'[q].op = call[q].op /\ call'[q].key = call[q].key /\ call'[q].low = call[q].low
          /\ call'[q].pc = "idle" => call[q].pc = "idle"
      BY <2>1, <2>3, <2>12, <2>13 DEF k
    <3>2. \A j \in CtrKeys : call[q].low[j] \in Nat /\ call[q].low[j] <= acked[j]
      BY <1>2 DEF CtrInv, CallInv, CtrCall, Counts
    <3>3. \A j \in CtrKeys : call[q].low[j] <= acked'[j]
      BY <2>7, <3>2
    <3> QED BY <3>1, <3>3 DEF CtrInv, CallInv
  <2>15. ValueInv'
    <3> SUFFICES ASSUME NEW j \in CtrKeys
                 PROVE  begun'[j] = acked'[j] + SumFunctionOnSet(Pending(call', j), Callers)
      BY <2>8, <2>9 DEF ValueInv, M
    <3> DEFINE S == SumFunctionOnSet(Pending(call, j), Callers)
               T == SumFunctionOnSet(Pending(call', j), Callers)
    <3>1. S \in Nat /\ T \in Nat /\ T + Due(call[p], j) = S + Due(x, j)
      BY <1>2, <2>6, PendingMoves
    <3>2. Due(x, j) = 0 /\ Due(call[p], j) = IF k = j THEN n ELSE 0
      BY <2>1, <2>3 DEF Due, k, n
    <3>3. begun[j] = acked[j] + S
      BY DEF CtrInv, ValueInv
    <3> HIDE DEF S, T
    <3>4. begun[j] = acked'[j] + T
      BY <2>1, <2>7, <3>1, <3>2, <3>3
    <3> QED BY <1>1, <3>4 DEF T
  <2>16. QueueInv'
    <3>1. \A q \in Callers : call'[q].op = call[q].op
      BY <2>1, <2>3, <2>12, <2>13
    <3>2. /\ \A i \in 1..Len(chGet) : chGet[i] \in Callers
          /\ \A i \in 1..Len(chGetAll) : chGetAll[i] \in Callers
      BY <1>2
    <3> QED BY <1>1, <3>1, <3>2 DEF CtrInv, QueueInv
  <2>17. ReadsAreCurrent'
    <3> SUFFICES ASSUME NEW q \in Callers, call'[q].op \in {"get", "getall"}, call'[q].pc = "done",
                        NEW j \in Reads(q)'
                 PROVE  \E m \in call'[q].low[j]..call'[q].high[j] : m % 2^Width = call'[q].got[j]
      BY DEF ReadsAreCurrent
    <3>1. q # p
      BY <2>3, <2>13
    <3>2. call'[q] = call[q]
      BY <3>1, <2>12
    <3>3. j \in Reads(q)
      BY <3>2 DEF Reads
    <3> QED BY <3>2, <3>3 DEF CtrInv, ReadsAreCurrent
  <2> QED BY <2>11, <2>14, <2>15, <2>16, <2>17 DEF CtrInv
<1>4. ASSUME loop' = "read", UNCHANGED <<ctr, acked, call>> PROVE CtrInv'
  BY <1>1, <1>2, <1>4, LoopGoesOn
<1> QED BY <1>3, <1>4 DEF LoopInc

\* A queued read is answered with what the counters have now: everything that
\* returned before it began, and nothing that has not begun.
LEMMA ReplyStep ==
  ASSUME CtrInv, NEW p \in Callers, call[p].op \in {"get", "getall"}, Replied(p, ctr),
         UNCHANGED <<ctr, dead, begun, acked>>, loop' = "quit",
         chGet' \in Seq(Callers), Len(chGet') <= GetDepth,
         chGetAll' \in Seq(Callers), Len(chGetAll') <= GetDepth
  PROVE  /\ CtrTypes' /\ CallInv' /\ ValueInv' /\ ReadsAreCurrent'
         /\ \A q \in Callers : call'[q].op = call[q].op
<1> DEFINE y == [call[p] EXCEPT !.pc = "done"]
           z == [y EXCEPT !.got = ctr]
           x == [z EXCEPT !.high = begun]
<1>1. /\ CtrTypes /\ call \in [Callers -> CtrCall] /\ call[p] \in CtrCall
      /\ begun \in Counts /\ acked \in Counts
  BY DEF CtrInv, CtrTypes
<1>2. ctr \in Counts
  BY CountersAssumption DEF CtrInv, CtrTypes, CtrTypeOK, Counts
<1>3. call' = [call EXCEPT ![p] = x]
  BY <1>1 DEF Replied
<1>4. y \in CtrCall /\ y.pc = "done" /\ y.op = call[p].op /\ y.key = call[p].key /\ y.low = call[p].low
  BY <1>1 DEF CtrCall
<1> HIDE DEF y
<1>5. z \in CtrCall /\ z.pc = "done" /\ z.op = y.op /\ z.key = y.key /\ z.low = y.low /\ z.got = ctr
  BY <1>2, <1>4 DEF CtrCall
<1> HIDE DEF z
<1>6. x \in CtrCall /\ x.pc = "done" /\ x.op = z.op /\ x.key = z.key /\ x.low = z.low /\ x.got = ctr
      /\ x.high = begun
  BY <1>1, <1>5 DEF CtrCall
<1> HIDE DEF x
<1>7. CallIs(p, x)
  BY <1>1, <1>3, <1>6 DEF CallIs
<1>8. CtrTypes'
  BY <1>1, <1>7, TypesOfMove
<1>9. \A j \in CtrKeys : Due(call[p], j) = 0 /\ Due(x, j) = 0 /\ begun[j] \in Nat
  BY <1>1, <1>6 DEF Due, Counts
<1>10. \A j \in CtrKeys : begun'[j] = begun[j] + Due(x, j) - Due(call[p], j)
  BY <1>9
<1>11. /\ x.op \in {"inc", "get"} => x.key \in CtrKeys
       /\ \A j \in CtrKeys : x.low[j] <= acked[j]
  BY <1>4, <1>5, <1>6 DEF CtrInv, CallInv
<1>12. \A j \in CtrKeys : \E n \in x.low[j]..x.high[j] : n % 2^Width = x.got[j]
  <2> SUFFICES ASSUME NEW j \in CtrKeys
               PROVE  acked[j] \in x.low[j]..x.high[j] /\ acked[j] % 2^Width = x.got[j]
    OBVIOUS
  <2>1. ctr[j] = acked[j] % 2^Width
    BY DEF CtrInv, ValueInv
  <2>2. acked[j] <= begun[j]
    <3>1. SumFunctionOnSet(Pending(call, j), Callers) \in Nat
      BY <1>1, PendingIsNat
    <3>2. begun[j] = acked[j] + SumFunctionOnSet(Pending(call, j), Callers)
      BY DEF CtrInv, ValueInv
    <3> QED BY <1>1, <3>1, <3>2 DEF Counts
  <2>3. x.low[j] \in Nat /\ acked[j] \in Nat /\ begun[j] \in Nat
    BY <1>1, <1>6 DEF CtrCall, Counts
  <2> QED BY <1>6, <1>11, <2>1, <2>2, <2>3
<1>13. CallInv' /\ ValueInv' /\ ReadsAreCurrent'
  BY <1>1, <1>6, <1>7, <1>10, <1>11, <1>12, CallMoves
<1>14. \A q \in Callers : call'[q].op = call[q].op
  BY <1>4, <1>5, <1>6, <1>7 DEF CallIs
<1> QED BY <1>8, <1>13, <1>14

\* One queued read is answered, or none is there.
LEMMA LoopReadStep == ASSUME CtrInv, LoopRead PROVE CtrInv'
<1>1. UNCHANGED <<ctr, dead, begun, acked>> /\ loop' = "quit"
  BY DEF LoopRead
<1>2. /\ chGet \in Seq(Callers) /\ Len(chGet) <= GetDepth /\ GetDepth \in Nat
      /\ chGetAll \in Seq(Callers) /\ Len(chGetAll) <= GetDepth /\ dead \in BOOLEAN
  BY CountersAssumption DEF CtrInv, CtrTypes, CtrTypeOK
<1>3. ASSUME NEW ch \in Seq(Callers), ch # <<>>
      PROVE  /\ Head(ch) = ch[1] /\ 1 \in 1..Len(ch) /\ Head(ch) \in Callers
             /\ Tail(ch) \in Seq(Callers) /\ Len(Tail(ch)) = Len(ch) - 1 /\ Len(ch) \in Nat
             /\ \A i \in 1..Len(Tail(ch)) : Tail(ch)[i] = ch[i + 1] /\ i + 1 \in 1..Len(ch)
  <2>1. Len(ch) \in Nat /\ Len(ch) >= 1
    BY <1>3
  <2>2. Head(ch) = ch[1] /\ ch[1] \in Callers
    BY <1>3, <2>1
  <2>3. Tail(ch) \in Seq(Callers) /\ Len(Tail(ch)) = Len(ch) - 1
    BY <1>3, <2>1
  <2>4. \A i \in 1..(Len(ch) - 1) : Tail(ch)[i] = ch[i + 1] /\ i + 1 \in 1..Len(ch)
    BY <1>3, <2>1
  <2> QED BY <2>1, <2>2, <2>3, <2>4
<1>4. /\ \A i \in 1..Len(chGet) : chGet[i] \in Callers /\ call[chGet[i]].op = "get"
      /\ \A i \in 1..Len(chGetAll) : chGetAll[i] \in Callers /\ call[chGetAll[i]].op = "getall"
  BY <1>2 DEF CtrInv, QueueInv
<1>5. CASE chGet # <<>> /\ Replied(Head(chGet), ctr) /\ chGet' = Tail(chGet) /\ UNCHANGED chGetAll
  <2> DEFINE p == Head(chGet)
  <2>1. p \in Callers /\ call[p].op = "get" /\ chGet' \in Seq(Callers) /\ Len(chGet') <= GetDepth
    BY <1>2, <1>3, <1>4, <1>5
  <2>2. Replied(p, ctr)
    BY <1>5
  <2> HIDE DEF p
  <2>3. /\ CtrTypes' /\ CallInv' /\ ValueInv' /\ ReadsAreCurrent'
        /\ \A q \in Callers : call'[q].op = call[q].op
    BY <1>1, <1>2, <1>5, <2>1, <2>2, ReplyStep
  <2>4. \A i \in 1..Len(chGet') : chGet'[i] \in Callers /\ call[chGet'[i]].op = "get"
    <3>1. \A i \in 1..Len(chGet') : chGet'[i] = chGet[i + 1] /\ i + 1 \in 1..Len(chGet)
      BY <1>2, <1>3, <1>5
    <3> QED BY <1>4, <3>1
  <2>5. QueueInv'
    BY <1>4, <1>5, <2>3, <2>4 DEF QueueInv
  <2> QED BY <2>3, <2>5 DEF CtrInv
<1>6. CASE chGetAll # <<>> /\ Replied(Head(chGetAll), ctr) /\ chGetAll' = Tail(chGetAll)
           /\ UNCHANGED chGet
  <2> DEFINE p == Head(chGetAll)
  <2>1. /\ p \in Callers /\ call[p].op = "getall"
        /\ chGetAll' \in Seq(Callers) /\ Len(chGetAll') <= GetDepth
    BY <1>2, <1>3, <1>4, <1>6
  <2>2. Replied(p, ctr)
    BY <1>6
  <2> HIDE DEF p
  <2>3. /\ CtrTypes' /\ CallInv' /\ ValueInv' /\ ReadsAreCurrent'
        /\ \A q \in Callers : call'[q].op = call[q].op
    BY <1>1, <1>2, <1>6, <2>1, <2>2, ReplyStep
  <2>4. \A i \in 1..Len(chGetAll') : chGetAll'[i] \in Callers /\ call[chGetAll'[i]].op = "getall"
    <3>1. \A i \in 1..Len(chGetAll') : chGetAll'[i] = chGetAll[i + 1] /\ i + 1 \in 1..Len(chGetAll)
      BY <1>2, <1>3, <1>6
    <3> QED BY <1>4, <3>1
  <2>5. QueueInv'
    BY <1>4, <1>6, <2>3, <2>4 DEF QueueInv
  <2> QED BY <2>3, <2>5 DEF CtrInv
<1>7. CASE UNCHANGED <<chGet, chGetAll, call>>
  BY <1>1, <1>2, <1>7, LoopGoesOn
<1> QED BY <1>5, <1>6, <1>7 DEF LoopRead

\* The initial states: nothing has begun.
LEMMA CtrInitInv == ASSUME CtrInit PROVE CtrInv
<1>1. Zero \in Counts /\ \A k \in CtrKeys : Zero[k] = 0
  BY DEF Zero, Counts
<1>2. /\ NoCall \in CtrCall /\ NoCall.op = "none" /\ NoCall.pc = "idle" /\ NoCall.low = Zero
  <2>1. NoCall.key \in CtrKeys \cup {NoCall.key}
    OBVIOUS
  <2>2. /\ NoCall.op = "none" /\ NoCall.pc = "idle" /\ NoCall.n = 0 /\ NoCall.got = Zero
        /\ NoCall.low = Zero /\ NoCall.high = Zero
    BY DEF NoCall
  <2>3. NoCall = [op |-> NoCall.op, pc |-> NoCall.pc, key |-> NoCall.key, n |-> NoCall.n,
                  got |-> NoCall.got, low |-> NoCall.low, high |-> NoCall.high]
    BY DEF NoCall
  <2> QED BY <1>1, <2>1, <2>2, <2>3 DEF CtrCall
<1>3. /\ ctr = Zero /\ begun = Zero /\ acked = Zero /\ chGet = <<>> /\ chGetAll = <<>>
      /\ call = [p \in Callers |-> NoCall] /\ loop = "quit" /\ dead = FALSE
  BY DEF CtrInit
<1>4. \A p \in Callers : call[p] = NoCall
  BY <1>3
<1>5. 0 % 2^Width = 0 /\ 2^Width \in Nat \ {0} /\ GetDepth \in Nat
  BY CountersAssumption
<1>6. CtrTypes
  <2>1. Zero \in [CtrKeys -> 0..(2^Width - 1)]
    BY <1>5 DEF Zero
  <2>2. call \in [Callers -> CtrCall]
    BY <1>2, <1>3
  <2>3. <<>> \in Seq(Callers) /\ Len(<<>>) = 0
    OBVIOUS
  <2>4. \A p \in Callers : call[p].pc \in {"idle", "send", "wait", "done"}
    BY <1>2, <1>4
  <2>5. CtrTypeOK
    <3>1. ctr \in [CtrKeys -> 0..(2^Width - 1)]
      BY <1>3, <2>1
    <3>2. /\ chGet \in Seq(Callers) /\ Len(chGet) <= GetDepth
          /\ chGetAll \in Seq(Callers) /\ Len(chGetAll) <= GetDepth
      BY <1>3, <1>5, <2>3
    <3>3. loop \in {"quit", "inc", "read", "ended"} /\ dead \in BOOLEAN
      BY <1>3
    <3> QED BY <2>4, <3>1, <3>2, <3>3 DEF CtrTypeOK
  <2> QED BY <1>1, <1>3, <2>2, <2>5 DEF CtrTypes
<1>7. CallInv
  BY <1>1, <1>2, <1>3, <1>4 DEF CallInv
<1>8. QueueInv
  BY <1>3 DEF QueueInv
<1>9. ValueInv
  <2> SUFFICES ASSUME NEW k \in CtrKeys PROVE SumFunctionOnSet(Pending(call, k), Callers) = 0
    BY <1>1, <1>3, <1>5 DEF ValueInv
  <2>1. \A p \in Callers : Pending(call, k)[p] = 0
    BY <1>2, <1>4 DEF Pending
  <2> QED BY <2>1, CountersAssumption, SumZero
<1>10. ReadsAreCurrent
  BY <1>2, <1>4 DEF ReadsAreCurrent
<1> QED BY <1>6, <1>7, <1>8, <1>9, <1>10 DEF CtrInv

\* Every step keeps the invariant.
LEMMA CtrNextInv == ASSUME CtrInv, [CtrNext]_ctrVars PROVE CtrInv'
<1>1. begun \in Counts /\ \A j \in CtrKeys : begun[j] \in Nat
  BY DEF CtrInv, CtrTypes, Counts
<1>2. ASSUME NEW p \in Callers, NEW k \in CtrKeys, NEW n \in Amounts, CtrInc(p, k, n) PROVE CtrInv'
  <2>1. n \in Nat /\ CallBegins(p, "inc", k, n) /\ begun' = [begun EXCEPT ![k] = begun[k] + n]
    BY <1>2, CountersAssumption DEF CtrInc
  <2>2. /\ begun' \in Counts
        /\ \A j \in CtrKeys : begun'[j] = begun[j] + (IF "inc" = "inc" /\ k = j THEN n ELSE 0)
    BY <1>1, <2>1 DEF Counts
  <2>3. k \in CtrKeys \cup {NoCall.key}
    OBVIOUS
  <2> QED BY <2>1, <2>2, <2>3, BeginStep
<1>3. ASSUME NEW p \in Callers, NEW op \in {"get", "getall", "close"},
             NEW k \in CtrKeys \cup {NoCall.key}, op = "get" => k \in CtrKeys,
             CallBegins(p, op, k, 0), UNCHANGED begun
      PROVE  CtrInv'
  <2>1. \A j \in CtrKeys : begun'[j] = begun[j] + (IF op = "inc" /\ k = j THEN 0 ELSE 0)
    BY <1>1, <1>3
  <2> QED BY <1>1, <1>3, <2>1, BeginStep
<1>4. ASSUME NEW p \in Callers, NEW k \in CtrKeys, CtrGet(p, k) PROVE CtrInv'
  BY <1>3, <1>4 DEF CtrGet
<1>5. ASSUME NEW p \in Callers, CtrGetAll(p) \/ CtrClose(p) PROVE CtrInv'
  BY <1>3, <1>5 DEF CtrGetAll, CtrClose
<1>6. ASSUME NEW p \in Callers, CallStep(p) PROVE CtrInv'
  <2>1. CASE SendPanics(p)
    <3>1. /\ UNCHANGED <<ctr, loop, chGet, chGetAll, call, begun, acked>> /\ dead' = TRUE
          /\ loop \in {"quit", "inc", "read", "ended"}
      BY <2>1 DEF SendPanics, CtrInv, CtrTypes, CtrTypeOK
    <3> QED BY <3>1, LoopGoesOn
  <2> QED BY <1>6, <2>1, QueueSteps DEF CallStep
<1>7. CASE UNCHANGED ctrVars
  <2>1. /\ UNCHANGED <<ctr, loop, chGet, chGetAll, call, dead, begun, acked>>
        /\ loop \in {"quit", "inc", "read", "ended"} /\ dead \in BOOLEAN
    BY <1>7 DEF ctrVars, CtrInv, CtrTypes, CtrTypeOK
  <2> QED BY <2>1, LoopGoesOn
<1> QED BY <1>2, <1>4, <1>5, <1>6, <1>7, LoopQuitStep, LoopIncStep, LoopReadStep
        DEF CtrNext, LoopStep

\* The invariant holds in every state of the counters.
THEOREM CtrInvHolds == CtrSpec => []CtrInv
BY CtrInitInv, CtrNextInv, PTL DEF CtrSpec

\* What a read returns lies, modulo the width, between the Incs that had
\* returned at its beginning and those begun at its end, for any number of
\* callers and of counters and for counters of any width, over which they may
\* go.
THEOREM ReadsAreCurrentHolds == CtrSpec => []ReadsAreCurrent
<1>1. CtrInv => ReadsAreCurrent
  BY DEF CtrInv
<1> QED BY <1>1, CtrInvHolds, PTL

-----------------------------------------------------------------------------
(***************************************************************************)
(* RpcServer.  That Serve takes one token at most is not in the sum: it is *)
(* that Serve leaves its loop with the token and does not come back.       *)
(***************************************************************************)
SrvTypes ==
  /\ serving \in InLoop \cup {"start", "down", "leaving", "ended"}
  /\ delay \in StartDelay..MaxDelay
  /\ listener \in BOOLEAN
  /\ quit \in 0..1
  /\ senders \in Nat
  /\ closing \in [AllClosers -> {"idle", "take", "close", "done"}]
  /\ took \in BOOLEAN

ServeLeft == took => serving \in {"leaving", "ended"}

SrvInv == SrvTypes /\ ServeLeft /\ TokensAddUp

\* There are finitely many Closes.
LEMMA ClosersFinite ==
  /\ IsFiniteSet(AllClosers) /\ IsFiniteSet(Waiting) /\ Waiting \subseteq AllClosers
  /\ Cardinality(Waiting) \in Nat /\ Cardinality(Waiting) <= Cardinality(AllClosers)
<1>1. IsFiniteSet(Closers \cup {ServeClose})
  BY RpcServerAssumption, FS_AddElement
<1>2. IsFiniteSet((Closers \cup {ServeClose}) \cup {MainClose})
  BY <1>1, FS_AddElement
<1>3. AllClosers = (Closers \cup {ServeClose}) \cup {MainClose}
  BY DEF AllClosers
<1>4. IsFiniteSet(AllClosers) /\ Waiting \subseteq AllClosers
  BY <1>2, <1>3 DEF Waiting
<1> QED BY <1>4, FS_Subset, FS_CardinalityType

\* One more Quit waits.
LEMMA OneWaits ==
  ASSUME SrvTypes, NEW c \in AllClosers, closing[c] # "take",
         closing' = [closing EXCEPT ![c] = "take"]
  PROVE  /\ Cardinality(Waiting') = Cardinality(Waiting) + 1
         /\ closing' \in [AllClosers -> {"idle", "take", "close", "done"}]
<1>1. closing \in [AllClosers -> {"idle", "take", "close", "done"}]
  BY DEF SrvTypes
<1>2. Waiting' = Waiting \cup {c} /\ c \notin Waiting
  BY <1>1 DEF Waiting
<1>3. Cardinality(Waiting \cup {c}) = Cardinality(Waiting) + 1
  BY <1>2, ClosersFinite, FS_AddElement
<1> QED BY <1>1, <1>2, <1>3

\* A Quit that waited goes on.
LEMMA OneGoes ==
  ASSUME SrvTypes, NEW c \in AllClosers, closing[c] = "take",
         closing' = [closing EXCEPT ![c] = "close"]
  PROVE  /\ Cardinality(Waiting') = Cardinality(Waiting) - 1
         /\ closing' \in [AllClosers -> {"idle", "take", "close", "done"}]
<1>1. closing \in [AllClosers -> {"idle", "take", "close", "done"}]
  BY DEF SrvTypes
<1>2. Waiting' = Waiting \ {c} /\ c \in Waiting
  BY <1>1 DEF Waiting
<1>3. Cardinality(Waiting \ {c}) = Cardinality(Waiting) - 1
  BY <1>2, ClosersFinite, FS_RemoveElement
<1> QED BY <1>1, <1>2, <1>3

\* Nothing has begun.
LEMMA SrvInitInv == ASSUME SrvInit PROVE SrvInv
<1>1. SrvTypes /\ ServeLeft
  <2>1. delay \in StartDelay..MaxDelay
    BY RpcServerAssumption DEF SrvInit
  <2>2. closing \in [AllClosers -> {"idle", "take", "close", "done"}]
    BY DEF SrvInit
  <2>3. /\ serving \in InLoop \cup {"start", "down", "leaving", "ended"}
        /\ quit \in 0..1 /\ senders \in Nat
    BY DEF SrvInit
  <2>4. listener \in BOOLEAN /\ took \in BOOLEAN /\ ~took
    BY Zenon DEF SrvInit
  <2> QED BY <2>1, <2>2, <2>3, <2>4 DEF SrvTypes, ServeLeft
<1>2. Waiting = {}
  BY DEF SrvInit, Waiting
<1>3. TokensAddUp
  BY <1>2, FS_EmptySet DEF SrvInit, TokensAddUp
<1> QED BY <1>1, <1>3 DEF SrvInv

\* Every step keeps the invariant.
LEMMA SrvNextInv == ASSUME SrvInv, [SrvNext]_srvVars PROVE SrvInv'
<1>1. SrvTypes /\ ServeLeft /\ TokensAddUp
  BY DEF SrvInv
<1>2. ASSUME UNCHANGED <<closing, quit, senders, took>>,
             serving' \in InLoop \cup {"start", "down", "leaving", "ended"},
             serving \in {"leaving", "ended"} => serving' \in {"leaving", "ended"},
             delay' \in StartDelay..MaxDelay, listener' \in BOOLEAN
      PROVE  SrvInv'
  <2>1. SrvTypes' /\ ServeLeft'
    BY <1>1, <1>2 DEF SrvTypes, ServeLeft
  <2>2. Waiting' = Waiting
    BY <1>2 DEF Waiting
  <2>3. TokensAddUp'
    BY <1>1, <1>2, <2>2 DEF TokensAddUp
  <2> QED BY <2>1, <2>3 DEF SrvInv
<1>3. /\ serving \in InLoop \cup {"start", "down", "leaving", "ended"} /\ listener \in BOOLEAN
      /\ delay \in StartDelay..MaxDelay /\ StartDelay \in StartDelay..MaxDelay
      /\ Backoff(delay) \in StartDelay..MaxDelay
  BY <1>1, RpcServerAssumption DEF SrvTypes, Backoff
<1>4. CASE Listen
  BY <1>2, <1>3, <1>4 DEF Listen, InLoop
<1>5. CASE ServeAccepts \/ SleepEnds
  BY <1>2, <1>3, <1>5 DEF ServeAccepts, SleepEnds, InLoop
<1>6. CASE Accepted \/ AcceptFails \/ AcceptBreaks
  BY <1>2, <1>3, <1>6 DEF Accepted, AcceptFails, AcceptBreaks, InLoop
<1>7. CASE ServeQuits
  <2>1. ~took
    BY <1>1, <1>7 DEF ServeQuits, ServeLeft
  <2>2. SrvTypes' /\ ServeLeft'
    BY <1>1, <1>7 DEF ServeQuits, SrvTypes, ServeLeft
  <2>3. Waiting' = Waiting
    BY <1>7 DEF ServeQuits, Waiting
  <2>4. TokensAddUp'
    BY <1>1, <1>7, <2>1, <2>3 DEF ServeQuits, TokensAddUp, SrvTypes
  <2> QED BY <2>2, <2>4 DEF SrvInv
<1>8. CASE QuitSends
  <2>1. SrvTypes' /\ ServeLeft'
    BY <1>1, <1>8 DEF QuitSends, SrvTypes, ServeLeft
  <2>2. Waiting' = Waiting
    BY <1>8 DEF QuitSends, Waiting
  <2>3. TokensAddUp'
    BY <1>1, <1>8, <2>2 DEF QuitSends, TokensAddUp, SrvTypes
  <2> QED BY <2>1, <2>3 DEF SrvInv
<1>9. ASSUME NEW c \in AllClosers, QuitBegins(c) PROVE SrvInv'
  <2>1. /\ closing[c] # "take" /\ closing' = [closing EXCEPT ![c] = "take"]
        /\ senders' = senders + 1 /\ UNCHANGED <<serving, delay, listener, quit, took>>
    BY <1>9 DEF QuitBegins
  <2>2. /\ Cardinality(Waiting') = Cardinality(Waiting) + 1
        /\ closing' \in [AllClosers -> {"idle", "take", "close", "done"}]
    BY <1>1, <2>1, OneWaits
  <2>3. SrvTypes' /\ ServeLeft'
    BY <1>1, <2>1, <2>2 DEF SrvTypes, ServeLeft
  <2>4. TokensAddUp'
    BY <1>1, <2>1, <2>2 DEF TokensAddUp, SrvTypes
  <2> QED BY <2>3, <2>4 DEF SrvInv
<1>10. ASSUME NEW c \in AllClosers, QuitTakes(c) PROVE SrvInv'
  <2>1. /\ closing[c] = "take" /\ closing' = [closing EXCEPT ![c] = "close"]
        /\ quit > 0 /\ quit' = quit - 1 /\ UNCHANGED <<serving, delay, listener, senders, took>>
    BY <1>10 DEF QuitTakes
  <2>2. /\ Cardinality(Waiting') = Cardinality(Waiting) - 1
        /\ closing' \in [AllClosers -> {"idle", "take", "close", "done"}]
    BY <1>1, <2>1, OneGoes
  <2>3. SrvTypes' /\ ServeLeft'
    BY <1>1, <2>1, <2>2 DEF SrvTypes, ServeLeft
  <2>4. TokensAddUp'
    BY <1>1, <2>1, <2>2 DEF TokensAddUp, SrvTypes
  <2> QED BY <2>3, <2>4 DEF SrvInv
<1>11. ASSUME NEW c \in AllClosers, ListenerCloses(c) PROVE SrvInv'
  <2>1. SrvTypes' /\ ServeLeft'
    BY <1>1, <1>11 DEF ListenerCloses, SrvTypes, ServeLeft
  <2>2. Waiting' = Waiting
    BY <1>1, <1>11 DEF ListenerCloses, Waiting, SrvTypes
  <2>3. TokensAddUp'
    BY <1>1, <1>11, <2>2 DEF ListenerCloses, TokensAddUp
  <2> QED BY <2>1, <2>3 DEF SrvInv
<1>12. CASE UNCHANGED srvVars
  BY <1>2, <1>3, <1>12 DEF srvVars
<1> QED BY <1>4, <1>5, <1>6, <1>7, <1>8, <1>9, <1>10, <1>11, <1>12
        DEF SrvNext, ServeStep, CloseStep

\* The invariant holds in every state of the server.
THEOREM SrvInvHolds == SrvSpec => []SrvInv
BY SrvInitInv, SrvNextInv, PTL DEF SrvSpec

\* Type correctness of the server; that there are never more goroutines still
\* to send than Closes is a consequence of the sum.
THEOREM SrvTypeCorrect == SrvSpec => []SrvTypeOK
<1>1. SrvInv => SrvTypeOK
  <2> SUFFICES ASSUME SrvInv PROVE senders \in 0..Cardinality(AllClosers)
    BY DEF SrvInv, SrvTypes, SrvTypeOK
  <2>1. senders <= Cardinality(Waiting)
    BY ClosersFinite DEF SrvInv, SrvTypes, TokensAddUp
  <2> QED BY <2>1, ClosersFinite, FS_CardinalityType DEF SrvInv, SrvTypes
<1> QED BY <1>1, SrvInvHolds, PTL

\* However many Closes overlap, one at most waits for a token that nobody
\* sends: the one whose token Serve took.
THEOREM TokensAddUpHolds == SrvSpec => []TokensAddUp
<1>1. SrvInv => TokensAddUp
  BY DEF SrvInv
<1> QED BY <1>1, SrvInvHolds, PTL
=============================================================================
