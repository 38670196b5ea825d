---------------------------- MODULE IndexerProofs ---------------------------
(***************************************************************************)
(* Proofs about the indexer: types, what a delivered result says and, in   *)
(* the second half, what the walks of its scan find.                       *)
(***************************************************************************)
EXTENDS Indexer, SumTheorems

\* Before the scan nothing runs and nothing is counted.
Idle ==
  /\ feeder = "none"
  /\ \A s \in Shards : w[s] = [at |-> "none", file |-> NoFile, num |-> 0]
  /\ out = {}
  /\ names = EmptyBag /\ chn = EmptyBag /\ idx = [s \in Shards |-> EmptyBag]
  /\ scanned = EmptyBag /\ skipped = EmptyBag
  /\ ~result.err

StartInv ==
  /\ pc \in {"new", "create", "scan"} => Idle
  /\ pc \in {"create", "scan"} => Valid(query)
  /\ delivered => pc = "done"

\* A shard's goroutine has a file where it needs one.  It is past the range
\* loop, on a live context, when every name is out of the channel, and ends
\* with its count in out.
Busy == {"take", "check", "open", "report", "send"}

ShardInv ==
  /\ \A s \in Shards : w[s].at \in {"check", "open"} => w[s].file \in Files
  /\ feeder = "end" => names = EmptyBag
  /\ \A s \in out : w[s].at = "end"
  /\ ctx = "live" =>
       \A s \in Shards :
         /\ w[s].at \in {"report", "send", "end"} => feeder = "end" /\ chn = EmptyBag
         /\ w[s].at = "end" => s \in out
         /\ w[s].at \in Busy => pc = "par"

\* The shards whose goroutine has file f in hand.
Hand(g, f) == [s \in Shards |-> IF g[s].at \in {"check", "open"} /\ g[s].file = f THEN 1 ELSE 0]
Held(f) == SumFunctionOnSet(Hand(w, f), Shards)

\* On a live context a name that was scanned is with the feeder, in the
\* channel, in a goroutine's hand, in a shard, or of a file that did not open.
FlowInv ==
  ctx = "live" =>
    \A f \in Files : scanned[f] = names[f] + chn[f] + Held(f) + Added(f) + skipped[f]

\* The goroutines' counts are what the shards have.
Nums(g) == [s \in Shards |-> g[s].num]
CountInv ==
  SumFunctionOnSet(Nums(w), Shards) = SumFunctionOnSet([f \in Files |-> Added(f)], Files)

\* Where the caller has the goroutines behind it, without an error, all have
\* ended, and NumFiles counts what they did.
AllEnded == \A s \in Shards : w[s].at = "end"
AfterInv ==
  ctx = "live" /\ ~result.err =>
    /\ pc \in {"sum", "flush", "deliver", "done"} => AllEnded
    /\ pc \in {"flush", "deliver", "done"} =>
         result.num = SumFunctionOnSet(Nums(w), Shards)

\* The result that was delivered stays as it is, whatever the context does.
DoneInv == Successful => AllEnded /\ DeliveredIsComplete

Inv ==
  /\ TypeOK /\ StartInv /\ ShardInv /\ FlowInv /\ CountInv /\ AfterInv /\ DoneInv
-----------------------------------------------------------------------------
\* There are finitely many files.
LEMMA FilesAreFinite == IsFiniteSet(Files) /\ IsFiniteSet(Dirs)
<1>1. Files \in SUBSET Nodes /\ Dirs \in SUBSET Nodes /\ IsFiniteSet(Nodes)
  BY TreeAssumption DEF Files, Nodes
<1> QED BY <1>1, FS_Subset

\* The parts of a shard's goroutine.
WAt == {"none", "take", "check", "open", "report", "send", "end"}
WFile == Files \cup {NoFile}
WType == [at : WAt, file : WFile, num : Nat]

\* The type of the goroutines, in those terms.
LEMMA TypeOfW == TypeOK => w \in [Shards -> WType] /\ out \subseteq Shards
BY DEF TypeOK, WType, WAt, WFile

\* A bag that gets or loses one name.
LEMMA BagPlus ==
  ASSUME NEW b \in Bag, NEW f \in Files
  PROVE  /\ Plus(b, f) \in Bag /\ Plus(b, f)[f] = b[f] + 1
         /\ \A g \in Files \ {f} : Plus(b, f)[g] = b[g]
         /\ Size(b) \in Nat /\ Size(Plus(b, f)) = Size(b) + 1
<1>1. /\ Plus(b, f) \in Bag /\ Plus(b, f)[f] = b[f] + 1
      /\ \A g \in Files \ {f} : Plus(b, f)[g] = b[g]
  BY DEF Plus, Bag
<1>2. \A g \in Files : b[g] \in Nat /\ Plus(b, f)[g] \in Nat
  BY <1>1 DEF Bag
<1>3. Size(b) \in Nat /\ Size(Plus(b, f)) \in Nat
  BY <1>2, FilesAreFinite, SumType DEF Size
<1>4. Size(Plus(b, f)) + b[f] = Size(b) + Plus(b, f)[f]
  BY <1>1, <1>2, FilesAreFinite, SumChange DEF Size
<1> QED BY <1>1, <1>2, <1>3, <1>4

\* One name less.
LEMMA BagMinus ==
  ASSUME NEW b \in Bag, NEW f \in Files, b[f] > 0
  PROVE  /\ Minus(b, f) \in Bag /\ Minus(b, f)[f] = b[f] - 1
         /\ \A g \in Files \ {f} : Minus(b, f)[g] = b[g]
         /\ Size(b) \in Nat /\ Size(Minus(b, f)) = Size(b) - 1
<1>1. /\ Minus(b, f) \in Bag /\ Minus(b, f)[f] = b[f] - 1
      /\ \A g \in Files \ {f} : Minus(b, f)[g] = b[g]
  BY DEF Minus, Bag
<1>2. \A g \in Files : b[g] \in Nat /\ Minus(b, f)[g] \in Nat
  BY <1>1 DEF Bag
<1>3. Size(b) \in Nat /\ Size(Minus(b, f)) \in Nat
  BY <1>2, FilesAreFinite, SumType DEF Size
<1>4. Size(Minus(b, f)) + b[f] = Size(b) + Minus(b, f)[f]
  BY <1>1, <1>2, FilesAreFinite, SumChange DEF Size
<1> QED BY <1>1, <1>2, <1>3, <1>4

\* The empty bag.
LEMMA BagEmpty == EmptyBag \in Bag /\ Size(EmptyBag) = 0 /\ \A f \in Files : EmptyBag[f] = 0
<1>1. \A f \in Files : EmptyBag[f] = 0
  BY DEF EmptyBag
<1>2. Size(EmptyBag) = 0
  BY <1>1, FilesAreFinite, SumZero DEF Size
<1> QED BY <1>1, <1>2 DEF EmptyBag, Bag

\* What the sums over the shards' goroutines are.
LEMMA SumsOfW ==
  ASSUME NEW v \in [Shards -> WType]
  PROVE  /\ \A f \in Files, s \in Shards : Hand(v, f)[s] \in Nat /\ Nums(v)[s] = v[s].num
         /\ \A f \in Files : SumFunctionOnSet(Hand(v, f), Shards) \in Nat
         /\ \A S \in SUBSET Shards : SumFunctionOnSet(Nums(v), S) \in Nat
<1>1. \A f \in Files, s \in Shards : Hand(v, f)[s] \in Nat
  BY DEF Hand
<1>2. \A s \in Shards : Nums(v)[s] = v[s].num /\ Nums(v)[s] \in Nat
  BY DEF Nums, WType
<1>3. \A S \in SUBSET Shards : IsFiniteSet(S)
  BY ShardsAreFinite, FS_Subset
<1>4. \A f \in Files : SumFunctionOnSet(Hand(v, f), Shards) \in Nat
  BY <1>1, <1>3, SumType
<1>5. \A S \in SUBSET Shards : SumFunctionOnSet(Nums(v), S) \in Nat
  BY <1>2, <1>3, SumType
<1> QED BY <1>1, <1>2, <1>4, <1>5

\* One goroutine differs, and the sums by what differs in it.
LEMMA SumsDiffer ==
  ASSUME NEW v \in [Shards -> WType], NEW u \in [Shards -> WType], NEW s \in Shards,
         \A t \in Shards \ {s} : u[t] = v[t]
  PROVE  /\ \A f \in Files : SumFunctionOnSet(Hand(u, f), Shards) + Hand(v, f)[s]
                             = SumFunctionOnSet(Hand(v, f), Shards) + Hand(u, f)[s]
         /\ SumFunctionOnSet(Nums(u), Shards) + v[s].num
              = SumFunctionOnSet(Nums(v), Shards) + u[s].num
<1>1. ASSUME NEW f \in Files
      PROVE  SumFunctionOnSet(Hand(u, f), Shards) + Hand(v, f)[s]
               = SumFunctionOnSet(Hand(v, f), Shards) + Hand(u, f)[s]
  <2> DEFINE a == Hand(v, f)
             b == Hand(u, f)
  <2>1. \A t \in Shards : a[t] \in Nat /\ b[t] \in Nat
    BY DEF Hand
  <2>2. \A t \in Shards \ {s} : b[t] = a[t]
    BY DEF Hand
  <2> HIDE DEF a, b
  <2>3. SumFunctionOnSet(b, Shards) + a[s] = SumFunctionOnSet(a, Shards) + b[s]
    BY <2>1, <2>2, ShardsAreFinite, SumChange
  <2> QED BY <2>3 DEF a, b
<1>2. SumFunctionOnSet(Nums(u), Shards) + v[s].num = SumFunctionOnSet(Nums(v), Shards) + u[s].num
  <2> DEFINE a == Nums(v)
             b == Nums(u)
  <2>1. /\ \A t \in Shards : a[t] \in Nat /\ b[t] \in Nat
        /\ a[s] = v[s].num /\ b[s] = u[s].num
    BY DEF Nums, WType
  <2>2. \A t \in Shards \ {s} : b[t] = a[t]
    BY DEF Nums
  <2> HIDE DEF a, b
  <2>3. SumFunctionOnSet(b, Shards) + a[s] = SumFunctionOnSet(a, Shards) + b[s]
    BY <2>1, <2>2, ShardsAreFinite, SumChange
  <2> QED BY <2>1, <2>3 DEF a, b
<1> QED BY <1>1, <1>2

\* A step after which the goroutine of s is x, and the others are as they were.
WIs(s, x) ==
  /\ w' \in [Shards -> WType] /\ w'[s] = x /\ x \in WType
  /\ \A t \in Shards \ {s} : w'[t] = w[t]

\* One goroutine goes on, and the sums change by what changes in it.
LEMMA Moves ==
  ASSUME TypeOK, NEW s \in Shards, NEW x, WIs(s, x)
  PROVE  /\ \A f \in Files :
              /\ Held(f) \in Nat /\ Held(f)' \in Nat
              /\ Held(f)' + Hand(w, f)[s] = Held(f) + Hand(w', f)[s]
         /\ SumFunctionOnSet(Nums(w), Shards) \in Nat
         /\ SumFunctionOnSet(Nums(w'), Shards) \in Nat
         /\ SumFunctionOnSet(Nums(w'), Shards) + w[s].num = SumFunctionOnSet(Nums(w), Shards) + x.num
<1>1. w \in [Shards -> WType]
  BY TypeOfW
<1>2. w' \in [Shards -> WType] /\ w'[s] = x /\ \A t \in Shards \ {s} : w'[t] = w[t]
  BY DEF WIs
<1>3. \A f \in Files :
        /\ SumFunctionOnSet(Hand(w, f), Shards) \in Nat
        /\ SumFunctionOnSet(Hand(w', f), Shards) \in Nat
        /\ SumFunctionOnSet(Hand(w', f), Shards) + Hand(w, f)[s]
             = SumFunctionOnSet(Hand(w, f), Shards) + Hand(w', f)[s]
  <2>1. \A f \in Files : /\ SumFunctionOnSet(Hand(w, f), Shards) \in Nat
                         /\ SumFunctionOnSet(Hand(w', f), Shards) \in Nat
    BY <1>1, <1>2, SumsOfW
  <2>2. \A f \in Files : SumFunctionOnSet(Hand(w', f), Shards) + Hand(w, f)[s]
                           = SumFunctionOnSet(Hand(w, f), Shards) + Hand(w', f)[s]
    BY <1>1, <1>2, SumsDiffer
  <2> QED BY <2>1, <2>2
<1>4. \A f \in Files : /\ Held(f) \in Nat /\ Held(f)' \in Nat
                       /\ Held(f)' + Hand(w, f)[s] = Held(f) + Hand(w', f)[s]
  BY <1>3 DEF Held
<1>5. /\ SumFunctionOnSet(Nums(w), Shards) \in Nat
      /\ SumFunctionOnSet(Nums(w'), Shards) \in Nat
  BY <1>1, <1>2, SumsOfW
<1>6. SumFunctionOnSet(Nums(w'), Shards) + w[s].num = SumFunctionOnSet(Nums(w), Shards) + x.num
  BY <1>1, <1>2, SumsDiffer
<1> QED BY <1>4, <1>5, <1>6

\* How often a file was added, while the shards are as they are.
LEMMA AddedIsNat ==
  ASSUME TypeOK
  PROVE  /\ \A f \in Files : Added(f) \in Nat
         /\ SumFunctionOnSet([f \in Files |-> Added(f)], Files) \in Nat
<1>1. \A f \in Files, s \in Shards : [t \in Shards |-> idx[t][f]][s] \in Nat
  BY DEF TypeOK, Bag
<1>2. \A f \in Files : Added(f) \in Nat
  BY <1>1, ShardsAreFinite, SumType DEF Added
<1>3. \A f \in Files : [g \in Files |-> Added(g)][f] \in Nat
  BY <1>2
<1> HIDE DEF Added
<1> QED BY <1>2, <1>3, FilesAreFinite, SumType

\* What depends on the shards and their goroutines alone.
LEMMA Frame ==
  /\ UNCHANGED idx =>
       /\ \A f \in Files : Added(f)' = Added(f)
       /\ SumFunctionOnSet([f \in Files |-> Added(f)], Files)'
            = SumFunctionOnSet([f \in Files |-> Added(f)], Files)
  /\ UNCHANGED w => \A f \in Files : Held(f)' = Held(f)
  /\ UNCHANGED <<w, idx>> /\ CountInv => CountInv'
<1>1. UNCHANGED idx => \A f \in Files : Added(f)' = Added(f)
  BY DEF Added
<1>2. UNCHANGED idx =>
        SumFunctionOnSet([f \in Files |-> Added(f)], Files)'
          = SumFunctionOnSet([f \in Files |-> Added(f)], Files)
  BY DEF Added
<1>3. UNCHANGED w => \A f \in Files : Held(f)' = Held(f)
  BY DEF Held
<1>4. UNCHANGED <<w, idx>> /\ CountInv => CountInv'
  BY DEF CountInv, Added
<1> QED BY <1>1, <1>2, <1>3, <1>4

\* A step of the caller, after which the goroutines are where they were.
LEMMA CallerFrame ==
  ASSUME Inv, UNCHANGED <<inRepo, query, ctx, chans, panicked, history>>
  PROVE  /\ FlowInv' /\ CountInv'
         /\ (Idle /\ ~result.err' => Idle') /\ (AllEnded => AllEnded')
         /\ SumFunctionOnSet(Nums(w'), Shards) = SumFunctionOnSet(Nums(w), Shards)
<1>1. UNCHANGED <<ctx, names, chn, feeder, out, w, idx, scanned, skipped>>
  BY DEF chans, history
<1>2. FlowInv'
  BY <1>1, Frame DEF Inv, FlowInv
<1>3. CountInv'
  BY <1>1, Frame DEF Inv
<1> QED BY <1>1, <1>2, <1>3 DEF Idle, AllEnded

\* Nothing that is not delivered is successful.
LEMMA NotDelivered == ASSUME ~delivered' PROVE DoneInv'
BY DEF DoneInv, Successful

\* The steps before the scan.
LEMMA EarlySteps ==
  ASSUME Inv, NormalizeFails \/ Normalize \/ CreateFails \/ Create
  PROVE  Inv'
<1>1. /\ pc \in {"new", "create"} /\ Idle /\ delivered' = delivered /\ ~delivered
      /\ UNCHANGED <<inRepo, query, ctx, chans, panicked, history>>
      /\ \/ pc' = "deliver" /\ result' = NoRepo
         \/ pc' = "create" /\ result' = result /\ Valid(query)
         \/ pc' = "scan" /\ pc = "create" /\ result' = [result EXCEPT !.repo = "new"]
  BY DEF Inv, StartInv, TypeOK, NormalizeFails, Normalize, CreateFails, Create, Goto
<1>2. UNCHANGED <<ctx, names, chn, feeder, out, w, idx, scanned, skipped>>
  BY <1>1 DEF chans, history
<1>3. result \in [repo : {"none", "new", "OK", "ERROR"}, num : Nat, err : BOOLEAN]
  BY DEF Inv, TypeOK
<1>4. result' \in [repo : {"none", "new", "OK", "ERROR"}, num : Nat, err : BOOLEAN]
  <2>1. NoRepo \in [repo : {"none", "new", "OK", "ERROR"}, num : Nat, err : BOOLEAN]
    BY DEF NoRepo
  <2> QED BY <1>1, <1>3, <2>1
<1>5. TypeOK'
  BY <1>1, <1>2, <1>4 DEF Inv, TypeOK
<1>6. pc' # "deliver" => ~result'.err
  BY <1>1, <1>3 DEF Idle
<1>7. StartInv'
  BY <1>1, <1>2, <1>6, CallerFrame DEF Inv, StartInv, Valid
<1>8. \A s \in Shards : w[s].at = "none"
  BY <1>1 DEF Idle
<1>9. ShardInv'
  BY <1>1, <1>2, <1>8 DEF Inv, ShardInv, Busy, Idle
<1>10. AfterInv'
  BY <1>1, <1>6 DEF AfterInv, NoRepo
<1>11. DoneInv'
  BY <1>1, NotDelivered
<1> QED BY <1>1, <1>5, <1>7, <1>9, <1>10, <1>11, CallerFrame DEF Inv

\* The steps after the goroutines.
LEMMA LateSteps ==
  ASSUME Inv, (\E err \in BOOLEAN : ParReturns(err)) \/ Sum \/ Flush
  PROVE  Inv'
<1>1. /\ pc \in {"par", "sum", "flush"} /\ delivered' = delivered /\ ~delivered
      /\ UNCHANGED <<inRepo, query, ctx, chans, panicked, history>>
      /\ \/ \E err \in BOOLEAN :
              /\ pc = "par" /\ pc' = "sum" /\ result' = [result EXCEPT !.err = err]
              /\ AllEnded \/ ctx = "done"
         \/ /\ pc = "sum" /\ pc' = "flush"
            /\ result' = [result EXCEPT !.num = SumFunctionOnSet(Nums(w), out)]
         \/ \E r \in {"OK", "ERROR"} :
              pc = "flush" /\ pc' = "deliver" /\ result' = [result EXCEPT !.repo = r]
  BY DEF Inv, StartInv, TypeOK, ParReturns, Sum, Flush, Goto, AllEnded, Nums
<1>2. UNCHANGED <<ctx, names, chn, feeder, out, w, idx, scanned, skipped>>
  BY <1>1 DEF chans, history
<1>3. result \in [repo : {"none", "new", "OK", "ERROR"}, num : Nat, err : BOOLEAN]
  BY DEF Inv, TypeOK
<1>4. SumFunctionOnSet(Nums(w), out) \in Nat
  BY TypeOfW, SumsOfW DEF Inv
<1>5. /\ result' \in [repo : {"none", "new", "OK", "ERROR"}, num : Nat, err : BOOLEAN]
      /\ pc # "par" => result'.err = result.err
      /\ pc = "sum" => result'.num = SumFunctionOnSet(Nums(w), out)
      /\ pc = "flush" => result'.num = result.num
  BY <1>1, <1>3, <1>4
<1>6. TypeOK'
  BY <1>1, <1>2, <1>5 DEF Inv, TypeOK
<1>7. StartInv'
  BY <1>1 DEF StartInv
<1>8. ctx = "live" /\ ~result'.err => AllEnded
  BY <1>1, <1>5 DEF Inv, AfterInv
<1>9. ASSUME ctx = "live", NEW s \in Shards PROVE w[s].at \notin Busy
  <2>1. CASE pc = "par"
    BY <1>1, <1>9, <2>1 DEF AllEnded, Busy
  <2>2. CASE pc # "par"
    BY <1>9, <2>2 DEF Inv, ShardInv
  <2> QED BY <2>1, <2>2
<1>10. ShardInv'
  BY <1>2, <1>9 DEF Inv, ShardInv
<1>11. ASSUME ctx = "live", ~result'.err, pc = "sum" PROVE out = Shards
  BY <1>8, <1>11 DEF Inv, ShardInv, AllEnded, TypeOK
<1>12. AfterInv'
  <2>1. ASSUME ctx' = "live", ~result'.err PROVE AllEnded'
    BY <1>2, <1>8, <2>1, CallerFrame, <1>1
  <2>2. ASSUME ctx' = "live", ~result'.err, pc' \in {"flush", "deliver", "done"}
        PROVE  result'.num = SumFunctionOnSet(Nums(w'), Shards)
    BY <1>1, <1>2, <1>5, <1>11, <2>2, CallerFrame DEF Inv, AfterInv
  <2> QED BY <2>1, <2>2 DEF AfterInv
<1>13. DoneInv'
  BY <1>1, NotDelivered
<1> QED BY <1>1, <1>6, <1>7, <1>10, <1>12, <1>13, CallerFrame DEF Inv

\* No goroutine has a file in hand.
LEMMA HeldIsZero ==
  ASSUME \A s \in Shards : w[s].at \notin {"check", "open"}
  PROVE  \A f \in Files : Held(f) = 0
<1> SUFFICES ASSUME NEW f \in Files PROVE Held(f) = 0
  OBVIOUS
<1> DEFINE h == Hand(w, f)
<1>1. \A s \in Shards : h[s] = 0
  BY DEF Hand
<1> HIDE DEF h
<1>2. SumFunctionOnSet(h, Shards) = 0
  BY <1>1, ShardsAreFinite, SumZero
<1> QED BY <1>2 DEF h, Held

\* The result is handed over on a live context only.
LEMMA DeliverStep == ASSUME Inv, Deliver PROVE Inv'
<1>1. /\ pc = "deliver" /\ pc' = "done" /\ result' = result /\ delivered' = (ctx = "live")
      /\ UNCHANGED <<inRepo, query, ctx, chans, panicked, history>>
  BY DEF Deliver, Goto
<1>2. UNCHANGED <<ctx, names, chn, feeder, out, w, idx, scanned, skipped, result>>
  BY <1>1 DEF chans, history
<1>3. TypeOK'
  BY <1>1, <1>2 DEF Inv, TypeOK
<1>4. StartInv' /\ ShardInv'
  BY <1>1, <1>2 DEF Inv, StartInv, ShardInv, Busy
<1>5. AfterInv'
  BY <1>1, <1>2, CallerFrame DEF Inv, AfterInv
<1>6. DoneInv'
  <2> SUFFICES ASSUME Successful'
               PROVE  /\ AllEnded'
                      /\ \A f \in Files : Added(f)' + skipped'[f] = scanned'[f]
                      /\ result'.num = SumFunctionOnSet([f \in Files |-> Added(f)], Files)'
    BY DEF DoneInv, DeliveredIsComplete
  <2>1. ctx = "live" /\ ~result.err
    BY <1>1, <1>2 DEF Successful
  <2>2. AllEnded /\ result.num = SumFunctionOnSet(Nums(w), Shards)
    BY <1>1, <2>1 DEF Inv, AfterInv
  <2>3. AllEnded'
    BY <1>2, <2>2 DEF AllEnded
  <2>4. names = EmptyBag /\ chn = EmptyBag
    BY <2>1, <2>2, ShardsAreFinite DEF Inv, ShardInv, AllEnded
  <2>5. \A f \in Files : Held(f) = 0
    BY <2>2, HeldIsZero DEF AllEnded
  <2>6. \A f \in Files : Added(f) + skipped[f] = scanned[f]
    <3> SUFFICES ASSUME NEW f \in Files PROVE Added(f) + skipped[f] = scanned[f]
      OBVIOUS
    <3>1. scanned[f] = names[f] + chn[f] + Held(f) + Added(f) + skipped[f]
      BY <2>1 DEF Inv, FlowInv
    <3>2. names[f] = 0 /\ chn[f] = 0 /\ Held(f) = 0
      BY <2>4, <2>5, BagEmpty
    <3>3. Added(f) \in Nat /\ skipped[f] \in Nat
      BY AddedIsNat DEF Inv, TypeOK, Bag
    <3> QED BY <3>1, <3>2, <3>3
  <2>7. \A f \in Files : Added(f)' + skipped'[f] = scanned'[f]
    BY <1>2, <2>6, Frame
  <2>8. result'.num = SumFunctionOnSet([f \in Files |-> Added(f)], Files)'
    BY <1>2, <2>2, Frame DEF Inv, CountInv
  <2> QED BY <2>3, <2>7, <2>8
<1> QED BY <1>1, <1>3, <1>4, <1>5, <1>6, CallerFrame DEF Inv

\* A delivered result and its shards are left alone.
LEMMA DoneFrame ==
  ASSUME Inv, UNCHANGED <<result, delivered, scanned>>,
         Successful => UNCHANGED <<w, idx, skipped>>
  PROVE  DoneInv'
<1> SUFFICES ASSUME Successful' PROVE AllEnded' /\ DeliveredIsComplete'
  BY DEF DoneInv
<1>1. Successful
  BY DEF Successful
<1>2. AllEnded /\ DeliveredIsComplete
  BY <1>1 DEF Inv, DoneInv
<1>3. UNCHANGED <<w, idx, skipped>>
  BY <1>1
<1>4. AllEnded'
  BY <1>2, <1>3 DEF AllEnded
<1>5. DeliveredIsComplete'
  BY <1>1, <1>2, <1>3, Frame DEF DeliveredIsComplete
<1> QED BY <1>4, <1>5

\* The context is done: nothing is promised any more, but of what is delivered.
LEMMA CtxDoneStep == ASSUME Inv, CtxDone PROVE Inv'
<1>1. /\ ctx' = "done"
      /\ UNCHANGED <<inRepo, query, pc, names, chn, feeder, out, w, idx, scanned, skipped,
                     result, delivered, panicked>>
  BY DEF CtxDone, chans, history
<1>2. TypeOK'
  BY <1>1 DEF Inv, TypeOK
<1>3. StartInv' /\ ShardInv'
  BY <1>1 DEF Inv, StartInv, ShardInv, Idle, Valid
<1>4. FlowInv' /\ AfterInv'
  BY <1>1 DEF FlowInv, AfterInv
<1>5. CountInv'
  BY <1>1, Frame DEF Inv
<1>6. DoneInv'
  BY <1>1, DoneFrame
<1> QED BY <1>2, <1>3, <1>4, <1>5, <1>6 DEF Inv

\* The scan: every name is the feeder's.
LEMMA ScanStep == ASSUME Inv, NEW listed, NEW found, Scan(listed, found) PROVE Inv'
<1> DEFINE dirs == Canon(query.dirs)
           bag == [f \in Files |->
                     Cardinality({d \in dirs : f \in Seen(found[d])})
                     + (IF f \in Seen(listed) THEN 1 ELSE 0)]
<1>1. /\ pc = "scan" /\ pc' = "par" /\ scanned' = bag /\ names' = bag /\ feeder' = "feed"
      /\ w' = [s \in Shards |-> [w[s] EXCEPT !.at = "take"]]
      /\ UNCHANGED <<inRepo, query, ctx, chn, out, idx, result, delivered, panicked, skipped>>
  BY DEF Scan, Goto
<1>2. Idle /\ Valid(query) /\ ~delivered
  BY <1>1 DEF Inv, StartInv
<1>3. IsFiniteSet(dirs)
  <2>1. query \in Query
    BY QueriesAreQueries DEF Inv, TypeOK
  <2>2. query.dirs \in SUBSET (Dirs \cup {"."})
    BY <1>2, <2>1 DEF Valid, Query
  <2>3. dirs \in SUBSET Dirs
    BY <2>2, TreeAssumption DEF Canon
  <2> QED BY <2>3, FilesAreFinite, FS_Subset
<1>4. bag \in Bag
  <2> SUFFICES ASSUME NEW f \in Files
               PROVE  Cardinality({d \in dirs : f \in Seen(found[d])})
                        + (IF f \in Seen(listed) THEN 1 ELSE 0) \in Nat
    BY DEF Bag
  <2> DEFINE D == {d \in dirs : f \in Seen(found[d])}
  <2>1. D \in SUBSET dirs
    OBVIOUS
  <2> HIDE DEF D, dirs
  <2>2. Cardinality(D) \in Nat
    BY <1>3, <2>1, FS_Subset, FS_CardinalityType
  <2> QED BY <2>2 DEF D
<1> HIDE DEF bag, dirs
<1>5. \A s \in Shards : w'[s] = [at |-> "take", file |-> NoFile, num |-> 0]
  BY <1>1, <1>2 DEF Idle
<1>6. w' \in [Shards -> WType]
  BY <1>1, <1>5 DEF WType, WAt, WFile
<1>7. TypeOK'
  <2>1. w' \in [Shards -> [at : {"none", "take", "check", "open", "report", "send", "end"},
                           file : Files \cup {NoFile}, num : Nat]]
    BY <1>6 DEF WType, WAt, WFile
  <2> QED BY <1>1, <1>4, <2>1 DEF Inv, TypeOK
<1>8. StartInv'
  BY <1>1, <1>2 DEF StartInv
<1>9. ShardInv'
  BY <1>1, <1>2, <1>5 DEF ShardInv, Idle, Busy
<1>10. \A f \in Files : Held(f)' = 0
  <2>1. \A s \in Shards : w'[s].at \notin {"check", "open"}
    BY <1>5
  <2>2. \A s \in Shards, f \in Files : Hand(w', f)[s] = 0
    BY <2>1 DEF Hand
  <2>3. \A f \in Files : SumFunctionOnSet(Hand(w', f), Shards) = 0
    BY <2>2, ShardsAreFinite, SumZero
  <2> QED BY <2>3 DEF Held
<1>11. FlowInv'
  <2> SUFFICES ASSUME NEW f \in Files
               PROVE  scanned'[f] = names'[f] + chn'[f] + Held(f)' + Added(f)' + skipped'[f]
    BY DEF FlowInv
  <2>1. idx = [s \in Shards |-> EmptyBag] /\ chn' = EmptyBag /\ skipped' = EmptyBag
    BY <1>1, <1>2 DEF Idle
  <2>2. \A s \in Shards : [t \in Shards |-> idx[t][f]][s] = 0
    BY <2>1, BagEmpty
  <2>3. Added(f) = 0
    BY <2>2, ShardsAreFinite, SumZero DEF Added
  <2>4. Added(f)' = 0
    BY <1>1, <2>3, Frame
  <2> QED BY <1>1, <1>4, <1>10, <2>1, <2>4, BagEmpty DEF Bag
<1>12. CountInv'
  <2> DEFINE a == Nums(w)
             b == Nums(w')
  <2>1. \A s \in Shards : a[s] = b[s]
    BY <1>2, <1>5 DEF Nums, Idle
  <2> HIDE DEF a, b
  <2>2. SumFunctionOnSet(a, Shards) = SumFunctionOnSet(b, Shards)
    BY <2>1, ShardsAreFinite, SumSame
  <2> QED BY <1>1, <2>2, Frame DEF Inv, CountInv, a, b
<1>13. AfterInv'
  BY <1>1 DEF AfterInv
<1>14. DoneInv'
  BY <1>1, <1>2, NotDelivered
<1> QED BY <1>7, <1>8, <1>9, <1>11, <1>12, <1>13, <1>14 DEF Inv

\* The feeder puts a name into the channel, or closes it after the last.
LEMMA FeederSteps == ASSUME Inv, Feeder PROVE Inv'
<1>1. /\ feeder = "feed"
      /\ UNCHANGED <<inRepo, query, ctx, pc, w, out, idx, result, delivered, panicked, scanned, skipped>>
  BY DEF Feeder, Feed, FeedClose, history
<1>2. StartInv' /\ AfterInv' /\ CountInv' /\ DoneInv'
  <2>1. StartInv' /\ AfterInv'
    BY <1>1 DEF Inv, StartInv, AfterInv, Idle, Valid, AllEnded
  <2> QED BY <1>1, <2>1, Frame, DoneFrame DEF Inv
<1>3. CASE FeedClose
  <2>1. feeder' = "end" /\ names' = EmptyBag /\ names = EmptyBag /\ chn' = chn
    BY <1>3 DEF FeedClose
  <2>2. TypeOK'
    BY <1>1, <2>1, BagEmpty DEF Inv, TypeOK
  <2>3. ShardInv'
    BY <1>1, <2>1 DEF Inv, ShardInv
  <2>4. FlowInv'
    BY <1>1, <2>1, Frame DEF Inv, FlowInv
  <2> QED BY <1>2, <2>2, <2>3, <2>4 DEF Inv
<1>4. ASSUME NEW f \in Files, Feed(f) PROVE Inv'
  <2>1. /\ names[f] > 0 /\ Size(chn) < ChanCap /\ names' = Minus(names, f)
        /\ chn' = Plus(chn, f) /\ feeder' = feeder
    BY <1>4 DEF Feed
  <2>2. names \in Bag /\ chn \in Bag /\ ChanCap \in Nat
    BY ChanHasRoom DEF Inv, TypeOK
  <2>3. /\ names' \in Bag /\ names'[f] = names[f] - 1
        /\ \A g \in Files \ {f} : names'[g] = names[g]
    BY <2>1, <2>2, BagMinus
  <2>4. /\ chn' \in Bag /\ chn'[f] = chn[f] + 1 /\ Size(chn') <= ChanCap
        /\ \A g \in Files \ {f} : chn'[g] = chn[g]
    BY <2>1, <2>2, BagPlus
  <2>5. TypeOK'
    <3>1. Size(chn)' <= ChanCap
      BY <2>4 DEF Size
    <3> QED BY <1>1, <2>1, <2>3, <2>4, <3>1 DEF Inv, TypeOK
  <2>6. ShardInv'
    BY <1>1, <2>1 DEF Inv, ShardInv
  <2>7. FlowInv'
    <3> SUFFICES ASSUME ctx = "live", NEW g \in Files
                 PROVE  scanned'[g] = names'[g] + chn'[g] + Held(g)' + Added(g)' + skipped'[g]
      BY <1>1 DEF FlowInv
    <3>1. scanned[g] = names[g] + chn[g] + Held(g) + Added(g) + skipped[g]
      BY DEF Inv, FlowInv
    <3>2. names'[g] + chn'[g] = names[g] + chn[g] /\ names'[g] \in Nat /\ chn'[g] \in Nat
          /\ names[g] \in Nat /\ chn[g] \in Nat
      BY <2>2, <2>3, <2>4 DEF Bag
    <3>3. Held(g)' = Held(g) /\ Added(g)' = Added(g) /\ scanned'[g] = scanned[g] /\ skipped'[g] = skipped[g]
      BY <1>1, Frame
    <3>4. Held(g) \in Nat /\ Added(g) \in Nat /\ skipped[g] \in Nat
      BY AddedIsNat, TypeOfW, SumsOfW DEF Inv, TypeOK, Bag, Held
    <3> QED BY <3>1, <3>2, <3>3, <3>4
  <2> QED BY <1>2, <2>5, <2>6, <2>7 DEF Inv
<1> QED BY <1>3, <1>4 DEF Feeder

\* A goroutine that is at work has its caller wait, or its context done.
LEMMA WorkerFrame ==
  ASSUME Inv, NEW s \in Shards, w[s].at \in Busy,
         UNCHANGED <<query, ctx, pc, result, delivered, scanned>>
  PROVE  /\ StartInv' /\ AfterInv' /\ DoneInv'
         /\ ctx = "live" => pc = "par"
<1>1. ~Successful
  BY DEF Inv, DoneInv, AllEnded, Busy
<1>2. pc \notin {"new", "create", "scan"}
  BY DEF Inv, StartInv, Idle, Busy
<1>3. ctx = "live" => pc = "par"
  BY DEF Inv, ShardInv
<1>4. StartInv'
  BY <1>2 DEF Inv, StartInv
<1>5. AfterInv'
  BY <1>3 DEF AfterInv
<1> QED BY <1>1, <1>3, <1>4, <1>5, DoneFrame

\* A goroutine gets another place, and another file or none.
LEMMA Parts ==
  ASSUME NEW r \in WType, NEW l \in WAt, NEW g \in WFile
  PROVE  /\ [r EXCEPT !.at = l] = [at |-> l, file |-> r.file, num |-> r.num]
         /\ [[r EXCEPT !.at = l] EXCEPT !.file = g] = [at |-> l, file |-> g, num |-> r.num]
         /\ [at |-> l, file |-> g, num |-> r.num] \in WType
         /\ [at |-> l, file |-> r.file, num |-> r.num] \in WType
<1>1. [r EXCEPT !.at = l] = [at |-> l, file |-> r.file, num |-> r.num]
  BY DEF WType
<1> DEFINE z == [r EXCEPT !.at = l]
<1>2. z \in WType /\ z.at = l /\ z.num = r.num
  BY DEF WType
<1> HIDE DEF z
<1>3. [z EXCEPT !.file = g] = [at |-> z.at, file |-> g, num |-> z.num]
  BY <1>2 DEF WType
<1>4. [[r EXCEPT !.at = l] EXCEPT !.file = g] = [at |-> l, file |-> g, num |-> r.num]
  BY <1>2, <1>3 DEF z
<1> QED BY <1>1, <1>4 DEF WType

\* A goroutine goes on to x and adds nothing.
LEMMA QuietMove ==
  ASSUME Inv, NEW s \in Shards, NEW x, WIs(s, x), x.num = w[s].num, UNCHANGED idx
  PROVE  /\ CountInv'
         /\ \A f \in Files :
              /\ Held(f) \in Nat /\ Held(f)' \in Nat /\ Added(f)' = Added(f) /\ Added(f) \in Nat
              /\ Held(f)' + (IF w[s].at \in {"check", "open"} /\ w[s].file = f THEN 1 ELSE 0)
                   = Held(f) + (IF x.at \in {"check", "open"} /\ x.file = f THEN 1 ELSE 0)
<1>1. TypeOK /\ w[s].num \in Nat
  BY TypeOfW DEF Inv, WType
<1>2. w'[s] = x
  BY DEF WIs
<1>3. /\ \A f \in Files :
           /\ Held(f) \in Nat /\ Held(f)' \in Nat
           /\ Held(f)' + Hand(w, f)[s] = Held(f) + Hand(w', f)[s]
      /\ SumFunctionOnSet(Nums(w), Shards) \in Nat
      /\ SumFunctionOnSet(Nums(w'), Shards) \in Nat
      /\ SumFunctionOnSet(Nums(w'), Shards) + w[s].num = SumFunctionOnSet(Nums(w), Shards) + x.num
  BY <1>1, Moves
<1>4. SumFunctionOnSet(Nums(w'), Shards) = SumFunctionOnSet(Nums(w), Shards)
  BY <1>1, <1>3
<1>5. CountInv'
  BY <1>4, Frame DEF Inv, CountInv
<1>6. \A f \in Files :
        /\ Hand(w, f)[s] = IF w[s].at \in {"check", "open"} /\ w[s].file = f THEN 1 ELSE 0
        /\ Hand(w', f)[s] = IF x.at \in {"check", "open"} /\ x.file = f THEN 1 ELSE 0
  BY <1>2 DEF Hand
<1>7. \A f \in Files : Added(f)' = Added(f) /\ Added(f) \in Nat
  BY <1>1, Frame, AddedIsNat
<1>8. ASSUME NEW f \in Files
      PROVE  Held(f)' + (IF w[s].at \in {"check", "open"} /\ w[s].file = f THEN 1 ELSE 0)
               = Held(f) + (IF x.at \in {"check", "open"} /\ x.file = f THEN 1 ELSE 0)
  <2>1. Held(f)' + Hand(w, f)[s] = Held(f) + Hand(w', f)[s]
    BY <1>3
  <2> QED BY <1>6, <2>1
<1> QED BY <1>3, <1>5, <1>7, <1>8

\* A name goes from the channel into a goroutine's hand.
LEMMA TakeStep == ASSUME Inv, NEW s \in Shards, NEW f \in Files, Take(s, f) PROVE Inv'
<1>1. /\ w[s].at = "take" /\ chn[f] > 0 /\ chn' = Minus(chn, f)
      /\ w' = [w EXCEPT ![s].at = "check", ![s].file = f]
      /\ UNCHANGED <<inRepo, query, ctx, pc, feeder, names, out, idx, result, delivered,
                     panicked, scanned, skipped>>
  BY DEF Take, history
<1> DEFINE x == [at |-> "check", file |-> f, num |-> w[s].num]
<1>2. WIs(s, x)
  <2>1. w \in [Shards -> WType] /\ w[s] \in WType /\ f \in WFile /\ "check" \in WAt
    BY TypeOfW DEF Inv, WFile, WAt
  <2>2. w' = [w EXCEPT ![s] = [[w[s] EXCEPT !.at = "check"] EXCEPT !.file = f]]
    BY <1>1, <2>1
  <2> DEFINE z == [w[s] EXCEPT !.at = "check"]
  <2>3. z \in WType /\ z.at = "check" /\ z.num = w[s].num
    BY <2>1 DEF WType
  <2>4. w' = [w EXCEPT ![s] = [z EXCEPT !.file = f]]
    BY <2>2
  <2> HIDE DEF z
  <2>5. [z EXCEPT !.file = f] = x /\ x \in WType
    BY <2>1, <2>3 DEF WType
  <2> QED BY <2>1, <2>4, <2>5 DEF WIs
<1>a. x.at = "check" /\ x.file = f /\ x.num = w[s].num
  OBVIOUS
<1> HIDE DEF x
<1>b. /\ CountInv'
      /\ \A g \in Files :
           /\ Held(g) \in Nat /\ Held(g)' \in Nat /\ Added(g)' = Added(g) /\ Added(g) \in Nat
           /\ Held(g)' + (IF w[s].at \in {"check", "open"} /\ w[s].file = g THEN 1 ELSE 0)
                = Held(g) + (IF x.at \in {"check", "open"} /\ x.file = g THEN 1 ELSE 0)
  BY <1>1, <1>2, <1>a, QuietMove
<1>3. /\ w' \in [Shards -> WType] /\ w'[s].at = "check" /\ w'[s].file = f
      /\ \A t \in Shards \ {s} : w'[t] = w[t]
  BY <1>2, <1>a DEF WIs
<1>4. chn \in Bag /\ ChanCap \in Nat /\ Size(chn) <= ChanCap
  BY ChanHasRoom DEF Inv, TypeOK
<1>5. /\ chn' \in Bag /\ chn'[f] = chn[f] - 1 /\ Size(chn') <= ChanCap
      /\ \A g \in Files \ {f} : chn'[g] = chn[g]
  BY <1>1, <1>4, BagMinus
<1>6. TypeOK'
  <2>1. Size(chn)' <= ChanCap
    BY <1>5 DEF Size
  <2>2. w' \in [Shards -> [at : {"none", "take", "check", "open", "report", "send", "end"},
                           file : Files \cup {NoFile}, num : Nat]]
    BY <1>3 DEF WType, WAt, WFile
  <2> QED BY <1>1, <1>5, <2>1, <2>2 DEF Inv, TypeOK
<1>7. StartInv' /\ AfterInv' /\ DoneInv' /\ (ctx = "live" => pc = "par")
  BY <1>1, WorkerFrame DEF Busy
<1>8. ShardInv'
  <2>1. ASSUME ctx = "live", NEW t \in Shards PROVE w[t].at \notin {"report", "send", "end"}
    BY <1>1, <2>1, BagEmpty DEF Inv, ShardInv
  <2>2. s \notin out
    BY <1>1 DEF Inv, ShardInv
  <2>3. w'[s].at = "check" /\ w'[s].file = f /\ \A t \in Shards \ {s} : w'[t] = w[t]
    BY <1>3
  <2>4. w[s].at = "take" /\ UNCHANGED <<ctx, pc, feeder, names, out>> /\ out \subseteq Shards
    BY <1>1 DEF Inv, TypeOK
  <2> QED BY <1>7, <2>1, <2>2, <2>3, <2>4 DEF Inv, ShardInv, Busy
<1>9. FlowInv'
  <2> SUFFICES ASSUME ctx = "live", NEW g \in Files
               PROVE  scanned'[g] = names'[g] + chn'[g] + Held(g)' + Added(g)' + skipped'[g]
    BY <1>1 DEF FlowInv
  <2>1. scanned[g] = names[g] + chn[g] + Held(g) + Added(g) + skipped[g]
    BY DEF Inv, FlowInv
  <2>2. names[g] \in Nat /\ chn[g] \in Nat /\ skipped[g] \in Nat
    BY DEF Inv, TypeOK, Bag
  <2>3. chn'[g] = chn[g] - (IF f = g THEN 1 ELSE 0)
    BY <1>5, <2>2
  <2>4. Held(g)' = Held(g) + (IF f = g THEN 1 ELSE 0)
    BY <1>1, <1>a, <1>b
  <2> QED BY <1>1, <1>b, <2>1, <2>2, <2>3, <2>4
<1> QED BY <1>b, <1>6, <1>7, <1>8, <1>9 DEF Inv

\* A goroutine goes on to l and keeps its file, if it has one.
LEMMA GoesOn ==
  ASSUME Inv, NEW s \in Shards, NEW l \in WAt, w[s].at \in Busy,
         w' = [w EXCEPT ![s].at = l],
         UNCHANGED <<inRepo, query, ctx, pc, feeder, names, chn, idx, result, delivered,
                     scanned, skipped>>,
         out' \subseteq Shards, panicked' \in BOOLEAN,
         \/ w[s].at \notin {"check", "open"} /\ l \notin {"check", "open"}
         \/ w[s].at = "check" /\ l = "open"
         \/ ctx = "done" /\ l \notin {"check", "open"}
  PROVE  /\ TypeOK' /\ StartInv' /\ AfterInv' /\ DoneInv' /\ FlowInv' /\ CountInv'
         /\ w'[s].at = l /\ w'[s].file = w[s].file /\ (ctx = "live" => pc = "par")
         /\ \A t \in Shards \ {s} : w'[t] = w[t]
<1> DEFINE x == [at |-> l, file |-> w[s].file, num |-> w[s].num]
<1>1. WIs(s, x)
  <2>1. w \in [Shards -> WType] /\ w[s] \in WType /\ w[s].file \in WFile
    BY TypeOfW DEF Inv, WType
  <2>2. w' = [w EXCEPT ![s] = [w[s] EXCEPT !.at = l]]
    BY <2>1
  <2>3. [w[s] EXCEPT !.at = l] = x /\ x \in WType
    BY <2>1, Parts
  <2> QED BY <2>1, <2>2, <2>3 DEF WIs
<1>a. x.at = l /\ x.file = w[s].file /\ x.num = w[s].num
  OBVIOUS
<1> HIDE DEF x
<1>b. /\ CountInv'
      /\ \A g \in Files :
           /\ Held(g) \in Nat /\ Held(g)' \in Nat /\ Added(g)' = Added(g) /\ Added(g) \in Nat
           /\ Held(g)' + (IF w[s].at \in {"check", "open"} /\ w[s].file = g THEN 1 ELSE 0)
                = Held(g) + (IF x.at \in {"check", "open"} /\ x.file = g THEN 1 ELSE 0)
  BY <1>1, <1>a, QuietMove
<1>2. /\ w' \in [Shards -> WType] /\ w'[s].at = l /\ w'[s].file = w[s].file
      /\ \A t \in Shards \ {s} : w'[t] = w[t]
  BY <1>1, <1>a DEF WIs
<1>3. TypeOK'
  <2>1. w' \in [Shards -> [at : {"none", "take", "check", "open", "report", "send", "end"},
                           file : Files \cup {NoFile}, num : Nat]]
    BY <1>2 DEF WType, WAt, WFile
  <2> QED BY <2>1 DEF Inv, TypeOK
<1>4. StartInv' /\ AfterInv' /\ DoneInv' /\ (ctx = "live" => pc = "par")
  BY WorkerFrame
<1>5. FlowInv'
  <2> SUFFICES ASSUME ctx = "live", NEW g \in Files
               PROVE  scanned'[g] = names'[g] + chn'[g] + Held(g)' + Added(g)' + skipped'[g]
    BY DEF FlowInv
  <2>1. scanned[g] = names[g] + chn[g] + Held(g) + Added(g) + skipped[g]
    BY DEF Inv, FlowInv
  <2>2. Held(g)' = Held(g)
    BY <1>a, <1>b
  <2> QED BY <1>b, <2>1, <2>2
<1> QED BY <1>b, <1>2, <1>3, <1>4, <1>5

\* The steps of a goroutine that leave its file and its shard alone.
LEMMA TakeEndStep == ASSUME Inv, NEW s \in Shards, TakeEnd(s) PROVE Inv'
<1>1. /\ w[s].at = "take" /\ feeder = "end" /\ chn = EmptyBag
      /\ w' = [w EXCEPT ![s].at = "report"]
      /\ UNCHANGED <<inRepo, query, ctx, pc, feeder, names, chn, out, idx, result, delivered,
                     panicked, scanned, skipped>>
  BY DEF TakeEnd, history
<1>2. out' \subseteq Shards /\ panicked' \in BOOLEAN
  BY <1>1 DEF Inv, TypeOK
<1>3. /\ TypeOK' /\ StartInv' /\ AfterInv' /\ DoneInv' /\ FlowInv' /\ CountInv'
      /\ w'[s].at = "report" /\ (ctx = "live" => pc = "par")
      /\ \A t \in Shards \ {s} : w'[t] = w[t]
  BY <1>1, <1>2, GoesOn DEF WAt, Busy
<1>4. s \notin out
  BY <1>1 DEF Inv, ShardInv
<1>5. ShardInv'
  BY <1>1, <1>3, <1>4 DEF Inv, ShardInv, Busy
<1> QED BY <1>3, <1>5 DEF Inv

\* With the context done the goroutine ends, its name in hand.
LEMMA CheckDoneStep == ASSUME Inv, NEW s \in Shards, CheckDone(s) PROVE Inv'
<1> DEFINE l == IF ctx = "done" THEN "end" ELSE "open"
<1>1. /\ w[s].at = "check" /\ w' = [w EXCEPT ![s].at = l]
      /\ UNCHANGED <<inRepo, query, ctx, pc, feeder, names, chn, out, idx, result, delivered,
                     panicked, scanned, skipped>>
  BY DEF CheckDone, history
<1>2. out' \subseteq Shards /\ panicked' \in BOOLEAN /\ l \in WAt
  BY <1>1 DEF Inv, TypeOK, WAt
<1>3. /\ TypeOK' /\ StartInv' /\ AfterInv' /\ DoneInv' /\ FlowInv' /\ CountInv'
      /\ w'[s].at = l /\ w'[s].file = w[s].file /\ (ctx = "live" => pc = "par")
      /\ \A t \in Shards \ {s} : w'[t] = w[t]
  BY <1>1, <1>2, GoesOn DEF Busy
<1>4. s \notin out /\ w[s].file \in Files
  BY <1>1 DEF Inv, ShardInv
<1>5. ShardInv'
  BY <1>1, <1>3, <1>4 DEF Inv, ShardInv, Busy
<1> QED BY <1>3, <1>5 DEF Inv

\* With the context done the count is not sent.
LEMMA ReportStep == ASSUME Inv, NEW s \in Shards, Report(s) PROVE Inv'
<1> DEFINE l == IF ctx = "done" THEN "end" ELSE "send"
<1>1. /\ w[s].at = "report" /\ w' = [w EXCEPT ![s].at = l]
      /\ UNCHANGED <<inRepo, query, ctx, pc, feeder, names, chn, out, idx, result, delivered,
                     panicked, scanned, skipped>>
  BY DEF Report, history
<1>2. out' \subseteq Shards /\ panicked' \in BOOLEAN /\ l \in WAt
  BY <1>1 DEF Inv, TypeOK, WAt
<1>3. /\ TypeOK' /\ StartInv' /\ AfterInv' /\ DoneInv' /\ FlowInv' /\ CountInv'
      /\ w'[s].at = l /\ (ctx = "live" => pc = "par")
      /\ \A t \in Shards \ {s} : w'[t] = w[t]
  BY <1>1, <1>2, GoesOn DEF Busy
<1>4. s \notin out
  BY <1>1 DEF Inv, ShardInv
<1>5. ShardInv'
  BY <1>1, <1>3, <1>4 DEF Inv, ShardInv, Busy
<1> QED BY <1>3, <1>5 DEF Inv

\* On a live context the caller still waits, and the count is in out.
LEMMA SendStep == ASSUME Inv, NEW s \in Shards, Send(s) PROVE Inv'
<1>1. /\ w[s].at = "send" /\ w' = [w EXCEPT ![s].at = "end"]
      /\ UNCHANGED <<inRepo, query, ctx, pc, feeder, names, chn, idx, result, delivered,
                     scanned, skipped>>
      /\ pc = "par" => out' = out \cup {s} /\ panicked' = panicked
      /\ pc # "par" => out' = out /\ panicked' = TRUE
  BY DEF Send, history
<1>2. out' \subseteq Shards /\ panicked' \in BOOLEAN
  BY <1>1 DEF Inv, TypeOK
<1>3. /\ TypeOK' /\ StartInv' /\ AfterInv' /\ DoneInv' /\ FlowInv' /\ CountInv'
      /\ w'[s].at = "end" /\ (ctx = "live" => pc = "par")
      /\ \A t \in Shards \ {s} : w'[t] = w[t]
  BY <1>1, <1>2, GoesOn DEF WAt, Busy
<1>4. /\ out' \subseteq out \cup {s} /\ out \subseteq out' /\ out \subseteq Shards
      /\ ctx = "live" => s \in out'
  BY <1>1, <1>3 DEF Inv, TypeOK
<1>5. ShardInv'
  BY <1>1, <1>3, <1>4 DEF Inv, ShardInv, Busy
<1> QED BY <1>3, <1>5 DEF Inv

\* The file does not open: it is counted as skipped.
LEMMA OpenFailsStep == ASSUME Inv, NEW s \in Shards, OpenFails(s) PROVE Inv'
<1>1. /\ w[s].at = "open" /\ skipped' = Plus(skipped, w[s].file)
      /\ w' = [w EXCEPT ![s].at = "take", ![s].file = NoFile]
      /\ UNCHANGED <<inRepo, query, ctx, pc, feeder, names, chn, out, idx, result, delivered,
                     panicked, scanned>>
  BY DEF OpenFails
<1> DEFINE x == [at |-> "take", file |-> NoFile, num |-> w[s].num]
<1>2. WIs(s, x)
  <2>1. w \in [Shards -> WType] /\ w[s] \in WType /\ NoFile \in WFile /\ "take" \in WAt
    BY TypeOfW DEF Inv, WFile, WAt
  <2>2. w' = [w EXCEPT ![s] = [[w[s] EXCEPT !.at = "take"] EXCEPT !.file = NoFile]]
    BY <1>1, <2>1
  <2> DEFINE z == [w[s] EXCEPT !.at = "take"]
  <2>3. z \in WType /\ z.at = "take" /\ z.num = w[s].num
    BY <2>1 DEF WType
  <2>4. w' = [w EXCEPT ![s] = [z EXCEPT !.file = NoFile]]
    BY <2>2
  <2> HIDE DEF z
  <2>5. [z EXCEPT !.file = NoFile] = x /\ x \in WType
    BY <2>1, <2>3 DEF WType
  <2> QED BY <2>1, <2>4, <2>5 DEF WIs
<1>a. x.at = "take" /\ x.file = NoFile /\ x.num = w[s].num
  OBVIOUS
<1> HIDE DEF x
<1>b. /\ CountInv'
      /\ \A g \in Files :
           /\ Held(g) \in Nat /\ Held(g)' \in Nat /\ Added(g)' = Added(g) /\ Added(g) \in Nat
           /\ Held(g)' + (IF w[s].at \in {"check", "open"} /\ w[s].file = g THEN 1 ELSE 0)
                = Held(g) + (IF x.at \in {"check", "open"} /\ x.file = g THEN 1 ELSE 0)
  BY <1>1, <1>2, <1>a, QuietMove
<1>3. /\ w' \in [Shards -> WType] /\ w'[s].at = "take"
      /\ \A t \in Shards \ {s} : w'[t] = w[t]
  BY <1>2, <1>a DEF WIs
<1>4. w[s].file \in Files /\ skipped \in Bag /\ s \notin out
  BY <1>1 DEF Inv, ShardInv, TypeOK
<1>5. /\ skipped' \in Bag /\ skipped'[w[s].file] = skipped[w[s].file] + 1
      /\ \A g \in Files \ {w[s].file} : skipped'[g] = skipped[g]
  BY <1>1, <1>4, BagPlus
<1>6. TypeOK'
  <2>1. w' \in [Shards -> [at : {"none", "take", "check", "open", "report", "send", "end"},
                           file : Files \cup {NoFile}, num : Nat]]
    BY <1>3 DEF WType, WAt, WFile
  <2> QED BY <1>1, <1>5, <2>1 DEF Inv, TypeOK
<1>7. StartInv' /\ AfterInv' /\ DoneInv' /\ (ctx = "live" => pc = "par")
  BY <1>1, WorkerFrame DEF Busy
<1>8. ShardInv'
  <2>1. w'[s].at = "take" /\ \A t \in Shards \ {s} : w'[t] = w[t]
    BY <1>3
  <2>2. w[s].at = "open" /\ UNCHANGED <<ctx, pc, feeder, names, chn, out>> /\ out \subseteq Shards
    BY <1>1 DEF Inv, TypeOK
  <2> QED BY <1>4, <1>7, <2>1, <2>2 DEF Inv, ShardInv, Busy
<1>9. FlowInv'
  <2> SUFFICES ASSUME ctx = "live", NEW g \in Files
               PROVE  scanned'[g] = names'[g] + chn'[g] + Held(g)' + Added(g)' + skipped'[g]
    BY <1>1 DEF FlowInv
  <2>1. scanned[g] = names[g] + chn[g] + Held(g) + Added(g) + skipped[g]
    BY DEF Inv, FlowInv
  <2>2. names[g] \in Nat /\ chn[g] \in Nat /\ skipped[g] \in Nat
    BY DEF Inv, TypeOK, Bag
  <2>3. skipped'[g] = skipped[g] + (IF w[s].file = g THEN 1 ELSE 0)
    BY <1>4, <1>5, <2>2
  <2>4. Held(g)' + (IF w[s].file = g THEN 1 ELSE 0) = Held(g)
    BY <1>1, <1>a, <1>b
  <2> QED BY <1>1, <1>b, <2>1, <2>2, <2>3, <2>4
<1> QED BY <1>b, <1>6, <1>7, <1>8, <1>9 DEF Inv

\* The file is added: to a shard, and to that shard's count.
LEMMA AddStep == ASSUME Inv, NEW s \in Shards, Add(s) PROVE Inv'
<1> DEFINE f == w[s].file
           x == [at |-> "take", file |-> NoFile, num |-> w[s].num + 1]
<1>1. /\ w[s].at = "open" /\ idx' = [idx EXCEPT ![s] = Plus(idx[s], f)]
      /\ w' = [w EXCEPT ![s] = x]
      /\ UNCHANGED <<inRepo, query, ctx, pc, feeder, names, chn, out, result, delivered,
                     panicked, scanned, skipped>>
  BY DEF Add, history
<1>2. f \in Files /\ s \notin out /\ w \in [Shards -> WType] /\ w[s].num \in Nat
  BY <1>1, TypeOfW DEF Inv, ShardInv, WType
<1>3. WIs(s, x)
  <2>1. x \in WType
    BY <1>2 DEF WType, WAt, WFile
  <2> HIDE DEF x
  <2> QED BY <1>1, <1>2, <2>1 DEF WIs
<1>4. x.at = "take" /\ x.num = w[s].num + 1
  OBVIOUS
<1> HIDE DEF x, f
<1>5. /\ w' \in [Shards -> WType] /\ w'[s] = x /\ \A t \in Shards \ {s} : w'[t] = w[t]
  BY <1>3 DEF WIs
<1>6. /\ \A g \in Files :
           /\ Held(g) \in Nat /\ Held(g)' \in Nat
           /\ Held(g)' + Hand(w, g)[s] = Held(g) + Hand(w', g)[s]
      /\ SumFunctionOnSet(Nums(w), Shards) \in Nat
      /\ SumFunctionOnSet(Nums(w'), Shards) \in Nat
      /\ SumFunctionOnSet(Nums(w'), Shards) + w[s].num = SumFunctionOnSet(Nums(w), Shards) + x.num
  BY <1>3, Moves DEF Inv
<1>7. \A g \in Files : Held(g)' + (IF f = g THEN 1 ELSE 0) = Held(g)
  <2> SUFFICES ASSUME NEW g \in Files PROVE Held(g)' + (IF f = g THEN 1 ELSE 0) = Held(g)
    OBVIOUS
  <2>1. Hand(w, g)[s] = (IF f = g THEN 1 ELSE 0) /\ Hand(w', g)[s] = 0
    BY <1>1, <1>4, <1>5 DEF Hand, f
  <2>2. Held(g)' + Hand(w, g)[s] = Held(g) + Hand(w', g)[s] /\ Held(g) \in Nat
    BY <1>6
  <2> QED BY <2>1, <2>2
<1>8. idx \in [Shards -> Bag] /\ idx[s] \in Bag
  BY DEF Inv, TypeOK
<1>9. /\ Plus(idx[s], f) \in Bag /\ Plus(idx[s], f)[f] = idx[s][f] + 1
      /\ \A g \in Files \ {f} : Plus(idx[s], f)[g] = idx[s][g]
  BY <1>2, <1>8, BagPlus
<1>10. /\ idx' \in [Shards -> Bag] /\ \A t \in Shards \ {s} : idx'[t] = idx[t]
       /\ idx'[s][f] = idx[s][f] + 1 /\ \A g \in Files \ {f} : idx'[s][g] = idx[s][g]
  BY <1>1, <1>8, <1>9
<1>11. \A g \in Files : /\ Added(g) \in Nat /\ Added(g)' \in Nat
                        /\ Added(g)' = Added(g) + (IF f = g THEN 1 ELSE 0)
  <2> SUFFICES ASSUME NEW g \in Files
               PROVE  /\ Added(g) \in Nat /\ Added(g)' \in Nat
                      /\ Added(g)' = Added(g) + (IF f = g THEN 1 ELSE 0)
    OBVIOUS
  <2> DEFINE a == [t \in Shards |-> idx[t][g]]
             b == [t \in Shards |-> idx'[t][g]]
  <2>1. \A t \in Shards : a[t] \in Nat /\ b[t] \in Nat
    BY <1>8, <1>10 DEF Bag
  <2>2. \A t \in Shards \ {s} : b[t] = a[t]
    BY <1>10
  <2>3. b[s] = a[s] + (IF f = g THEN 1 ELSE 0)
    BY <1>8, <1>10 DEF Bag
  <2>4. Added(g) = SumFunctionOnSet(a, Shards) /\ Added(g)' = SumFunctionOnSet(b, Shards)
    BY DEF Added
  <2> HIDE DEF a, b
  <2>5. SumFunctionOnSet(a, Shards) \in Nat /\ SumFunctionOnSet(b, Shards) \in Nat
    BY <2>1, ShardsAreFinite, SumType
  <2>6. SumFunctionOnSet(b, Shards) + a[s] = SumFunctionOnSet(a, Shards) + b[s]
    BY <2>1, <2>2, ShardsAreFinite, SumChange
  <2> QED BY <2>1, <2>3, <2>4, <2>5, <2>6
<1>12. CountInv'
  <2> DEFINE a == [g \in Files |-> Added(g)]
             b == [g \in Files |-> Added(g)']
  <2>1. \A g \in Files : a[g] \in Nat /\ b[g] \in Nat
    BY <1>11
  <2>2. (\A g \in Files \ {f} : b[g] = a[g]) /\ b[f] = a[f] + 1
    BY <1>2, <1>11
  <2>3. CountInv => SumFunctionOnSet(Nums(w), Shards) = SumFunctionOnSet(a, Files)
    BY DEF CountInv
  <2>4. SumFunctionOnSet(Nums(w'), Shards) = SumFunctionOnSet(b, Files) => CountInv'
    BY DEF CountInv
  <2> HIDE DEF a, b
  <2>5. SumFunctionOnSet(a, Files) \in Nat /\ SumFunctionOnSet(b, Files) \in Nat
    BY <2>1, FilesAreFinite, SumType
  <2>6. SumFunctionOnSet(b, Files) + a[f] = SumFunctionOnSet(a, Files) + b[f]
    BY <1>2, <2>1, <2>2, FilesAreFinite, SumChange
  <2>7. SumFunctionOnSet(b, Files) = SumFunctionOnSet(a, Files) + 1
    BY <1>2, <2>1, <2>2, <2>5, <2>6
  <2>8. SumFunctionOnSet(Nums(w'), Shards) = SumFunctionOnSet(Nums(w), Shards) + 1
    BY <1>2, <1>4, <1>6
  <2> QED BY <2>3, <2>4, <2>7, <2>8 DEF Inv
<1>13. TypeOK'
  <2>1. w' \in [Shards -> [at : {"none", "take", "check", "open", "report", "send", "end"},
                           file : Files \cup {NoFile}, num : Nat]]
    BY <1>5 DEF WType, WAt, WFile
  <2> QED BY <1>1, <1>10, <2>1 DEF Inv, TypeOK
<1>14. StartInv' /\ AfterInv' /\ DoneInv' /\ (ctx = "live" => pc = "par")
  BY <1>1, WorkerFrame DEF Busy
<1>15. ShardInv'
  <2>1. w'[s].at = "take" /\ \A t \in Shards \ {s} : w'[t] = w[t]
    BY <1>4, <1>5
  <2>2. w[s].at = "open" /\ UNCHANGED <<ctx, pc, feeder, names, chn, out>> /\ out \subseteq Shards
    BY <1>1 DEF Inv, TypeOK
  <2> QED BY <1>2, <1>14, <2>1, <2>2 DEF Inv, ShardInv, Busy
<1>16. FlowInv'
  <2> SUFFICES ASSUME ctx = "live", NEW g \in Files
               PROVE  scanned'[g] = names'[g] + chn'[g] + Held(g)' + Added(g)' + skipped'[g]
    BY <1>1 DEF FlowInv
  <2>1. scanned[g] = names[g] + chn[g] + Held(g) + Added(g) + skipped[g]
    BY DEF Inv, FlowInv
  <2>2. names[g] \in Nat /\ chn[g] \in Nat /\ skipped[g] \in Nat
    BY DEF Inv, TypeOK, Bag
  <2>3. /\ Held(g)' + (IF f = g THEN 1 ELSE 0) = Held(g) /\ Held(g)' \in Nat
        /\ Added(g)' = Added(g) + (IF f = g THEN 1 ELSE 0) /\ Added(g) \in Nat
    BY <1>6, <1>7, <1>11
  <2> QED BY <1>1, <2>1, <2>2, <2>3
<1> QED BY <1>12, <1>13, <1>14, <1>15, <1>16 DEF Inv

-----------------------------------------------------------------------------
\* The initial states.
LEMMA InitInv == ASSUME Init PROVE Inv
<1>1. /\ \A s \in Shards : w[s] = [at |-> "none", file |-> NoFile, num |-> 0]
      /\ w = [s \in Shards |-> [at |-> "none", file |-> NoFile, num |-> 0]]
      /\ idx = [s \in Shards |-> EmptyBag] /\ names = EmptyBag /\ chn = EmptyBag
      /\ scanned = EmptyBag /\ skipped = EmptyBag /\ pc = "new" /\ feeder = "none" /\ out = {}
      /\ ~delivered /\ result = [repo |-> "none", num |-> 0, err |-> FALSE]
  BY DEF Init
<1>2. TypeOK
  <2>1. w \in [Shards -> WType] /\ idx \in [Shards -> Bag]
    BY <1>1, BagEmpty DEF WType, WAt, WFile
  <2>2. Size(chn) <= ChanCap
    BY <1>1, BagEmpty, ChanHasRoom
  <2>3. w \in [Shards -> [at : {"none", "take", "check", "open", "report", "send", "end"},
                          file : Files \cup {NoFile}, num : Nat]]
    BY <2>1 DEF WType, WAt, WFile
  <2>4. result \in [repo : {"none", "new", "OK", "ERROR"}, num : Nat, err : BOOLEAN]
    BY <1>1
  <2>5. /\ inRepo \in BOOLEAN /\ query \in Queries /\ ctx \in {"live", "done"}
        /\ delivered \in BOOLEAN /\ panicked \in BOOLEAN
    BY DEF Init
  <2> QED BY <1>1, <2>1, <2>2, <2>3, <2>4, <2>5, BagEmpty DEF TypeOK
<1>3. StartInv /\ AfterInv /\ DoneInv
  BY <1>1 DEF StartInv, AfterInv, DoneInv, Successful, Idle
<1>4. ShardInv
  BY <1>1 DEF ShardInv, Busy
<1>5. \A f \in Files : Added(f) = 0
  <2> SUFFICES ASSUME NEW f \in Files PROVE Added(f) = 0
    OBVIOUS
  <2>1. \A s \in Shards : [t \in Shards |-> idx[t][f]][s] = 0
    BY <1>1, BagEmpty
  <2> QED BY <2>1, ShardsAreFinite, SumZero DEF Added
<1>6. FlowInv
  <2>1. \A f \in Files : Held(f) = 0
    BY <1>1, HeldIsZero
  <2> QED BY <1>1, <1>5, <2>1, BagEmpty DEF FlowInv
<1>7. CountInv
  <2>1. \A s \in Shards : Nums(w)[s] = 0
    BY <1>1 DEF Nums
  <2>2. \A f \in Files : [g \in Files |-> Added(g)][f] = 0
    BY <1>5
  <2>3. SumFunctionOnSet(Nums(w), Shards) = 0
    BY <2>1, ShardsAreFinite, SumZero
  <2>4. SumFunctionOnSet([g \in Files |-> Added(g)], Files) = 0
    BY <2>2, FilesAreFinite, SumZero
  <2> QED BY <2>3, <2>4 DEF CountInv
<1> QED BY <1>2, <1>3, <1>4, <1>6, <1>7 DEF Inv

\* A stutter.
LEMMA Stutters == ASSUME Inv, UNCHANGED vars PROVE Inv'
<1>1. UNCHANGED <<inRepo, query, ctx, pc, feeder, names, chn, w, out, idx, result,
                  delivered, panicked, scanned, skipped>>
  BY DEF vars
<1>2. TypeOK' /\ StartInv' /\ ShardInv' /\ AfterInv'
  BY <1>1 DEF Inv, TypeOK, StartInv, ShardInv, AfterInv, Idle, Valid, AllEnded
<1>3. FlowInv'
  BY <1>1, Frame DEF Inv, FlowInv
<1>4. CountInv' /\ DoneInv'
  BY <1>1, Frame, DoneFrame DEF Inv
<1> QED BY <1>2, <1>3, <1>4 DEF Inv

\* Every step keeps the invariant.
LEMMA NextInv == ASSUME Inv, [Next]_vars PROVE Inv'
<1>1. CASE Main
  <2>1. ASSUME NEW listed, NEW found, Scan(listed, found) PROVE Inv'
    BY <2>1, ScanStep
  <2> QED BY <1>1, <2>1, EarlySteps, LateSteps, DeliverStep DEF Main
<1>2. ASSUME NEW s \in Shards, Worker(s) PROVE Inv'
  BY <1>2, TakeStep, TakeEndStep, CheckDoneStep, AddStep, OpenFailsStep, ReportStep, SendStep
     DEF Worker
<1> QED BY <1>1, <1>2, FeederSteps, CtxDoneStep, Stutters DEF Next

\* The invariant holds in every state of the indexer.
THEOREM InvHolds == Spec => []Inv
BY InitInv, NextInv, PTL DEF Spec

\* Types: every variable has its type, and no more names are in the channel
\* than it has room for.
THEOREM TypeCorrect == Spec => []TypeOK
<1>1. Inv => TypeOK
  BY DEF Inv
<1> QED BY <1>1, InvHolds, PTL

\* A result that is delivered without an error has every name that was
\* scanned added or passed over, and counts what was added, for every tree,
\* number of shards, room in the channel and query.
THEOREM DeliveredIsCompleteHolds == Spec => []DeliveredIsComplete
<1>1. Inv => DeliveredIsComplete
  BY DEF Inv, DoneInv, DeliveredIsComplete
<1> QED BY <1>1, InvHolds, PTL

\* Its shards are final: no goroutine that is left adds to them.
THEOREM DeliveredIsFinalHolds == Spec => DeliveredIsFinal
<1>1. Inv /\ [Next]_vars => [Successful => UNCHANGED idx]_vars
  <2> SUFFICES ASSUME Inv, Next, Successful PROVE UNCHANGED idx
    OBVIOUS
  <2>1. pc = "done" /\ AllEnded
    BY DEF Inv, StartInv, DoneInv, Successful
  <2>2. CASE Main
    BY <2>1, <2>2 DEF Main, NormalizeFails, Normalize, CreateFails, Create, ParReturns, Sum,
                      Flush, Deliver
  <2>3. CASE Feeder \/ CtxDone
    BY <2>3 DEF Feeder, Feed, FeedClose, CtxDone, chans
  <2>4. ASSUME NEW s \in Shards, Worker(s) PROVE UNCHANGED idx
    BY <2>1, <2>4 DEF AllEnded, Worker, Take, TakeEnd, CheckDone, Add, OpenFails, Report, Send
  <2> QED BY <2>2, <2>3, <2>4 DEF Next
<1> QED BY <1>1, InvHolds, PTL DEF Spec, DeliveredIsFinal
-----------------------------------------------------------------------------
(***************************************************************************)
(* The walk of the tree, Walker: what it finds, going down from a          *)
(* directory and up to it from a file.                                     *)
(***************************************************************************)

\* A walk's function, taken apart: the entries of n that stop the walk of n,
\* those it gets to, and what it is for n, given what it is for the entries.
Stop(g, n, lf) == {i \in DOMAIN Entries[n] : Entries[n][i] \in lf \/ g[Entries[n][i]].err}
Got(g, n, lf) == {i \in Visited(Entries[n], Stop(g, n, lf)) : Entries[n][i] \notin lf}
WalkOf(g, n, lf, rf) ==
  IF MatchFile(n) THEN [added |-> {}, err |-> FALSE]
  ELSE IF n \notin Dirs THEN [added |-> Adds(n), err |-> FALSE]
  ELSE IF n \in rf THEN [added |-> {}, err |-> TRUE]
  ELSE [added |-> UNION {g[Entries[n][i]].added : i \in Got(g, n, lf)},
        err |-> Stop(g, n, lf) # {} /\ Entries[n][Min(Stop(g, n, lf))] \notin lf]

\* g is such a function, on all nodes or on those in D and below.
IsWalk(g, lf, rf) == g = [n \in Nodes |-> WalkOf(g, n, lf, rf)]
IsWalkOn(D, g, lf, rf) ==
  /\ D \in SUBSET Nodes
  /\ \A n \in D : n \in Dirs => \A m \in Nodes : Holds(n, m) => m \in D
  /\ \A n \in D : g[n] = WalkOf(g, n, lf, rf)

\* The entries of a directory are numbered nodes.
LEMMA EntriesAre ==
  ASSUME NEW n \in Dirs
  PROVE  /\ Entries[n] \in Seq(Nodes) /\ DOMAIN Entries[n] = 1 .. Len(Entries[n])
         /\ n \in Nodes
         /\ \A i \in DOMAIN Entries[n] : Entries[n][i] \in Nodes /\ Holds(n, Entries[n][i])
<1>1. Entries[n] \in Seq(Nodes)
  BY EntriesAreATree
<1>2. DOMAIN Entries[n] = 1 .. Len(Entries[n])
  BY <1>1
<1>3. n \in Nodes
  BY DEF Nodes
<1>4. \A i \in DOMAIN Entries[n] : Entries[n][i] \in Nodes
  BY <1>1, <1>2
<1> QED BY <1>1, <1>2, <1>3, <1>4 DEF Holds

\* A walk gets to entries up to the first that stops it, which is one.
LEMMA GotAre ==
  ASSUME NEW n \in Dirs, NEW g, NEW lf
  PROVE  /\ Got(g, n, lf) \in SUBSET (DOMAIN Entries[n])
         /\ Stop(g, n, lf) = {} =>
              \A i \in DOMAIN Entries[n] : Entries[n][i] \notin lf => i \in Got(g, n, lf)
         /\ Stop(g, n, lf) # {} =>
              /\ Min(Stop(g, n, lf)) \in Stop(g, n, lf)
              /\ \A i \in Stop(g, n, lf) : Min(Stop(g, n, lf)) <= i
              /\ \A i \in DOMAIN Entries[n] :
                   i <= Min(Stop(g, n, lf)) /\ Entries[n][i] \notin lf => i \in Got(g, n, lf)
<1> DEFINE st == Stop(g, n, lf)
           len == Len(Entries[n])
<1>1. DOMAIN Entries[n] = 1 .. len /\ len \in Nat
  BY EntriesAre
<1>2. st \in SUBSET (1 .. len) /\ st \in SUBSET Nat
  BY <1>1 DEF Stop
<1>3. Got(g, n, lf) = {i \in 1 .. (IF st = {} THEN len ELSE Min(st)) : Entries[n][i] \notin lf}
  BY DEF Got, Visited
<1> HIDE DEF st, len
<1>4. CASE st = {}
  BY <1>1, <1>3, <1>4 DEF st
<1>5. CASE st # {}
  <2>1. Min(st) \in st /\ \A i \in st : Min(st) <= i
    BY <1>2, <1>5, MinIsLeast
  <2>2. Min(st) \in 1 .. len
    BY <1>2, <2>1
  <2>3. Got(g, n, lf) = {i \in 1 .. Min(st) : Entries[n][i] \notin lf}
    BY <1>3, <1>5
  <2>4. Got(g, n, lf) \in SUBSET (DOMAIN Entries[n])
    BY <1>1, <2>2, <2>3
  <2>5. \A i \in DOMAIN Entries[n] :
          i <= Min(st) /\ Entries[n][i] \notin lf => i \in Got(g, n, lf)
    BY <1>1, <2>2, <2>3
  <2> QED BY <1>5, <2>1, <2>4, <2>5 DEF st
<1> QED BY <1>4, <1>5

\* What a walk finds depends on the entries only.
LEMMA WalkOfSame ==
  ASSUME NEW n \in Nodes, NEW g, NEW h, NEW lf, NEW rf,
         n \in Dirs => \A m \in Nodes : Holds(n, m) => g[m] = h[m]
  PROVE  WalkOf(g, n, lf, rf) = WalkOf(h, n, lf, rf)
<1>1. CASE n \notin Dirs
  BY <1>1 DEF WalkOf
<1>2. CASE n \in Dirs
  <2>1. \A i \in DOMAIN Entries[n] : g[Entries[n][i]] = h[Entries[n][i]]
    BY <1>2, EntriesAre
  <2>2. Stop(g, n, lf) = Stop(h, n, lf)
    BY <2>1 DEF Stop
  <2>3. Got(g, n, lf) = Got(h, n, lf)
    BY <2>2 DEF Got
  <2>4. \A i \in Got(g, n, lf) : g[Entries[n][i]].added = h[Entries[n][i]].added
    BY <1>2, <2>1, GotAre
  <2>5. UNION {g[Entries[n][i]].added : i \in Got(g, n, lf)}
          = UNION {h[Entries[n][i]].added : i \in Got(h, n, lf)}
    BY <2>3, <2>4
  <2> QED BY <2>2, <2>5 DEF WalkOf
<1> QED BY <1>1, <1>2

\* Two such functions agree where both are.
LEMMA WalkUnique ==
  ASSUME NEW D, NEW g, NEW E, NEW h, NEW lf, NEW rf,
         IsWalkOn(D, g, lf, rf), IsWalkOn(E, h, lf, rf)
  PROVE  \A n \in D \cap E : g[n] = h[n]
<1> DEFINE S == {n \in D \cap E : g[n] # h[n]}
<1> SUFFICES ASSUME S # {} PROVE FALSE
  OBVIOUS
<1>1. S \in SUBSET Nodes
  BY DEF IsWalkOn
<1>2. PICK n \in S : n \in Dirs => \A m \in S : ~Holds(n, m)
  BY <1>1, EntriesAreATree
<1>3. n \in Nodes /\ n \in D /\ n \in E /\ g[n] # h[n]
  BY <1>1
<1>4. n \in Dirs => \A m \in Nodes : Holds(n, m) => g[m] = h[m]
  BY <1>2, <1>3 DEF IsWalkOn
<1>5. WalkOf(g, n, lf, rf) = WalkOf(h, n, lf, rf)
  BY <1>3, <1>4, WalkOfSame
<1> QED BY <1>3, <1>5 DEF IsWalkOn

\* There is such a function on all nodes: it is put together from those on
\* parts of the tree.
LEMMA WalkExists ==
  ASSUME NEW lf, NEW rf
  PROVE  \E g : IsWalk(g, lf, rf)
<1> DEFINE Has(n) == \E D, g : IsWalkOn(D, g, lf, rf) /\ n \in D
           Fn(n) == CHOOSE g : \E D : IsWalkOn(D, g, lf, rf) /\ n \in D
           All == {n \in Nodes : Has(n)}
           walk == [n \in Nodes |-> Fn(n)[n]]
<1>1. \A n \in All : \E D : IsWalkOn(D, Fn(n), lf, rf) /\ n \in D
  OBVIOUS
<1>2. ASSUME NEW n \in All, NEW D, NEW g, IsWalkOn(D, g, lf, rf), n \in D PROVE walk[n] = g[n]
  <2>1. PICK E : IsWalkOn(E, Fn(n), lf, rf) /\ n \in E
    BY <1>1
  <2>2. walk[n] = Fn(n)[n]
    OBVIOUS
  <2> HIDE DEF Fn, walk, Has
  <2>3. n \in D \cap E
    BY <1>2, <2>1
  <2> QED BY <1>2, <2>1, <2>2, <2>3, WalkUnique
<1>a. ASSUME NEW D, NEW g, IsWalkOn(D, g, lf, rf), NEW n \in D PROVE n \in All
  BY <1>a DEF IsWalkOn
<1>w. ASSUME NEW n \in All PROVE \E D, g : IsWalkOn(D, g, lf, rf) /\ n \in D
  OBVIOUS
<1>n. All \in SUBSET Nodes
  OBVIOUS
<1> HIDE DEF All, walk
<1>3. IsWalkOn(All, walk, lf, rf)
  <2>1. ASSUME NEW n \in All, n \in Dirs, NEW m \in Nodes, Holds(n, m) PROVE m \in All
    <3>1. PICK D, g : IsWalkOn(D, g, lf, rf) /\ n \in D
      BY <1>w
    <3>2. m \in D
      BY <2>1, <3>1 DEF IsWalkOn
    <3> QED BY <1>a, <3>1, <3>2
  <2>2. ASSUME NEW n \in All PROVE walk[n] = WalkOf(walk, n, lf, rf)
    <3>1. PICK D, g : IsWalkOn(D, g, lf, rf) /\ n \in D
      BY <1>w
    <3>2. ASSUME n \in Dirs, NEW m \in Nodes, Holds(n, m) PROVE walk[m] = g[m]
      <4>1. m \in D
        BY <3>1, <3>2 DEF IsWalkOn
      <4>2. m \in All
        BY <1>a, <3>1, <4>1
      <4> QED BY <1>2, <3>1, <4>1, <4>2
    <3>3. n \in Nodes
      BY <1>n
    <3>4. WalkOf(walk, n, lf, rf) = WalkOf(g, n, lf, rf)
      BY <3>2, <3>3, WalkOfSame
    <3>5. walk[n] = g[n] /\ g[n] = WalkOf(g, n, lf, rf)
      <4>1. walk[n] = g[n]
        BY <1>2, <3>1
      <4> QED BY <3>1, <4>1 DEF IsWalkOn
    <3> QED BY <3>4, <3>5
  <2> QED BY <1>n, <2>1, <2>2 DEF IsWalkOn
<1>4. All = Nodes
  <2> SUFFICES ASSUME All # Nodes PROVE FALSE
    OBVIOUS
  <2>1. Nodes \ All # {} /\ Nodes \ All \in SUBSET Nodes
    BY <1>n
  <2>2. PICK n \in Nodes \ All : n \in Dirs => \A m \in Nodes \ All : ~Holds(n, m)
    BY <2>1, EntriesAreATree
  <2> DEFINE E == All \cup {n}
             v == [m \in Nodes |-> IF m = n THEN WalkOf(walk, n, lf, rf) ELSE walk[m]]
  <2>3. \A m \in All : v[m] = walk[m]
    BY <1>n, <2>2
  <2>4. n \in Dirs => \A m \in Nodes : Holds(n, m) => m \in All
    BY <2>2
  <2>5. v[n] = WalkOf(walk, n, lf, rf)
    BY <2>2
  <2>6. E \in SUBSET Nodes /\ n \in E /\ n \in Nodes
    BY <1>n, <2>2
  <2> HIDE DEF v
  <2>7. ASSUME NEW k \in E PROVE k \in Dirs => \A m \in Nodes : Holds(k, m) => m \in All
    BY <1>3, <2>4 DEF IsWalkOn
  <2>8. ASSUME NEW k \in E PROVE v[k] = WalkOf(v, k, lf, rf)
    <3>1. k \in Nodes /\ (k \in Dirs => \A m \in Nodes : Holds(k, m) => v[m] = walk[m])
      BY <2>3, <2>6, <2>7
    <3>2. WalkOf(v, k, lf, rf) = WalkOf(walk, k, lf, rf)
      BY <3>1, WalkOfSame
    <3>3. CASE k = n
      BY <2>5, <3>2, <3>3
    <3>4. CASE k \in All
      <4>1. walk[k] = WalkOf(walk, k, lf, rf)
        BY <1>3, <3>4 DEF IsWalkOn
      <4> QED BY <2>3, <3>2, <3>4, <4>1
    <3> QED BY <3>3, <3>4
  <2>9. IsWalkOn(E, v, lf, rf)
    BY <2>6, <2>7, <2>8 DEF IsWalkOn
  <2>10. n \in All
    BY <1>a, <2>6, <2>9
  <2> QED BY <2>2, <2>10
<1>5. walk = [n \in Nodes |-> walk[n]]
  BY DEF walk
<1>6. \A n \in Nodes : walk[n] = WalkOf(walk, n, lf, rf)
  BY <1>3, <1>4 DEF IsWalkOn
<1>7. IsWalk(walk, lf, rf)
  BY <1>5, <1>6 DEF IsWalk
<1> QED BY <1>7

\* What a walk finds for a node is told by what it finds for its entries.
LEMMA WalkUnfolds ==
  ASSUME NEW lf, NEW rf
  PROVE  \A n \in Nodes : WalkFrom(lf, rf)[n] = WalkOf(WalkFrom(lf, rf), n, lf, rf)
<1> DEFINE walk == CHOOSE g : IsWalk(g, lf, rf)
<1>1. WalkFrom(lf, rf) = walk
  BY DEF WalkFrom, IsWalk, WalkOf, Stop, Got
<1>2. IsWalk(walk, lf, rf)
  BY WalkExists
<1> HIDE DEF walk
<1>3. \A n \in Nodes : walk[n] = WalkOf(walk, n, lf, rf)
  BY <1>2 DEF IsWalk
<1> QED BY <1>1, <1>3
-----------------------------------------------------------------------------
\* The directory a node is in.
LEMMA ParentIs ==
  /\ \A n \in Nodes \ {"/"} : Parent(n) \in Dirs /\ Holds(Parent(n), n)
  /\ \A d \in Dirs, n \in Nodes : Holds(d, n) => n # "/" /\ Parent(n) = d
<1>1. \A n \in Nodes \ {"/"} : Parent(n) \in Dirs /\ Holds(Parent(n), n)
  BY EntriesAreATree DEF Parent
<1>2. ASSUME NEW d \in Dirs, NEW n \in Nodes, Holds(d, n) PROVE n # "/" /\ Parent(n) = d
  <2>1. n # "/"
    BY <1>2, EntriesAreATree
  <2>2. Parent(n) \in Dirs /\ Holds(Parent(n), n)
    BY <1>1, <2>1
  <2> QED BY <1>2, <2>1, <2>2, EntriesAreATree DEF Holds
<1> QED BY <1>1, <1>2

\* A set with f and, but for d and the root, the parents of its members.
Closed(d, f, c) == c \in SUBSET Nodes /\ f \in c /\ \A n \in c \ {d, "/"} : Parent(n) \in c

\* The nodes from f up to d are the smallest such set.
LEMMA UpToIs ==
  ASSUME NEW d \in Dirs, NEW f \in Nodes
  PROVE  Closed(d, f, UpTo[d][f]) /\ \A c : Closed(d, f, c) => UpTo[d][f] \subseteq c
<1>1. UpTo[d][f] = {n \in Nodes : \A c \in {c \in SUBSET Nodes :
                       f \in c /\ \A m \in c \ {d, "/"} : Parent(m) \in c} : n \in c}
  BY DEF UpTo
<1>2. UpTo[d][f] = {n \in Nodes : \A c \in SUBSET Nodes : Closed(d, f, c) => n \in c}
  BY <1>1 DEF Closed
<1>3. \A c : Closed(d, f, c) => UpTo[d][f] \subseteq c
  BY <1>2 DEF Closed
<1>4. UpTo[d][f] \in SUBSET Nodes /\ f \in UpTo[d][f]
  BY <1>2 DEF Closed
<1>5. ASSUME NEW n \in UpTo[d][f] \ {d, "/"} PROVE Parent(n) \in UpTo[d][f]
  <2>1. n \in Nodes \ {"/"}
    BY <1>4
  <2>2. Parent(n) \in Nodes
    BY <2>1, ParentIs, EntriesAre
  <2>3. ASSUME NEW c \in SUBSET Nodes, Closed(d, f, c) PROVE Parent(n) \in c
    <3>1. n \in c
      BY <1>3, <2>3
    <3> QED BY <2>3, <3>1 DEF Closed
  <2> QED BY <1>2, <2>2, <2>3
<1> QED BY <1>3, <1>4, <1>5 DEF Closed

\* From d, and from an entry of n, up to d.
LEMMA UpToOfEntry ==
  ASSUME NEW d \in Dirs
  PROVE  /\ UpTo[d][d] = {d}
         /\ \A n \in Dirs, m \in Nodes \ {d} :
              Holds(n, m) => UpTo[d][m] = {m} \cup UpTo[d][n]
<1>0. d \in Nodes
  BY EntriesAre
<1>1. UpTo[d][d] = {d}
  <2>1. Closed(d, d, {d})
    BY <1>0 DEF Closed
  <2>2. UpTo[d][d] \subseteq {d} /\ Closed(d, d, UpTo[d][d])
    BY <1>0, <2>1, UpToIs
  <2> QED BY <2>2 DEF Closed
<1>2. ASSUME NEW n \in Dirs, NEW m \in Nodes \ {d}, Holds(n, m)
      PROVE  UpTo[d][m] = {m} \cup UpTo[d][n]
  <2>1. m # "/" /\ Parent(m) = n /\ n \in Nodes
    BY <1>2, ParentIs, EntriesAre
  <2>2. /\ Closed(d, m, UpTo[d][m]) /\ Closed(d, n, UpTo[d][n])
        /\ (\A c : Closed(d, m, c) => UpTo[d][m] \subseteq c)
        /\ (\A c : Closed(d, n, c) => UpTo[d][n] \subseteq c)
    BY <2>1, UpToIs
  <2>3. Closed(d, m, {m} \cup UpTo[d][n])
    BY <2>1, <2>2 DEF Closed
  <2>4. Closed(d, n, UpTo[d][m]) /\ m \in UpTo[d][m]
    BY <2>1, <2>2 DEF Closed
  <2> QED BY <2>2, <2>3, <2>4
<1> QED BY <1>1, <1>2

\* A walk of d gets to n, unless something fails.
OnWay(d, n) == d \in UpTo[d][n] /\ \A m \in UpTo[d][n] \ {n} : ~MatchFile(m)

\* So it does for d, and with a directory for its entries.
LEMMA OnWayDown ==
  ASSUME NEW d \in Dirs
  PROVE  /\ OnWay(d, d)
         /\ \A n \in Nodes : OnWay(d, n) /\ ~MatchFile(n) => Below(d, n)
         /\ \A n \in Dirs, m \in Nodes :
              OnWay(d, n) /\ ~MatchFile(n) /\ Holds(n, m) => OnWay(d, m)
<1>1. OnWay(d, d)
  BY UpToOfEntry DEF OnWay
<1>2. \A n \in Nodes : OnWay(d, n) /\ ~MatchFile(n) => Below(d, n)
  BY DEF OnWay, Below
<1>3. ASSUME NEW n \in Dirs, NEW m \in Nodes, OnWay(d, n), ~MatchFile(n), Holds(n, m)
      PROVE  OnWay(d, m)
  <2>1. CASE m = d
    BY <1>1, <2>1
  <2>2. CASE m # d
    <3>1. UpTo[d][m] = {m} \cup UpTo[d][n]
      BY <1>3, <2>2, UpToOfEntry
    <3> QED BY <1>3, <3>1 DEF OnWay
  <2> QED BY <2>1, <2>2
<1> QED BY <1>1, <1>2, <1>3

\* Going down: a walk adds regular files below d only, and an error is that of
\* a directory below d.
LEMMA WalkDown ==
  ASSUME NEW d \in Dirs, NEW lf, NEW rf \in SUBSET Dirs, NEW n \in Nodes, OnWay(d, n)
  PROVE  /\ WalkFrom(lf, rf)[n].err => \E r \in rf : Below(d, r)
         /\ \A f \in WalkFrom(lf, rf)[n].added : f \in Files \ Special /\ Below(d, f)
<1> DEFINE walk == WalkFrom(lf, rf)
           Ok(k) == /\ walk[k].err => \E r \in rf : Below(d, r)
                    /\ \A f \in walk[k].added : f \in Files \ Special /\ Below(d, f)
           Bad == {k \in Nodes : OnWay(d, k) /\ ~Ok(k)}
<1>w. \A k \in Nodes : walk[k] = WalkOf(walk, k, lf, rf)
  BY WalkUnfolds
<1> HIDE DEF walk
<1>1. ASSUME NEW k \in Nodes, OnWay(d, k),
             k \in Dirs => \A m \in Nodes : Holds(k, m) /\ OnWay(d, m) => Ok(m)
      PROVE  Ok(k)
  <2>0. walk[k] = WalkOf(walk, k, lf, rf)
    BY <1>w
  <2>1. CASE MatchFile(k)
    <3>1. walk[k] = [added |-> {}, err |-> FALSE]
      BY <2>0, <2>1 DEF WalkOf
    <3> QED BY <3>1
  <2>2. CASE ~MatchFile(k) /\ k \notin Dirs
    <3>1. walk[k] = [added |-> Adds(k), err |-> FALSE]
      BY <2>0, <2>2 DEF WalkOf
    <3>2. Below(d, k)
      BY <1>1, <2>2, OnWayDown
    <3> QED BY <3>1, <3>2 DEF Adds, Files
  <2>3. CASE ~MatchFile(k) /\ k \in Dirs /\ k \in rf
    <3>1. walk[k] = [added |-> {}, err |-> TRUE]
      BY <2>0, <2>3 DEF WalkOf
    <3>2. Below(d, k)
      BY <1>1, <2>3, OnWayDown
    <3> QED BY <2>3, <3>1, <3>2
  <2>4. CASE ~MatchFile(k) /\ k \in Dirs /\ k \notin rf
    <3> DEFINE st == Stop(walk, k, lf)
               got == Got(walk, k, lf)
    <3>1. walk[k] = [added |-> UNION {walk[Entries[k][i]].added : i \in got},
                  err |-> st # {} /\ Entries[k][Min(st)] \notin lf]
      BY <2>0, <2>4 DEF WalkOf
    <3>2. \A i \in DOMAIN Entries[k] : Entries[k][i] \in Nodes /\ Holds(k, Entries[k][i])
      BY <2>4, EntriesAre
    <3>3. \A i \in DOMAIN Entries[k] : OnWay(d, Entries[k][i])
      BY <1>1, <2>4, <3>2, OnWayDown
    <3>4. \A i \in DOMAIN Entries[k] : Ok(Entries[k][i])
      <4> HIDE DEF Ok
      <4> QED BY <1>1, <2>4, <3>2, <3>3
    <3>5. got \in SUBSET (DOMAIN Entries[k]) /\ (st # {} => Min(st) \in st)
      BY <2>4, GotAre
    <3>6. \A i \in st : i \in DOMAIN Entries[k] /\ (Entries[k][i] \in lf \/ walk[Entries[k][i]].err)
      BY DEF Stop
    <3> HIDE DEF st, got
    <3>7. walk[k].err => \E r \in rf : Below(d, r)
      <4> SUFFICES ASSUME walk[k].err PROVE \E r \in rf : Below(d, r)
        OBVIOUS
      <4> DEFINE cut == st # {} /\ Entries[k][Min(st)] \notin lf
      <4>0. walk[k].err = cut
        <5> HIDE DEF cut
        <5>1. walk[k] = [added |-> UNION {walk[Entries[k][i]].added : i \in got}, err |-> cut]
          BY <3>1 DEF cut
        <5> QED BY <5>1
      <4>1. st # {} /\ Entries[k][Min(st)] \notin lf
        BY <4>0
      <4>2. Min(st) \in DOMAIN Entries[k] /\ walk[Entries[k][Min(st)]].err
        BY <3>5, <3>6, <4>1
      <4> QED BY <3>4, <4>2
    <3>8. \A f \in walk[k].added : f \in Files \ Special /\ Below(d, f)
      <4> SUFFICES ASSUME NEW f \in walk[k].added PROVE f \in Files \ Special /\ Below(d, f)
        OBVIOUS
      <4>1. PICK i \in got : f \in walk[Entries[k][i]].added
        BY <3>1
      <4> QED BY <3>4, <3>5, <4>1
    <3> QED BY <3>7, <3>8
  <2> QED BY <2>1, <2>2, <2>3, <2>4
<1> HIDE DEF Ok
<1>2. Bad = {}
  <2> SUFFICES ASSUME Bad # {} PROVE FALSE
    OBVIOUS
  <2>1. PICK k \in Bad : k \in Dirs => \A m \in Bad : ~Holds(k, m)
    BY EntriesAreATree
  <2>2. k \in Nodes /\ OnWay(d, k) /\ ~Ok(k)
    OBVIOUS
  <2>3. k \in Dirs => \A m \in Nodes : Holds(k, m) /\ OnWay(d, m) => Ok(m)
    BY <2>1
  <2> QED BY <1>1, <2>2, <2>3
<1>3. Ok(n)
  BY <1>2
<1> QED BY <1>3 DEF Ok, walk

\* Going up: the walk adds f unless it was lost.
LEMMA WalkUp ==
  ASSUME NEW d \in Dirs, NEW lf, NEW rf \in SUBSET Dirs, NEW f \in Files \ Special,
         Below(d, f), ~LostToLstat(d, f, lf)
  PROVE  LET walk == WalkFrom(lf, rf) IN
         f \in walk[d].added \/ (walk[d].err /\ \E r \in rf : Below(d, r))
<1> DEFINE walk == WalkFrom(lf, rf)
           Ok(k) == f \in walk[k].added \/ walk[k].err
           up == UpTo[d][f]
           C == {k \in up : Ok(k) /\ OnWay(d, k)}
<1>w. \A k \in Nodes : walk[k] = WalkOf(walk, k, lf, rf)
  BY WalkUnfolds
<1> HIDE DEF walk
<1>0. f \in Nodes /\ d \in Nodes /\ f \notin Dirs
  BY EntriesAre DEF Files
<1>1. Closed(d, f, up) /\ \A c : Closed(d, f, c) => up \subseteq c
  BY <1>0, UpToIs
<1>2. d \in up /\ \A m \in up : ~MatchFile(m)
  BY DEF Below
<1>3. \A m \in up \ {d} : \A i, j \in DOMAIN Entries[Parent(m)] :
        i <= j /\ Entries[Parent(m)][j] = m => Entries[Parent(m)][i] \notin lf
  BY DEF LostToLstat
<1>4. Ok(f) /\ OnWay(d, f) /\ f \in up
  <2>1. f \in up
    BY <1>1 DEF Closed
  <2>2. walk[f] = [added |-> Adds(f), err |-> FALSE]
    BY <1>w, <1>0, <1>2, <2>1 DEF WalkOf
  <2>3. f \in Adds(f)
    BY <1>0 DEF Adds
  <2> QED BY <1>2, <2>1, <2>2, <2>3 DEF OnWay
<1>5. ASSUME NEW m \in C \ {d, "/"} PROVE Parent(m) \in C
  <2> DEFINE p == Parent(m)
  <2>1. m \in up /\ m \in Nodes /\ m # d /\ m # "/" /\ Ok(m) /\ OnWay(d, m)
    BY <1>1 DEF Closed
  <2>2. p \in Dirs /\ Holds(p, m) /\ p \in up /\ p \in Nodes /\ ~MatchFile(p)
    <3>1. p \in Dirs /\ Holds(p, m)
      BY <2>1, ParentIs
    <3>2. p \in up
      BY <1>1, <2>1 DEF Closed
    <3> QED BY <1>2, <3>1, <3>2, EntriesAre
  <2>3. OnWay(d, p)
    <3>1. UpTo[d][m] = {m} \cup UpTo[d][p]
      BY <2>1, <2>2, UpToOfEntry
    <3>2. d \in UpTo[d][p]
      BY <2>1, <3>1 DEF OnWay
    <3>3. Closed(d, p, up)
      BY <1>1, <2>2 DEF Closed
    <3>4. UpTo[d][p] \subseteq up
      BY <2>2, <3>3, UpToIs
    <3> QED BY <1>2, <3>2, <3>4 DEF OnWay
  <2>4. Ok(p)
    <3>1. CASE p \in rf
      <4>1. walk[p] = [added |-> {}, err |-> TRUE]
        BY <1>w, <2>2, <3>1 DEF WalkOf
      <4> QED BY <4>1
    <3>2. CASE p \notin rf
      <4> DEFINE st == Stop(walk, p, lf)
                 got == Got(walk, p, lf)
      <4>1. walk[p] = [added |-> UNION {walk[Entries[p][i]].added : i \in got},
                    err |-> st # {} /\ Entries[p][Min(st)] \notin lf]
        BY <1>w, <2>2, <3>2 DEF WalkOf
      <4>2. PICK j \in DOMAIN Entries[p] : Entries[p][j] = m
        BY <2>2 DEF Holds
      <4>3. \A i \in DOMAIN Entries[p] : i <= j => Entries[p][i] \notin lf
        BY <1>3, <2>1, <4>2
      <4>4. /\ st = {} => \A i \in DOMAIN Entries[p] : Entries[p][i] \notin lf => i \in got
            /\ st # {} =>
                 /\ Min(st) \in st /\ (\A i \in st : Min(st) <= i)
                 /\ \A i \in DOMAIN Entries[p] :
                      i <= Min(st) /\ Entries[p][i] \notin lf => i \in got
        BY <2>2, GotAre
      <4>5. \A i \in DOMAIN Entries[p] : walk[Entries[p][i]].err => i \in st
        BY DEF Stop
      <4>6. DOMAIN Entries[p] \in SUBSET Nat /\ st \in SUBSET (DOMAIN Entries[p])
        <5>1. DOMAIN Entries[p] = 1 .. Len(Entries[p]) /\ Entries[p] \in Seq(Nodes)
          BY <2>2, EntriesAre
        <5> QED BY <5>1 DEF Stop
      <4> HIDE DEF st, got, p
      <4>7. CASE j \in got /\ f \in walk[m].added
        BY <4>1, <4>2, <4>7
      <4>8. CASE st # {} /\ Min(st) <= j
        <5>1. Min(st) \in DOMAIN Entries[p]
          BY <4>4, <4>6, <4>8
        <5>2. Entries[p][Min(st)] \notin lf
          BY <4>3, <4>8, <5>1
        <5> DEFINE cut == st # {} /\ Entries[p][Min(st)] \notin lf
        <5>3. cut
          BY <4>8, <5>2
        <5>4. walk[p].err = cut
          <6> HIDE DEF cut
          <6>1. walk[p] = [added |-> UNION {walk[Entries[p][i]].added : i \in got}, err |-> cut]
            BY <4>1 DEF cut
          <6> QED BY <6>1
        <5> QED BY <5>3, <5>4
      <4>9. CASE ~(st # {} /\ Min(st) <= j)
        <5>1. Entries[p][j] \notin lf /\ j \in Nat
          BY <4>2, <4>3, <4>6
        <5>2. j \in got
          <6>1. CASE st = {}
            BY <4>2, <4>4, <5>1, <6>1
          <6>2. CASE st # {}
            <7>1. Min(st) \in Nat
              BY <4>4, <4>6, <6>2
            <7> QED BY <4>2, <4>4, <4>9, <5>1, <6>2, <7>1
          <6> QED BY <6>1, <6>2
        <5>3. ~walk[m].err
          <6> SUFFICES ASSUME walk[m].err PROVE FALSE
            OBVIOUS
          <6>1. j \in st
            BY <4>2, <4>5
          <6> QED BY <4>4, <4>9, <6>1
        <5> QED BY <2>1, <4>7, <5>2, <5>3
      <4> QED BY <4>8, <4>9
    <3> QED BY <3>1, <3>2
  <2> QED BY <2>2, <2>3, <2>4
<1>6. Closed(d, f, C)
  <2>1. C \in SUBSET Nodes
    BY <1>1 DEF Closed
  <2> HIDE DEF Ok
  <2> QED BY <1>4, <1>5, <2>1 DEF Closed
<1>7. d \in C
  BY <1>1, <1>2, <1>6
<1>8. f \in walk[d].added \/ walk[d].err
  BY <1>7
<1>9. walk[d].err => \E r \in rf : Below(d, r)
  <2>1. OnWay(d, d)
    BY OnWayDown
  <2> QED BY <1>0, <2>1, WalkDown DEF walk
<1> QED BY <1>8, <1>9 DEF walk

\* Every walk of every tree, whatever fails: see WalksAreWhole (walk,
\* walker.go, with the scanner's function, index.go).
THEOREM WalksAreWholeHolds == WalksAreWhole
<1> SUFFICES ASSUME NEW d \in Dirs, NEW lf \in SUBSET Nodes, NEW rf \in SUBSET Dirs,
                    NEW f \in Files
             PROVE  LET o == Walk(d, lf, rf) IN
                    IF Below(d, f) /\ f \notin Special
                    THEN \/ f \in o.added
                         \/ LostToLstat(d, f, lf)
                         \/ o.err /\ \E r \in rf : Below(d, r)
                    ELSE f \notin o.added
  BY DEF WalksAreWhole
<1>1. CASE d \in lf
  BY <1>1 DEF Walk, LostToLstat
<1>2. CASE d \notin lf
  <2>1. Walk(d, lf, rf) = WalkFrom(lf, rf)[d]
    BY <1>2 DEF Walk
  <2>2. CASE Below(d, f) /\ f \notin Special
    <3>1. CASE ~LostToLstat(d, f, lf)
      <4>1. \/ f \in WalkFrom(lf, rf)[d].added
            \/ WalkFrom(lf, rf)[d].err /\ \E r \in rf : Below(d, r)
        BY <2>2, <3>1, WalkUp
      <4> QED BY <2>1, <2>2, <4>1
    <3> QED BY <2>2, <3>1
  <2>3. CASE ~(Below(d, f) /\ f \notin Special)
    <3>1. d \in Nodes /\ OnWay(d, d)
      BY EntriesAre, OnWayDown
    <3>2. \A g \in WalkFrom(lf, rf)[d].added : g \in Files \ Special /\ Below(d, g)
      BY <3>1, WalkDown
    <3> QED BY <2>1, <2>3, <3>2
  <2> QED BY <2>2, <2>3
<1> QED BY <1>1, <1>2

\* What Scan takes from its walks is whole, for every tree and whatever fails
\* (scan, index.go).
THEOREM ScanFindsAllHolds == Spec => []ScanFindsAll
<1>1. ScanFindsAll
  BY WalksAreWholeHolds DEF ScanFindsAll
<1> QED BY <1>1, PTL
=============================================================================
