--------------------------- MODULE SearcherProofs ---------------------------
(***************************************************************************)
(* Proofs about Searcher, for any number of searches, shards and repos,    *)
(* and, in the second half, about GrepReader, which greps one file of a    *)
(* shard.                                                                  *)
(***************************************************************************)
EXTENDS Searcher, GrepReader, SumTheorems, SequenceTheorems

\* A shard's goroutine before it starts, what one is, and the lines it found.
Grep0 == [at |-> "none", res |-> NoResult, gone |-> FALSE]
GrepType == [at : Grepping, res : Result, gone : BOOLEAN]
LinesOf(g) == [s \in Shards |-> g[s].res.lines]

\* The goroutines g of one search are running, the results of the shards in c
\* are in its channel, n more are waited for and r has those of the shards in
\* M, each counted once.
Merging(M, g, c, n, r) ==
  /\ M \subseteq Shards
  /\ \A s \in Shards : g[s].at # "none"
  /\ \A s \in M : g[s].at = "end" /\ s \notin c /\ (g[s].res.err => r.err)
  /\ \A s \in c : g[s].at = "end"
  /\ n + Cardinality(M) = Cardinality(Shards)
  /\ r.num = SumFunctionOnSet(LinesOf(g), M)

\* A search has started no goroutine yet, and may be done without; or it has
\* and is done when no result is waited for.
Phase(p, o, g, c, n, r) ==
  \/ /\ p \in {"new", "state", "drop", "done"}
     /\ g = [s \in Shards |-> Grep0] /\ c = {} /\ n = 0 /\ r.num = 0
     /\ p = "state" => o \in Objs
  \/ /\ p \in {"loop", "update", "done"} /\ o \in Objs
     /\ \E M \in SUBSET Shards : Merging(M, g, c, n, r)
     /\ p = "done" => n = 0

PhaseInv ==
  \A a \in Searches : Phase(pc[a], obj[a], gr[a], ch[a], waiting[a], resp[a])

\* Only a goroutine whose context is done reports that itself.
LateInv == \A a \in Searches, s \in Shards : gr[a][s].at = "late" => ctx[a] = "done"

\* A goroutine that found its index gone condemns the repo, first the object
\* and then what the store has.
GoneInv ==
  \A a \in Searches, s \in Shards :
    gr[a][s].gone =>
      /\ gr[a][s].at \notin {"none", "grep"}
      /\ gr[a][s].at # "mark" => gr[a][s].res.err /\ state[obj[a]] = "ERROR"
      /\ gr[a][s].at \notin {"mark", "condemn"} /\ cfg => store # obj[a]

Inv == TypeOK /\ PhaseInv /\ LateInv /\ GoneInv /\ DiesOnlyOfLateWrite
-----------------------------------------------------------------------------
\* There is a whole number of shards, one at least.
LEMMA ShardCount ==
  /\ Cardinality(Shards) \in Nat /\ Cardinality(Shards) > 0
  /\ \A M \in SUBSET Shards :
       /\ IsFiniteSet(M) /\ Cardinality(M) \in Nat
       /\ Cardinality(M) = Cardinality(Shards) => M = Shards
<1>1. \A M \in SUBSET Shards :
       /\ IsFiniteSet(M) /\ Cardinality(M) \in Nat
       /\ Cardinality(M) = Cardinality(Shards) => M = Shards
  BY ShardsAreFinite, FS_Subset, FS_CardinalityType
<1>2. Cardinality(Shards) \in Nat /\ Cardinality(Shards) # 0
  BY ShardsAreFinite, FS_CardinalityType, FS_EmptySet
<1> QED BY <1>1, <1>2

\* Every shard's result has a number of lines.
LEMMA LinesAreNat ==
  ASSUME NEW g \in [Shards -> GrepType]
  PROVE  \A s \in Shards : g[s].res.lines \in Nat /\ LinesOf(g)[s] = g[s].res.lines
BY MaxLinesIsNat DEF GrepType, Result, Lines, LinesOf

\* A goroutine whose result was not merged takes a step.
LEMMA MergingStep ==
  ASSUME NEW M \in SUBSET Shards, NEW g \in [Shards -> GrepType],
         NEW c, NEW n, NEW r, Merging(M, g, c, n, r),
         NEW s \in Shards, s \notin M, NEW x \in GrepType, x.at # "none",
         NEW d, \A t \in d : t \notin M /\ [g EXCEPT ![s] = x][t].at = "end",
         NEW q, q.num = r.num, r.err => q.err
  PROVE  Merging(M, [g EXCEPT ![s] = x], d, n, q)
<1> DEFINE h == [g EXCEPT ![s] = x]
<1>1. h \in [Shards -> GrepType] /\ \A t \in M : h[t] = g[t]
  BY DEF Merging
<1>2. SumFunctionOnSet(LinesOf(h), M) = SumFunctionOnSet(LinesOf(g), M)
  <2>1. \A t \in M : LinesOf(h)[t] = LinesOf(g)[t]
    BY <1>1 DEF LinesOf
  <2> QED BY <2>1, ShardCount, SumSame
<1>3. \A t \in Shards : h[t].at # "none"
  BY DEF Merging
<1>4. \A t \in M : h[t].at = "end" /\ t \notin d /\ (h[t].res.err => q.err)
  BY <1>1 DEF Merging
<1> HIDE DEF h
<1> QED BY <1>2, <1>3, <1>4 DEF Merging, h

\* A result is merged.
LEMMA MergingMore ==
  ASSUME NEW M \in SUBSET Shards, NEW g \in [Shards -> GrepType],
         NEW c, NEW n \in Nat, NEW r, Merging(M, g, c, n, r),
         NEW s \in Shards, g[s].at = "recv",
         NEW q, q.num = r.num + g[s].res.lines,
         r.err => q.err, g[s].res.err => q.err
  PROVE  /\ n > 0
         /\ Merging(M \cup {s}, [g EXCEPT ![s] = [g[s] EXCEPT !.at = "end"]], c, n - 1, q)
<1> DEFINE x == [g[s] EXCEPT !.at = "end"]
           h == [g EXCEPT ![s] = x]
           N == M \cup {s}
<1>1. s \notin M /\ s \notin c
  BY DEF Merging
<1>2. x.at = "end" /\ x.res = g[s].res /\ x \in GrepType
  BY DEF GrepType, Grepping
<1>3. h \in [Shards -> GrepType] /\ h[s] = x /\ \A t \in Shards \ {s} : h[t] = g[t]
  BY <1>2
<1>4. N \in SUBSET Shards /\ Cardinality(N) = Cardinality(M) + 1
  BY <1>1, ShardCount, FS_AddElement
<1>5. Cardinality(N) <= Cardinality(Shards)
  BY <1>4, ShardsAreFinite, FS_Subset
<1>6. n + Cardinality(M) = Cardinality(Shards) /\ Cardinality(M) \in Nat
  BY ShardCount DEF Merging
<1>7. n > 0 /\ (n - 1) + Cardinality(N) = Cardinality(Shards)
  BY <1>4, <1>5, <1>6, ShardCount
<1>8. q.num = SumFunctionOnSet(LinesOf(h), N)
  <2>1. \A t \in Shards : LinesOf(h)[t] = LinesOf(g)[t] /\ LinesOf(g)[t] \in Nat
    BY <1>2, <1>3, LinesAreNat DEF LinesOf
  <2>2. SumFunctionOnSet(LinesOf(h), N) = SumFunctionOnSet(LinesOf(g), N)
    BY <1>4, <2>1, ShardCount, SumSame
  <2>3. SumFunctionOnSet(LinesOf(g), N) = LinesOf(g)[s] + SumFunctionOnSet(LinesOf(g), M)
    BY <1>1, <2>1, ShardCount, SumAdd
  <2>4. SumFunctionOnSet(LinesOf(g), M) \in Nat
    BY <2>1, ShardCount, SumType
  <2>5. r.num = SumFunctionOnSet(LinesOf(g), M) /\ LinesOf(g)[s] = g[s].res.lines
    BY LinesAreNat DEF Merging
  <2> QED BY <2>1, <2>2, <2>3, <2>4, <2>5
<1>9. \A t \in Shards : h[t].at # "none"
  BY <1>2, <1>3 DEF Merging
<1>10. \A t \in N : h[t].at = "end" /\ t \notin c /\ (h[t].res.err => q.err)
  BY <1>1, <1>2, <1>3 DEF Merging
<1>11. \A t \in c : h[t].at = "end"
  BY <1>1, <1>3 DEF Merging
<1> HIDE DEF h, N
<1>12. Merging(N, h, c, n - 1, q)
  BY <1>4, <1>7, <1>8, <1>9, <1>10, <1>11 DEF Merging
<1> QED BY <1>7, <1>12 DEF h, N

\* The goroutines are started.
LEMMA MergingStarts ==
  ASSUME NEW r, r.num = 0,
         NEW h, h = [s \in Shards |-> [Grep0 EXCEPT !.at = "grep"]]
  PROVE  Merging({}, h, {}, Cardinality(Shards), r)
<1>1. Cardinality({}) = 0 /\ SumFunctionOnSet(LinesOf(h), {}) = 0
  BY FS_EmptySet, SumEmpty
<1>2. \A s \in Shards : h[s].at = "grep"
  BY DEF Grep0
<1> QED BY <1>1, <1>2, ShardCount DEF Merging
-----------------------------------------------------------------------------
\* Nothing of any search but a changes.
OnlyOf(a) ==
  \A b \in Searches \ {a} :
    /\ pc'[b] = pc[b] /\ obj'[b] = obj[b] /\ gr'[b] = gr[b]
    /\ ch'[b] = ch[b] /\ waiting'[b] = waiting[b] /\ resp'[b] = resp[b]

\* A step of one search leaves the others in their phases.
LEMMA PhaseOfOne ==
  ASSUME PhaseInv, NEW a \in Searches, OnlyOf(a),
         Phase(pc'[a], obj'[a], gr'[a], ch'[a], waiting'[a], resp'[a])
  PROVE  PhaseInv'
BY DEF PhaseInv, OnlyOf

\* A search that has goroutines keeps them while it takes no step itself.
LEMMA ShardPhase ==
  ASSUME TypeOK, PhaseInv, NEW a \in Searches, NEW s \in Shards,
         gr[a][s].at \notin {"none", "end"},
         NEW x \in GrepType, x.at # "none", gr'[a] = [gr[a] EXCEPT ![s] = x],
         UNCHANGED <<pc, obj, waiting>>,
         ch'[a] = ch[a] \/ (ch'[a] = ch[a] \cup {s} /\ x.at = "end"),
         resp'[a].num = resp[a].num, resp[a].err => resp'[a].err
  PROVE  Phase(pc'[a], obj'[a], gr'[a], ch'[a], waiting'[a], resp'[a])
         /\ pc[a] \in {"loop", "update"} /\ obj[a] \in Objs
<1>1. gr[a] \in [Shards -> GrepType]
  BY DEF TypeOK, GrepType
<1>2. gr[a] # [t \in Shards |-> Grep0]
  BY DEF Grep0
<1>3. pc[a] \in {"loop", "update", "done"} /\ obj[a] \in Objs /\ (pc[a] = "done" => waiting[a] = 0)
      /\ \E M \in SUBSET Shards : Merging(M, gr[a], ch[a], waiting[a], resp[a])
  BY <1>2 DEF PhaseInv, Phase
<1> PICK M \in SUBSET Shards : Merging(M, gr[a], ch[a], waiting[a], resp[a])
  BY <1>3
<1>4. s \notin M
  BY DEF Merging
<1>5. \A t \in ch'[a] : t \notin M /\ [gr[a] EXCEPT ![s] = x][t].at = "end"
  <2>1. \A t \in ch[a] : t \in Shards /\ t # s /\ t \notin M /\ gr[a][t].at = "end"
    BY DEF Merging, TypeOK
  <2> QED BY <1>1, <1>4, <2>1
<1>6. Merging(M, gr'[a], ch'[a], waiting'[a], resp'[a])
  BY <1>1, <1>4, <1>5, MergingStep
<1>7. pc[a] # "done"
  <2> SUFFICES ASSUME pc[a] = "done" PROVE FALSE
    OBVIOUS
  <2>1. 0 + Cardinality(M) = Cardinality(Shards)
    BY <1>3 DEF Merging
  <2>2. M = Shards
    BY <2>1, ShardCount
  <2> QED BY <1>4, <2>2
<1> QED BY <1>3, <1>6, <1>7 DEF Phase

\* What a goroutine that goes on to l keeps, and one that marks its result.
LEMMA Moved ==
  ASSUME NEW x \in GrepType, NEW l \in Grepping
  PROVE  LET y == [x EXCEPT !.at = l]
         IN  y \in GrepType /\ y.at = l /\ y.res = x.res /\ y.gone = x.gone
BY DEF GrepType

\* A result that is marked as an error is one.
LEMMA Marked ==
  ASSUME NEW x \in GrepType
  PROVE  LET y == [x EXCEPT !.at = "condemn", !.res.err = TRUE]
         IN  y \in GrepType /\ y.at = "condemn" /\ y.res.err
<1> DEFINE y == [x EXCEPT !.at = "condemn", !.res.err = TRUE]
<1>1. y \in GrepType /\ y.at = "condemn" /\ y.res = [x.res EXCEPT !.err = TRUE]
  BY DEF GrepType, Grepping, Result
<1>2. [x.res EXCEPT !.err = TRUE] \in Result /\ [x.res EXCEPT !.err = TRUE].err
  BY DEF GrepType, Result
<1> HIDE DEF y
<1>3. y \in GrepType /\ y.at = "condemn" /\ y.res.err
  BY <1>1, <1>2 DEF GrepType
<1> QED BY <1>3 DEF y

\* What SetError does to the result of one search.
LEMMA ErrorSet ==
  ASSUME TypeOK, NEW a \in Searches, SetError(a)
  PROVE  /\ resp' \in [Searches -> Resp]
         /\ resp'[a].num = resp[a].num /\ resp'[a].err
         /\ \A b \in Searches \ {a} : resp'[b] = resp[b]
<1>1. resp[a] \in Resp /\ resp \in [Searches -> Resp]
  BY DEF TypeOK
<1>2. LET y == [resp[a] EXCEPT !.err = TRUE]
      IN  y \in Resp /\ y.num = resp[a].num /\ y.err
  BY <1>1 DEF Resp
<1>3. resp' = [resp EXCEPT ![a] = [resp[a] EXCEPT !.err = TRUE]]
  BY DEF SetError
<1> QED BY <1>1, <1>2, <1>3

\* A search has found its repo before it starts a goroutine.
LEMMA HasObj ==
  ASSUME PhaseInv
  PROVE  \A a \in Searches, s \in Shards : gr[a][s].at # "none" => obj[a] \in Objs
<1> SUFFICES ASSUME NEW a \in Searches, NEW s \in Shards, gr[a][s].at # "none"
             PROVE  obj[a] \in Objs
  OBVIOUS
<1>1. gr[a] # [t \in Shards |-> Grep0]
  BY DEF Grep0
<1> QED BY <1>1 DEF PhaseInv, Phase

\* A step of the goroutine of shard s of search a, to x, which at most puts
\* its result in the channel, sets the error of the search, an object in
\* error, and the store to nothing or, where that is not asked for, something.
LEMMA ShardKeeps ==
  ASSUME Inv, NEW a \in Searches, NEW s \in Shards,
         gr[a][s].at \notin {"none", "end"},
         NEW x \in GrepType, x.at # "none",
         gr' = [gr EXCEPT ![a] = [gr[a] EXCEPT ![s] = x]],
         UNCHANGED <<cfg, pc, obj, ctx, waiting>>,
         \A b \in Searches \ {a} : ch'[b] = ch[b] /\ resp'[b] = resp[b],
         ch'[a] = ch[a] \/ (ch'[a] = ch[a] \cup {s} /\ x.at = "end"),
         resp'[a].num = resp[a].num, resp[a].err => resp'[a].err,
         \A o \in Objs : state[o] = "ERROR" => state'[o] = "ERROR",
         store' = store \/ store' = NoObj \/ ~cfg,
         x.at = "late" => ctx[a] = "done",
         x.gone =>
           /\ x.at # "grep"
           /\ x.at # "mark" => x.res.err /\ state'[obj[a]] = "ERROR"
           /\ x.at \notin {"mark", "condemn"} /\ cfg => store' # obj[a]
  PROVE  /\ PhaseInv' /\ LateInv' /\ GoneInv'
         /\ gr' \in [Searches -> [Shards -> [at : Grepping, res : Result, gone : BOOLEAN]]]
         /\ pc[a] # "done" /\ obj[a] \in Objs
<1>1. gr \in [Searches -> [Shards -> GrepType]]
  BY DEF Inv, TypeOK, GrepType
<1>2. /\ gr' \in [Searches -> [Shards -> GrepType]]
      /\ gr'[a] = [gr[a] EXCEPT ![s] = x] /\ gr'[a][s] = x
      /\ \A b \in Searches \ {a} : gr'[b] = gr[b]
      /\ \A t \in Shards \ {s} : gr'[a][t] = gr[a][t]
  BY <1>1
<1>3. Phase(pc'[a], obj'[a], gr'[a], ch'[a], waiting'[a], resp'[a])
      /\ pc[a] \in {"loop", "update"} /\ obj[a] \in Objs
  BY <1>2, ShardPhase DEF Inv
<1>4. PhaseInv'
  <2>1. OnlyOf(a)
    BY <1>2 DEF OnlyOf
  <2> QED BY <1>3, <2>1, PhaseOfOne DEF Inv
<1>5. LateInv'
  BY <1>2 DEF LateInv, Inv
<1>6. GoneInv'
  <2> SUFFICES ASSUME NEW b \in Searches, NEW t \in Shards, gr'[b][t].gone
               PROVE  /\ gr'[b][t].at \notin {"none", "grep"}
                      /\ gr'[b][t].at # "mark" => gr'[b][t].res.err /\ state'[obj[b]] = "ERROR"
                      /\ gr'[b][t].at \notin {"mark", "condemn"} /\ cfg => store' # obj[b]
    BY DEF GoneInv
  <2>1. CASE b = a /\ t = s
    BY <1>2, <2>1
  <2>2. CASE ~(b = a /\ t = s)
    <3>1. gr'[b][t] = gr[b][t]
      BY <1>2, <2>2
    <3>2. obj[b] \in Objs /\ obj[b] # NoObj
      BY <3>1, HasObj, NoObjIsNone DEF Inv, GoneInv
    <3> QED BY <3>1, <3>2 DEF Inv, GoneInv
  <2> QED BY <2>1, <2>2
<1> QED BY <1>2, <1>3, <1>4, <1>5, <1>6 DEF GrepType

\* Every step of a search, of its goroutines, of a user or of an indexer
\* keeps Inv.
LEMMA InvInductive == Inv /\ [Next]_vars => Inv'
<1> SUFFICES ASSUME Inv, [Next]_vars PROVE Inv'
  OBVIOUS
<1> USE DEF Inv
<1>t. /\ gr \in [Searches -> [Shards -> GrepType]]
      /\ \A a \in Searches : resp[a] \in Resp /\ waiting[a] \in Nat /\ ch[a] \subseteq Shards
      /\ \A a \in Searches : pc[a] \in {"new", "state", "drop"} =>
           /\ gr[a] = [s \in Shards |-> Grep0] /\ ch[a] = {} /\ waiting[a] = 0
           /\ resp[a].num = 0 /\ (pc[a] = "state" => obj[a] \in Objs)
           /\ \A s \in Shards : gr[a][s].at = "none" /\ ~gr[a][s].gone
  <2>1. gr \in [Searches -> [Shards -> GrepType]]
    BY DEF TypeOK, GrepType
  <2>2. \A a \in Searches : resp[a] \in Resp /\ waiting[a] \in Nat /\ ch[a] \subseteq Shards
    BY ShardCount DEF TypeOK
  <2>3. \A a \in Searches : pc[a] \in {"new", "state", "drop"} =>
           /\ gr[a] = [s \in Shards |-> Grep0] /\ ch[a] = {} /\ waiting[a] = 0
           /\ resp[a].num = 0 /\ (pc[a] = "state" => obj[a] \in Objs)
    BY DEF PhaseInv, Phase
  <2>4. [s \in Shards |-> Grep0] \in [Shards -> GrepType] /\ Grep0.at = "none" /\ ~Grep0.gone
    BY MaxLinesIsNat DEF Grep0, GrepType, Grepping, NoResult, Result, Lines
  <2> QED BY <2>1, <2>2, <2>3, <2>4
<1>1. ASSUME NEW a \in Searches, GetNothing(a) \/ StateBad(a) PROVE Inv'
  <2>1. TypeOK'
    <3>1. resp' \in [Searches -> Resp]
      BY <1>1, ErrorSet DEF GetNothing, StateBad
    <3>2. pc' \in [Searches -> {"new", "state", "drop", "loop", "update", "done"}]
      BY <1>1 DEF TypeOK, GetNothing, StateBad, Goto
    <3> QED BY <1>1, <3>1, <3>2 DEF TypeOK, GetNothing, StateBad, repoVars
  <2>2. PhaseInv'
    <3>1. OnlyOf(a) /\ resp'[a].num = resp[a].num
      BY <1>1, <1>t DEF OnlyOf, GetNothing, StateBad, SetError, Goto, TypeOK, Resp
    <3>2. Phase(pc'[a], obj'[a], gr'[a], ch'[a], waiting'[a], resp'[a])
      BY <1>1, <1>t, <3>1 DEF Phase, GetNothing, StateBad, Goto, TypeOK
    <3> QED BY <3>1, <3>2, PhaseOfOne
  <2>3. LateInv' /\ GoneInv' /\ DiesOnlyOfLateWrite'
    BY <1>1 DEF GetNothing, StateBad, repoVars, LateInv, GoneInv, DiesOnlyOfLateWrite, Up
  <2> QED BY <2>1, <2>2, <2>3
<1>2. ASSUME NEW a \in Searches, GetRepo(a) PROVE Inv'
  <2>1. TypeOK'
    BY <1>2 DEF TypeOK, GetRepo, Goto, repoVars
  <2>2. PhaseInv'
    <3>1. OnlyOf(a) /\ obj'[a] \in Objs
      BY <1>2 DEF OnlyOf, GetRepo, Goto, TypeOK
    <3>2. Phase(pc'[a], obj'[a], gr'[a], ch'[a], waiting'[a], resp'[a])
      BY <1>2, <1>t, <3>1 DEF Phase, GetRepo, Goto, TypeOK
    <3> QED BY <3>1, <3>2, PhaseOfOne
  <2>3. LateInv' /\ DiesOnlyOfLateWrite'
    BY <1>2 DEF GetRepo, LateInv, DiesOnlyOfLateWrite, Up
  <2>4. GoneInv'
    BY <1>2, <1>t DEF GetRepo, repoVars, GoneInv, TypeOK
  <2> QED BY <2>1, <2>2, <2>3, <2>4
<1>3. ASSUME NEW a \in Searches, StateIndexing(a) \/ Drop(a) PROVE Inv'
  <2>1. TypeOK'
    BY <1>3 DEF TypeOK, StateIndexing, Drop, Goto, repoVars
  <2>2. PhaseInv'
    <3>1. OnlyOf(a)
      BY <1>3 DEF OnlyOf, StateIndexing, Drop, Goto, TypeOK
    <3>2. Phase(pc'[a], obj'[a], gr'[a], ch'[a], waiting'[a], resp'[a])
      BY <1>3, <1>t, <3>1 DEF Phase, StateIndexing, Drop, Goto, TypeOK
    <3> QED BY <3>1, <3>2, PhaseOfOne
  <2>3. LateInv' /\ DiesOnlyOfLateWrite'
    BY <1>3 DEF StateIndexing, Drop, LateInv, DiesOnlyOfLateWrite, Up
  <2>4. GoneInv'
    <3>1. \A b \in Searches, s \in Shards : gr[b][s].gone => obj[b] # NoObj
      BY HasObj, NoObjIsNone DEF GoneInv
    <3> QED BY <1>3, <3>1 DEF StateIndexing, Drop, repoVars, GoneInv
  <2> QED BY <2>1, <2>2, <2>3, <2>4
<1>4. ASSUME NEW a \in Searches, StartShards(a) PROVE Inv'
  <2> DEFINE h == [s \in Shards |-> [Grep0 EXCEPT !.at = "grep"]]
  <2>0. h \in [Shards -> GrepType] /\ \A s \in Shards : h[s].at = "grep" /\ ~h[s].gone
    <3>1. Grep0 \in GrepType /\ ~Grep0.gone
      BY MaxLinesIsNat DEF Grep0, GrepType, Grepping, NoResult, Result, Lines
    <3>2. [Grep0 EXCEPT !.at = "grep"] \in GrepType
          /\ [Grep0 EXCEPT !.at = "grep"].at = "grep" /\ ~[Grep0 EXCEPT !.at = "grep"].gone
      BY <3>1 DEF GrepType, Grepping
    <3> QED BY <3>2
  <2>1. gr' = [gr EXCEPT ![a] = h]
    <3>1. \A s \in Shards : [gr[a][s] EXCEPT !.at = "grep"] = h[s]
      BY <1>4, <1>t DEF StartShards
    <3>2. [s \in Shards |-> [gr[a][s] EXCEPT !.at = "grep"]] = h
      BY <3>1
    <3> QED BY <1>4, <1>t, <3>2 DEF StartShards
  <2>2. TypeOK'
    <3>1. gr' \in [Searches -> [Shards -> GrepType]]
      BY <1>t, <2>0, <2>1
    <3> QED BY <1>4, <3>1, ShardCount DEF TypeOK, StartShards, Goto, repoVars, GrepType
  <2>3. PhaseInv'
    <3>1. OnlyOf(a) /\ gr'[a] = h
      BY <1>4, <1>t, <2>1 DEF OnlyOf, StartShards, Goto, TypeOK
    <3>2. pc'[a] = "loop" /\ waiting'[a] = Cardinality(Shards) /\ ch'[a] = {}
          /\ resp'[a].num = 0 /\ obj'[a] \in Objs
      BY <1>4, <1>t DEF StartShards, Goto, TypeOK
    <3>3. Merging({}, gr'[a], ch'[a], waiting'[a], resp'[a])
      BY <3>1, <3>2, MergingStarts
    <3>4. Phase(pc'[a], obj'[a], gr'[a], ch'[a], waiting'[a], resp'[a])
      BY <3>2, <3>3 DEF Phase
    <3> QED BY <3>1, <3>4, PhaseOfOne
  <2>4. LateInv' /\ DiesOnlyOfLateWrite'
    BY <1>4, <1>t, <2>0, <2>1 DEF StartShards, LateInv, DiesOnlyOfLateWrite, Up
  <2>5. GoneInv'
    BY <1>4, <1>t, <2>0, <2>1 DEF StartShards, repoVars, GoneInv
  <2> QED BY <2>2, <2>3, <2>4, <2>5
<1>s. ASSUME NEW a \in Searches, NEW s \in Shards
      PROVE  /\ gr[a] \in [Shards -> GrepType] /\ gr[a][s] \in GrepType
             /\ \A l : GrepGoto(a, s, l) =>
                  gr' = [gr EXCEPT ![a] = [gr[a] EXCEPT ![s] = [gr[a][s] EXCEPT !.at = l]]]
  <2>1. gr[a] \in [Shards -> GrepType] /\ gr[a][s] \in GrepType
    BY <1>t
  <2>2. ASSUME NEW l, GrepGoto(a, s, l)
        PROVE gr' = [gr EXCEPT ![a] = [gr[a] EXCEPT ![s] = [gr[a][s] EXCEPT !.at = l]]]
    BY <2>2, <1>t DEF GrepGoto
  <2> QED BY <2>1, <2>2
<1>5. ASSUME NEW a \in Searches, NEW s \in Shards, NEW res \in Result, Grep(a, s, res)
      PROVE  Inv'
  <2> DEFINE x == [at |-> "check", res |-> res, gone |-> FALSE]
  <2>1. x \in GrepType /\ x.at = "check" /\ ~x.gone
    BY DEF GrepType, Grepping
  <2>2. gr' = [gr EXCEPT ![a] = [gr[a] EXCEPT ![s] = x]]
    BY <1>5, <1>t DEF Grep
  <2> HIDE DEF x
  <2>3. UNCHANGED <<cfg, store, state, pc, obj, ctx, resp, waiting, ch, down>> /\ gr[a][s].at = "grep"
    BY <1>5 DEF Grep, repoVars, mainVars
  <2>4. PhaseInv' /\ LateInv' /\ GoneInv'
        /\ gr' \in [Searches -> [Shards -> [at : Grepping, res : Result, gone : BOOLEAN]]]
    BY <2>1, <2>2, <2>3, ShardKeeps
  <2>5. TypeOK' /\ DiesOnlyOfLateWrite'
    BY <2>3, <2>4 DEF TypeOK, DiesOnlyOfLateWrite, Up
  <2> QED BY <2>4, <2>5
<1>6. ASSUME NEW a \in Searches, NEW s \in Shards, GrepGone(a, s) PROVE Inv'
  <2> DEFINE x == [at |-> "mark", res |-> NoResult, gone |-> TRUE]
  <2>1. x \in GrepType /\ x.at = "mark"
    BY MaxLinesIsNat DEF GrepType, Grepping, NoResult, Result, Lines
  <2>2. gr' = [gr EXCEPT ![a] = [gr[a] EXCEPT ![s] = x]]
    BY <1>6, <1>t DEF GrepGone
  <2> HIDE DEF x
  <2>3. UNCHANGED <<cfg, store, state, pc, obj, ctx, resp, waiting, ch, down>> /\ gr[a][s].at = "grep"
    BY <1>6 DEF GrepGone, repoVars, mainVars
  <2>4. PhaseInv' /\ LateInv' /\ GoneInv'
        /\ gr' \in [Searches -> [Shards -> [at : Grepping, res : Result, gone : BOOLEAN]]]
    BY <2>1, <2>2, <2>3, ShardKeeps
  <2>5. TypeOK' /\ DiesOnlyOfLateWrite'
    BY <2>3, <2>4 DEF TypeOK, DiesOnlyOfLateWrite, Up
  <2> QED BY <2>4, <2>5
<1>7. ASSUME NEW a \in Searches, NEW s \in Shards, MarkBad(a, s) PROVE Inv'
  <2> DEFINE x == [gr[a][s] EXCEPT !.at = "condemn", !.res.err = TRUE]
  <2>1. x \in GrepType /\ x.at = "condemn" /\ x.res.err
    BY <1>s, Marked
  <2>2. gr' = [gr EXCEPT ![a] = [gr[a] EXCEPT ![s] = x]]
    BY <1>7, <1>t DEF MarkBad
  <2> HIDE DEF x
  <2>3. UNCHANGED <<cfg, store, pc, obj, ctx, resp, waiting, ch, down>> /\ gr[a][s].at = "mark"
    BY <1>7 DEF MarkBad, mainVars
  <2>4. obj[a] \in Objs
    BY <2>3, HasObj
  <2>5. /\ state' \in [Objs -> {"unused", "OK", "INDEXING", "ERROR"}]
        /\ state'[obj[a]] = "ERROR"
        /\ \A o \in Objs : state[o] = "ERROR" => state'[o] = "ERROR"
    BY <1>7, <2>4 DEF MarkBad, TypeOK
  <2>6. PhaseInv' /\ LateInv' /\ GoneInv'
        /\ gr' \in [Searches -> [Shards -> [at : Grepping, res : Result, gone : BOOLEAN]]]
    BY <2>1, <2>2, <2>3, <2>5, ShardKeeps
  <2>7. TypeOK' /\ DiesOnlyOfLateWrite'
    BY <2>3, <2>5, <2>6 DEF TypeOK, DiesOnlyOfLateWrite, Up
  <2> QED BY <2>6, <2>7
<1>8. ASSUME NEW a \in Searches, NEW s \in Shards, Condemn(a, s) PROVE Inv'
  <2> DEFINE x == [gr[a][s] EXCEPT !.at = "check"]
  <2>1. x \in GrepType /\ x.at = "check" /\ x.res = gr[a][s].res /\ x.gone = gr[a][s].gone
        /\ gr' = [gr EXCEPT ![a] = [gr[a] EXCEPT ![s] = x]]
    <3>1. "check" \in Grepping /\ GrepGoto(a, s, "check")
      BY <1>8 DEF Grepping, Condemn
    <3> QED BY <1>s, <3>1, Moved
  <2> HIDE DEF x
  <2>2. UNCHANGED <<cfg, state, pc, obj, ctx, resp, waiting, ch, down>> /\ gr[a][s].at = "condemn"
    BY <1>8 DEF Condemn, mainVars
  <2>3. obj[a] \in Objs /\ obj[a] # NoObj
    BY <2>2, HasObj, NoObjIsNone
  <2>4. store' = IF cfg THEN NoObj ELSE obj[a]
    BY <1>8 DEF Condemn
  <2>5. x.gone => x.res.err /\ state'[obj[a]] = "ERROR" /\ (cfg => store' # obj[a])
    BY <2>1, <2>2, <2>3, <2>4 DEF GoneInv
  <2>6. PhaseInv' /\ LateInv' /\ GoneInv'
        /\ gr' \in [Searches -> [Shards -> [at : Grepping, res : Result, gone : BOOLEAN]]]
    BY <2>1, <2>2, <2>4, <2>5, ShardKeeps
  <2>7. TypeOK' /\ DiesOnlyOfLateWrite'
    BY <2>2, <2>3, <2>4, <2>6 DEF TypeOK, DiesOnlyOfLateWrite, Up
  <2> QED BY <2>6, <2>7
<1>9. ASSUME NEW a \in Searches, NEW s \in Shards, Check(a, s) PROVE Inv'
  <2> DEFINE l == IF ctx[a] = "done" THEN "late" ELSE "send"
             x == [gr[a][s] EXCEPT !.at = l]
  <2>1. x \in GrepType /\ x.at = l /\ x.res = gr[a][s].res /\ x.gone = gr[a][s].gone
        /\ gr' = [gr EXCEPT ![a] = [gr[a] EXCEPT ![s] = x]]
    <3>1. l \in Grepping /\ GrepGoto(a, s, l)
      BY <1>9 DEF Grepping, Check
    <3> HIDE DEF l
    <3> QED BY <1>s, <3>1, Moved
  <2> HIDE DEF x
  <2>2. UNCHANGED <<cfg, store, state, pc, obj, ctx, resp, waiting, ch, down>> /\ gr[a][s].at = "check"
    BY <1>9 DEF Check, repoVars, mainVars
  <2>3. x.gone => x.res.err /\ state'[obj[a]] = "ERROR" /\ (cfg => store' # obj[a])
    BY <2>1, <2>2 DEF GoneInv
  <2>4. PhaseInv' /\ LateInv' /\ GoneInv'
        /\ gr' \in [Searches -> [Shards -> [at : Grepping, res : Result, gone : BOOLEAN]]]
    BY <2>1, <2>2, <2>3, ShardKeeps
  <2>5. TypeOK' /\ DiesOnlyOfLateWrite'
    BY <2>2, <2>4 DEF TypeOK, DiesOnlyOfLateWrite, Up
  <2> QED BY <2>4, <2>5
<1>10. ASSUME NEW a \in Searches, NEW s \in Shards, ReportLate(a, s) PROVE Inv'
  <2> DEFINE x == [gr[a][s] EXCEPT !.at = "end"]
  <2>1. x \in GrepType /\ x.at = "end" /\ x.res = gr[a][s].res /\ x.gone = gr[a][s].gone
        /\ gr' = [gr EXCEPT ![a] = [gr[a] EXCEPT ![s] = x]]
    <3>1. "end" \in Grepping /\ GrepGoto(a, s, "end")
      BY <1>10 DEF Grepping, ReportLate
    <3> QED BY <1>s, <3>1, Moved
  <2> HIDE DEF x
  <2>2. UNCHANGED <<cfg, store, state, pc, obj, ctx, waiting, ch, down>> /\ gr[a][s].at = "late"
    BY <1>10 DEF ReportLate, repoVars
  <2>3. /\ resp' \in [Searches -> Resp]
        /\ resp'[a].num = resp[a].num /\ resp'[a].err
        /\ \A b \in Searches \ {a} : resp'[b] = resp[b]
    BY <1>10, ErrorSet DEF ReportLate
  <2>4. x.gone => x.res.err /\ state'[obj[a]] = "ERROR" /\ (cfg => store' # obj[a])
    BY <2>1, <2>2 DEF GoneInv
  <2>5. PhaseInv' /\ LateInv' /\ GoneInv'
        /\ gr' \in [Searches -> [Shards -> [at : Grepping, res : Result, gone : BOOLEAN]]]
    BY <2>1, <2>2, <2>3, <2>4, ShardKeeps
  <2>6. TypeOK' /\ DiesOnlyOfLateWrite'
    BY <2>2, <2>3, <2>5 DEF TypeOK, DiesOnlyOfLateWrite, Up
  <2> QED BY <2>5, <2>6
<1>11. ASSUME NEW a \in Searches, NEW s \in Shards, Race(a, s) PROVE Inv'
  <2>1. UNCHANGED <<cfg, store, state, pc, obj, ctx, resp, waiting, ch, gr>>
        /\ gr[a][s].at = "late" /\ down' = "race"
    BY <1>11 DEF Race, repoVars, mainVars
  <2> QED BY <2>1 DEF TypeOK, PhaseInv, LateInv, GoneInv, DiesOnlyOfLateWrite, Up
<1>12. ASSUME NEW a \in Searches, NEW s \in Shards, Send(a, s) PROVE Inv'
  <2> DEFINE x == [gr[a][s] EXCEPT !.at = "end"]
  <2>1. x \in GrepType /\ x.at = "end" /\ x.res = gr[a][s].res /\ x.gone = gr[a][s].gone
        /\ gr' = [gr EXCEPT ![a] = [gr[a] EXCEPT ![s] = x]]
    <3>1. "end" \in Grepping /\ GrepGoto(a, s, "end")
      BY <1>12 DEF Grepping, Send
    <3> QED BY <1>s, <3>1, Moved
  <2> HIDE DEF x
  <2>2. UNCHANGED <<cfg, store, state, pc, obj, ctx, resp, waiting>> /\ gr[a][s].at = "send"
    BY <1>12 DEF Send, repoVars
  <2>3. /\ ch' \in [Searches -> SUBSET Shards]
        /\ ch'[a] = ch[a] \/ ch'[a] = ch[a] \cup {s}
        /\ \A b \in Searches \ {a} : ch'[b] = ch[b]
        /\ pc[a] # "done" => UNCHANGED down
    <3>1. ch' = ch \/ (ch' = [ch EXCEPT ![a] = ch[a] \cup {s}] /\ UNCHANGED down)
      BY <1>12 DEF Send
    <3>2. pc[a] # "done" => UNCHANGED down
      BY <1>12 DEF Send
    <3>3. ch \in [Searches -> SUBSET Shards]
      BY DEF TypeOK
    <3> QED BY <3>1, <3>2, <3>3
  <2>4. x.gone => x.res.err /\ state'[obj[a]] = "ERROR" /\ (cfg => store' # obj[a])
    BY <2>1, <2>2 DEF GoneInv
  <2>5. PhaseInv' /\ LateInv' /\ GoneInv' /\ pc[a] # "done"
        /\ gr' \in [Searches -> [Shards -> [at : Grepping, res : Result, gone : BOOLEAN]]]
    BY <2>1, <2>2, <2>3, <2>4, ShardKeeps
  <2>6. TypeOK' /\ DiesOnlyOfLateWrite'
    BY <2>2, <2>3, <2>5 DEF TypeOK, DiesOnlyOfLateWrite, Up
  <2> QED BY <2>5, <2>6
<1>13. ASSUME NEW a \in Searches, NEW s \in Shards, Receive(a, s) PROVE Inv'
  <2> DEFINE x == [gr[a][s] EXCEPT !.at = "recv"]
  <2>1. x \in GrepType /\ x.at = "recv" /\ x.res = gr[a][s].res /\ x.gone = gr[a][s].gone
        /\ gr' = [gr EXCEPT ![a] = [gr[a] EXCEPT ![s] = x]]
    <3>1. "recv" \in Grepping /\ GrepGoto(a, s, "recv")
      BY <1>13 DEF Grepping, Receive
    <3> QED BY <1>s, <3>1, Moved
  <2> HIDE DEF x
  <2>2. UNCHANGED <<cfg, store, state, obj, ctx, resp, waiting, down>>
        /\ s \in ch[a] /\ pc[a] = "loop"
    BY <1>13 DEF Receive, repoVars
  <2>3. /\ pc' \in [Searches -> {"new", "state", "drop", "loop", "update", "done"}]
        /\ pc'[a] = "update"
        /\ ch' \in [Searches -> SUBSET Shards] /\ ch'[a] = ch[a] \ {s}
        /\ \A b \in Searches \ {a} : ch'[b] = ch[b] /\ pc'[b] = pc[b]
    BY <1>13 DEF Receive, Goto, TypeOK
  <2>4. /\ gr' \in [Searches -> [Shards -> GrepType]]
        /\ gr'[a] = [gr[a] EXCEPT ![s] = x] /\ gr'[a][s] = x
        /\ \A b \in Searches \ {a} : gr'[b] = gr[b]
        /\ \A t \in Shards \ {s} : gr'[a][t] = gr[a][t]
    BY <1>t, <1>s, <2>1
  <2>5. TypeOK'
    BY <2>2, <2>3, <2>4 DEF TypeOK, GrepType
  <2>6. PICK M \in SUBSET Shards : Merging(M, gr[a], ch[a], waiting[a], resp[a])
    BY <2>2 DEF PhaseInv, Phase
  <2>7. obj[a] \in Objs /\ gr[a][s].at = "end" /\ s \notin M
    BY <2>2, <2>6 DEF PhaseInv, Phase, Merging
  <2>8. \A t \in ch'[a] : t \notin M /\ [gr[a] EXCEPT ![s] = x][t].at = "end"
    <3>1. \A t \in ch'[a] : t \in Shards /\ t # s /\ t \notin M /\ gr[a][t].at = "end"
      BY <1>t, <2>3, <2>6 DEF Merging
    <3> QED BY <2>4, <3>1
  <2>9. Merging(M, gr'[a], ch'[a], waiting'[a], resp'[a])
    BY <1>s, <2>1, <2>2, <2>4, <2>6, <2>7, <2>8, MergingStep
  <2>10. PhaseInv'
    <3>1. OnlyOf(a)
      BY <2>2, <2>3, <2>4 DEF OnlyOf
    <3>2. Phase(pc'[a], obj'[a], gr'[a], ch'[a], waiting'[a], resp'[a])
      BY <2>2, <2>3, <2>7, <2>9 DEF Phase
    <3> QED BY <3>1, <3>2, PhaseOfOne
  <2>11. LateInv' /\ DiesOnlyOfLateWrite'
    BY <2>1, <2>2, <2>4 DEF LateInv, DiesOnlyOfLateWrite, Up
  <2>12. GoneInv'
    BY <2>1, <2>2, <2>4, <2>7 DEF GoneInv
  <2> QED BY <2>5, <2>10, <2>11, <2>12
<1>14. ASSUME NEW a \in Searches, NEW s \in Shards, Update(a, s) PROVE Inv'
  <2> DEFINE x == [gr[a][s] EXCEPT !.at = "end"]
             q == [num |-> resp[a].num + gr[a][s].res.lines,
                   err |-> resp[a].err \/ gr[a][s].res.err]
  <2>1. x \in GrepType /\ x.at = "end" /\ x.res = gr[a][s].res /\ x.gone = gr[a][s].gone
        /\ gr' = [gr EXCEPT ![a] = [gr[a] EXCEPT ![s] = x]]
    <3>1. "end" \in Grepping /\ GrepGoto(a, s, "end")
      BY <1>14 DEF Grepping, Update
    <3> QED BY <1>s, <3>1, Moved
  <2>2. UNCHANGED <<cfg, store, state, obj, ctx, ch, down>>
        /\ gr[a][s].at = "recv" /\ pc[a] = "update"
    BY <1>14 DEF Update, repoVars
  <2>3. /\ gr' \in [Searches -> [Shards -> GrepType]]
        /\ gr'[a] = [gr[a] EXCEPT ![s] = x] /\ gr'[a][s] = x
        /\ \A b \in Searches \ {a} : gr'[b] = gr[b]
        /\ \A t \in Shards \ {s} : gr'[a][t] = gr[a][t]
    BY <1>t, <1>s, <2>1
  <2>4. q \in Resp /\ q.num = resp[a].num + gr[a][s].res.lines
        /\ (resp[a].err => q.err) /\ (gr[a][s].res.err => q.err)
    <3>1. gr[a][s].res.lines \in Nat /\ gr[a][s].res.err \in BOOLEAN
      BY <1>s, MaxLinesIsNat DEF GrepType, Result, Lines
    <3>2. resp[a].num \in Nat /\ resp[a].err \in BOOLEAN
      BY <1>t DEF Resp
    <3> QED BY <3>1, <3>2 DEF Resp
  <2>5. resp' = [resp EXCEPT ![a] = q] /\ waiting' = [waiting EXCEPT ![a] = waiting[a] - 1]
        /\ pc' = [pc EXCEPT ![a] = "loop"]
    BY <1>14 DEF Update, Goto
  <2> HIDE DEF q
  <2>6. /\ resp' \in [Searches -> Resp] /\ resp'[a] = q
        /\ pc' \in [Searches -> {"new", "state", "drop", "loop", "update", "done"}]
        /\ pc'[a] = "loop" /\ waiting'[a] = waiting[a] - 1
        /\ \A b \in Searches \ {a} : resp'[b] = resp[b] /\ waiting'[b] = waiting[b] /\ pc'[b] = pc[b]
    BY <2>4, <2>5 DEF TypeOK
  <2>7. PICK M \in SUBSET Shards : Merging(M, gr[a], ch[a], waiting[a], resp[a])
    BY <2>2 DEF PhaseInv, Phase
  <2>8. waiting[a] > 0
        /\ Merging(M \cup {s}, [gr[a] EXCEPT ![s] = x], ch[a], waiting[a] - 1, q)
    BY <1>s, <1>t, <2>2, <2>4, <2>7, MergingMore
  <2>9. TypeOK'
    <3>1. waiting' \in [Searches -> 0 .. Cardinality(Shards)]
      BY <2>5, <2>8, ShardCount DEF TypeOK
    <3> QED BY <2>2, <2>3, <2>6, <3>1 DEF TypeOK, GrepType
  <2>10. PhaseInv'
    <3>1. OnlyOf(a)
      BY <2>2, <2>3, <2>6 DEF OnlyOf
    <3>2. obj[a] \in Objs
      BY <2>2 DEF PhaseInv, Phase
    <3>3. Merging(M \cup {s}, gr'[a], ch'[a], waiting'[a], resp'[a])
      BY <2>2, <2>3, <2>6, <2>8
    <3>4. Phase(pc'[a], obj'[a], gr'[a], ch'[a], waiting'[a], resp'[a])
      BY <2>2, <2>6, <3>2, <3>3 DEF Phase
    <3> QED BY <3>1, <3>4, PhaseOfOne
  <2> HIDE DEF x
  <2>11. LateInv' /\ DiesOnlyOfLateWrite'
    BY <2>1, <2>2, <2>3 DEF LateInv, DiesOnlyOfLateWrite, Up
  <2>12. GoneInv'
    BY <2>1, <2>2, <2>3 DEF GoneInv
  <2> QED BY <2>9, <2>10, <2>11, <2>12
<1>15. ASSUME NEW a \in Searches, LoopEnds(a) PROVE Inv'
  <2>1. UNCHANGED <<cfg, store, state, obj, ctx, resp, waiting, ch, gr, down>>
        /\ pc[a] = "loop" /\ waiting[a] = 0 /\ pc' = [pc EXCEPT ![a] = "done"]
    BY <1>15 DEF LoopEnds, Goto, repoVars
  <2>2. TypeOK' /\ OnlyOf(a) /\ pc'[a] = "done"
    BY <2>1 DEF TypeOK, OnlyOf
  <2>3. Phase(pc'[a], obj'[a], gr'[a], ch'[a], waiting'[a], resp'[a])
    BY <2>1, <2>2 DEF PhaseInv, Phase
  <2>4. LateInv' /\ GoneInv' /\ DiesOnlyOfLateWrite'
    BY <2>1 DEF LateInv, GoneInv, DiesOnlyOfLateWrite, Up
  <2> QED BY <2>2, <2>3, <2>4, PhaseOfOne
<1>16. ASSUME NEW a \in Searches, CtxDone(a) PROVE Inv'
  <2>1. UNCHANGED <<cfg, store, state, pc, obj, resp, waiting, ch, gr, down>>
        /\ ctx' = [ctx EXCEPT ![a] = "done"]
    BY <1>16 DEF CtxDone, repoVars, mainVars
  <2>2. down = "no"
    BY <1>16 DEF CtxDone, Up
  <2> QED BY <2>1, <2>2 DEF TypeOK, PhaseInv, LateInv, GoneInv, DiesOnlyOfLateWrite, Up
<1>17. ASSUME UserDelete PROVE Inv'
  <2>1. UNCHANGED <<cfg, state, pc, obj, ctx, resp, waiting, ch, gr, down>> /\ store' = NoObj
    BY <1>17 DEF UserDelete, mainVars
  <2>2. GoneInv'
    BY <2>1, HasObj, NoObjIsNone DEF GoneInv
  <2> QED BY <2>1, <2>2 DEF TypeOK, PhaseInv, LateInv, DiesOnlyOfLateWrite, Up
<1>18. ASSUME NEW o \in Objs, Reindex(o) PROVE Inv'
  <2>1. UNCHANGED <<cfg, pc, obj, ctx, resp, waiting, ch, gr, down>> /\ store' = o
        /\ state[o] = "unused" /\ state' = [state EXCEPT ![o] = "OK"]
    BY <1>18 DEF Reindex, mainVars
  <2>2. GoneInv'
    <3> SUFFICES ASSUME NEW a \in Searches, NEW s \in Shards, gr[a][s].gone, gr[a][s].at # "mark"
                 PROVE  state'[obj[a]] = "ERROR" /\ store' # obj[a]
      BY <2>1 DEF GoneInv
    <3>1. obj[a] \in Objs /\ state[obj[a]] = "ERROR"
      BY HasObj DEF GoneInv
    <3> QED BY <2>1, <3>1 DEF TypeOK
  <2> QED BY <2>1, <2>2 DEF TypeOK, PhaseInv, LateInv, DiesOnlyOfLateWrite, Up
<1>19. ASSUME UNCHANGED vars PROVE Inv'
  BY <1>19 DEF vars, TypeOK, PhaseInv, LateInv, GoneInv, DiesOnlyOfLateWrite, Up
<1> QED
  BY <1>1, <1>2, <1>3, <1>4, <1>5, <1>6, <1>7, <1>8, <1>9, <1>10, <1>11, <1>12,
     <1>13, <1>14, <1>15, <1>16, <1>17, <1>18, <1>19 DEF Next, Main, Shard
-----------------------------------------------------------------------------
\* Inv, from which the properties below follow, holds in every reachable state.
THEOREM InvHolds == Spec => []Inv
<1>1. Init => Inv
  <2> SUFFICES ASSUME Init PROVE Inv
    OBVIOUS
  <2>1. TypeOK
    BY ShardCount, MaxLinesIsNat
    DEF Init, TypeOK, Resp, Result, NoResult, Lines, Grepping
  <2>2. PhaseInv
    BY DEF Init, PhaseInv, Phase, Grep0
  <2>3. LateInv /\ GoneInv /\ DiesOnlyOfLateWrite
    BY DEF Init, LateInv, GoneInv, DiesOnlyOfLateWrite, Up
  <2> QED BY <2>1, <2>2, <2>3 DEF Inv
<1> QED BY <1>1, InvInductive, PTL DEF Spec

\* Every variable keeps its type: no search waits for more results than there
\* are shards, nor for less than none.
THEOREM TypeCorrect == Spec => []TypeOK
<1>1. Inv => TypeOK
  BY DEF Inv
<1> QED BY <1>1, InvHolds, PTL

\* However the end of a context falls between the steps of a search and of
\* its goroutines, none of them sends on the channel that Search has closed.
THEOREM DiesOnlyOfLateWriteHolds == Spec => []DiesOnlyOfLateWrite
<1>1. Inv => DiesOnlyOfLateWrite
  BY DEF Inv
<1> QED BY <1>1, InvHolds, PTL

\* Search returns the sum of all of its shards' results, however many there
\* are and in whatever order they came, and an error if one of them had one.
THEOREM MergedCompleteHolds == Spec => []MergedComplete
<1>1. Inv => MergedComplete
  <2> SUFFICES ASSUME Inv, NEW a \in Searches, pc[a] = "done", Searched(a)
               PROVE  /\ resp[a].num = SumFunctionOnSet([s \in Shards |-> gr[a][s].res.lines], Shards)
                      /\ (\E s \in Shards : gr[a][s].res.err) => resp[a].err
    BY DEF MergedComplete
  <2>1. gr[a] # [s \in Shards |-> Grep0]
    BY DEF Searched, Grep0
  <2>2. waiting[a] = 0 /\ \E M \in SUBSET Shards : Merging(M, gr[a], ch[a], waiting[a], resp[a])
    BY <2>1 DEF Inv, PhaseInv, Phase
  <2>3. PICK M \in SUBSET Shards : Merging(M, gr[a], ch[a], 0, resp[a])
    BY <2>2
  <2>4. M = Shards
    <3>1. 0 + Cardinality(M) = Cardinality(Shards)
      BY <2>3 DEF Merging
    <3> QED BY <3>1, ShardCount
  <2> QED BY <2>3, <2>4 DEF Merging, LinesOf
<1> QED BY <1>1, InvHolds, PTL

\* A search one of whose shards had lost its index says so, and leaves the
\* repo in error and, if so configured, out of the store.
THEOREM BadShardCondemnsRepoHolds == Spec => []BadShardCondemnsRepo
<1>1. Inv => BadShardCondemnsRepo
  <2> SUFFICES ASSUME Inv, NEW a \in Searches, NEW s \in Shards,
                      pc[a] = "done", gr[a][s].gone
               PROVE  resp[a].err /\ state[obj[a]] = "ERROR" /\ (store = obj[a] => ~cfg)
    BY DEF BadShardCondemnsRepo
  <2>1. gr[a] # [t \in Shards |-> Grep0]
    BY DEF Grep0
  <2>2. waiting[a] = 0 /\ \E M \in SUBSET Shards : Merging(M, gr[a], ch[a], waiting[a], resp[a])
    BY <2>1 DEF Inv, PhaseInv, Phase
  <2>3. PICK M \in SUBSET Shards : Merging(M, gr[a], ch[a], 0, resp[a])
    BY <2>2
  <2>4. M = Shards
    <3>1. 0 + Cardinality(M) = Cardinality(Shards)
      BY <2>3 DEF Merging
    <3> QED BY <3>1, ShardCount
  <2>5. gr[a][s].at = "end" /\ (gr[a][s].res.err => resp[a].err)
    BY <2>3, <2>4 DEF Merging
  <2> QED BY <2>5 DEF Inv, GoneInv
<1> QED BY <1>1, InvHolds, PTL
-----------------------------------------------------------------------------
(***************************************************************************)
(* The reader of one file, GrepReader: for any file and any buffer, and    *)
(* any bytes files are made of.  Offsets into the file are compared with   *)
(* offsets into the buffer by adding Base, and line numbers with offsets   *)
(* by counting the newlines before them (CountTo).                         *)
(***************************************************************************)

\* The newlines in the first e bytes of the file, and the offsets where a line
\* begins.
CountTo(e) == countNL(Slice(file, 0, e))
IsStart(s) == s = 0 \/ file[s] = "n"

\* The offsets in the file of the buffer and of what is not done yet.
Base == pos - Len(buf)
Done == Base + chunkStart

BufferInv ==
  /\ buf \in Seq(Bytes) /\ Len(buf) <= pos
  /\ \A i \in 1 .. Len(buf) : buf[i] = file[Base + i]

\* What the reader works on ends with a line or with all that was read.
ChunkInv ==
  /\ chunkStart <= end /\ nmatches <= Done
  /\ step = "read" => end = 0 /\ rerr = "nil"
  /\ rerr = "nil" => end = 0 \/ buf[end] = "n"
  /\ rerr # "nil" => end = Len(buf)
  /\ rerr = "eof" => pos = Len(file)
  /\ step = "done" => rerr # "nil"

\* It begins with a line, the one that lineno says; or the last line matched,
\* without a newline, and nothing is left.
LineInv ==
  step # "done" =>
    \/ IsStart(Done) /\ lineno = CountTo(Done) + 1
    \/ rerr # "nil" /\ chunkStart = end /\ lineno = CountTo(Done) + 2

\* No byte of what is left of it matches.
RestInv ==
  /\ step = "next" => \A p \in Done + 1 .. Base + end : file[p] # "m"
  /\ step = "done" /\ rerr = "eof" => \A k \in Matching : k < lineno

\* The lines that matched are counted, and recorded.
Past == {k \in Matching : k < lineno}
MatchInv ==
  /\ nmatches = Cardinality(Past)
  /\ rerr # "fault" => \A k \in Past : <<k, Line(k)>> \in matches

\* Whatever else is recorded is a line, or context after a match that has not
\* been replaced by one.
RecordInv ==
  rerr # "fault" =>
    \A e \in matches :
      \/ e[1] \in LineNumbers /\ e[2] = Line(e[1])
      \/ /\ context.post /\ e[1] \notin Past
         /\ \E m \in Past : e[1] \in m + 1 .. m + 3

GrepInv ==
  /\ GrepTypeOK /\ BufferInv /\ ChunkInv /\ LineInv /\ RestInv /\ MatchInv
  /\ RecordInv
-----------------------------------------------------------------------------
\* A set of numbers that is not empty and has a bound has a greatest one.
LEMMA MaxIsGreatest ==
  ASSUME NEW b \in Nat, NEW S \in SUBSET (0 .. b), S # {}
  PROVE  Max(S) \in S /\ \A y \in S : Max(S) >= y
<1> DEFINE T == {b - x : x \in S}
<1>1. T \in SUBSET Nat /\ T # {}
  <2>1. \A x \in S : x \in Int /\ 0 <= x /\ x <= b
    OBVIOUS
  <2>2. \A x \in S : b - x \in Nat
    BY <2>1
  <2> QED BY <2>2
<1>2. Min(T) \in T /\ \A y \in T : Min(T) <= y
  <2> HIDE DEF T
  <2> QED BY <1>1, MinIsLeast
<1>3. PICK x \in S : Min(T) = b - x
  BY <1>2
<1>4. \A y \in S : x >= y
  BY <1>2, <1>3
<1> QED BY <1>4 DEF Max

-----------------------------------------------------------------------------
\* b[i:j] has the bytes from i to j.
LEMMA SliceIs ==
  ASSUME NEW T, NEW b \in Seq(T), NEW j \in 0 .. Len(b), NEW i \in 0 .. j
  PROVE  /\ Slice(b, i, j) \in Seq(T) /\ Len(Slice(b, i, j)) = j - i
         /\ \A x \in 1 .. j - i : Slice(b, i, j)[x] = b[i + x]
BY DEF Slice

\* The newlines of b.
LEMMA NLsAre ==
  ASSUME NEW T, NEW b \in Seq(T)
  PROVE  /\ NLs(b) \in SUBSET (0 .. Len(b) - 1) /\ NLs(b) \in SUBSET Nat
         /\ IsFiniteSet(NLs(b)) /\ countNL(b) \in Nat
<1>1. NLs(b) \in SUBSET (0 .. Len(b) - 1)
  BY DEF NLs
<1>2. IsFiniteSet(0 .. Len(b) - 1)
  BY FS_Interval
<1> QED BY <1>1, <1>2, FS_Subset, FS_CardinalityType DEF countNL

\* LastIndex points to the last newline, or in front of b.
LEMMA LastIndexIs ==
  ASSUME NEW T, NEW b \in Seq(T)
  PROVE  /\ LastIndex(b) \in -1 .. Len(b) - 1
         /\ LastIndex(b) # -1 => b[LastIndex(b) + 1] = "n"
         /\ \A x \in LastIndex(b) + 2 .. Len(b) : b[x] # "n"
<1>1. CASE NLs(b) = {}
  <2>1. \A x \in 1 .. Len(b) : b[x] # "n"
    <3> SUFFICES ASSUME NEW x \in 1 .. Len(b), b[x] = "n" PROVE FALSE
      OBVIOUS
    <3>1. x - 1 \in NLs(b)
      BY DEF NLs
    <3> QED BY <1>1, <3>1
  <2> QED BY <1>1, <2>1 DEF LastIndex
<1>2. CASE NLs(b) # {}
  <2>1. Len(b) - 1 \in Nat /\ NLs(b) \in SUBSET (0 .. Len(b) - 1)
    BY <1>2 DEF NLs
  <2>2. Max(NLs(b)) \in NLs(b) /\ \A y \in NLs(b) : Max(NLs(b)) >= y
    BY <1>2, <2>1, MaxIsGreatest
  <2>3. \A x \in Max(NLs(b)) + 2 .. Len(b) : b[x] # "n"
    <3> SUFFICES ASSUME NEW x \in Max(NLs(b)) + 2 .. Len(b), b[x] = "n" PROVE FALSE
      OBVIOUS
    <3>1. Max(NLs(b)) \in 0 .. Len(b) - 1
      BY <2>1, <2>2
    <3>2. x - 1 \in NLs(b) /\ x - 1 > Max(NLs(b))
      BY <3>1 DEF NLs
    <3> QED BY <2>2, <3>1, <3>2
  <2>4. LastIndex(b) = Max(NLs(b))
    BY <1>2 DEF LastIndex
  <2>5. Max(NLs(b)) \in 0 .. Len(b) - 1 /\ b[Max(NLs(b)) + 1] = "n"
    BY <2>2 DEF NLs
  <2> QED BY <2>3, <2>4, <2>5
<1> QED BY <1>1, <1>2

\* Index points into b, or in front of it.
LEMMA IndexIs ==
  ASSUME NEW T, NEW b \in Seq(T)
  PROVE  Index(b) \in -1 .. Len(b) - 1
<1>1. CASE NLs(b) = {}
  BY <1>1 DEF Index
<1>2. CASE NLs(b) # {}
  <2>1. Min(NLs(b)) \in NLs(b)
    BY <1>2, NLsAre, MinIsLeast
  <2> QED BY <1>2, <2>1, NLsAre DEF Index
<1> QED BY <1>1, <1>2

\* Match is -1 if no byte matches, and else the end of the line of the first
\* byte h that does: the newline behind it, or the end of b.
LEMMA MatchIs ==
  ASSUME NEW T, NEW b \in Seq(T)
  PROVE  \/ Match(b) = -1 /\ \A x \in 1 .. Len(b) : b[x] # "m"
         \/ \E h \in 1 .. Len(b) :
              /\ b[h] = "m" /\ \A x \in 1 .. h - 1 : b[x] # "m"
              /\ Match(b) \in h .. Len(b)
              /\ Match(b) < Len(b) => b[Match(b) + 1] = "n"
              /\ \A x \in h .. Match(b) : b[x] # "n"
<1> DEFINE hits == {i \in 0 .. Len(b) - 1 : b[i + 1] = "m"}
           ends == {i \in NLs(b) \cup {Len(b)} : i > Min(hits)}
<1>0. Match(b) = IF hits = {} THEN -1 ELSE Min(ends)
  BY DEF Match
<1>1. CASE hits = {}
  <2>1. \A x \in 1 .. Len(b) : b[x] # "m"
    <3> SUFFICES ASSUME NEW x \in 1 .. Len(b), b[x] = "m" PROVE FALSE
      OBVIOUS
    <3>1. x - 1 \in hits
      OBVIOUS
    <3> QED BY <1>1, <3>1
  <2> QED BY <1>0, <1>1, <2>1
<1>2. CASE hits # {}
  <2>1. hits \in SUBSET Nat
    OBVIOUS
  <2>2. Min(hits) \in hits /\ \A y \in hits : Min(hits) <= y
    <3> HIDE DEF hits
    <3> QED BY <1>2, <2>1, MinIsLeast
  <2> DEFINE h == Min(hits) + 1
  <2>3. /\ h \in 1 .. Len(b) /\ b[h] = "m"
        /\ \A x \in 1 .. h - 1 : b[x] # "m"
    <3>1. h \in 1 .. Len(b) /\ b[h] = "m"
      BY <2>2
    <3>2. ASSUME NEW x \in 1 .. h - 1, b[x] = "m" PROVE FALSE
      <4> HIDE DEF h
      <4>1. x - 1 \in hits
        BY <3>1, <3>2
      <4>2. x - 1 < Min(hits) /\ Min(hits) \in Nat
        BY <2>1, <2>2, <3>1 DEF h
      <4> HIDE DEF hits
      <4> QED BY <2>2, <3>2, <4>1, <4>2
    <3> QED BY <3>1, <3>2
  <2>4. ends \in SUBSET Nat /\ Len(b) \in ends
    BY <2>2, NLsAre
  <2>5. Min(ends) \in ends /\ \A y \in ends : Min(ends) <= y
    <3> HIDE DEF ends
    <3> QED BY <2>4, MinIsLeast
  <2> HIDE DEF hits
  <2>m. Min(hits) \in Nat /\ Min(ends) \in Nat /\ Min(ends) > Min(hits)
    BY <2>1, <2>2, <2>4, <2>5
  <2>6. Min(ends) \in h .. Len(b) /\ (Min(ends) < Len(b) => b[Min(ends) + 1] = "n")
    <3>1. Min(ends) = Len(b) \/ (Min(ends) \in 0 .. Len(b) - 1 /\ b[Min(ends) + 1] = "n")
      BY <2>5 DEF NLs
    <3> HIDE DEF ends
    <3> QED BY <2>m, <3>1
  <2>7. ASSUME NEW x \in h .. Min(ends), b[x] = "n" PROVE FALSE
    <3>1. x # h
      BY <2>3, <2>7
    <3>2. x - 1 \in NLs(b) /\ x - 1 > Min(hits) /\ x - 1 < Min(ends)
      <4> HIDE DEF ends
      <4>1. x \in 1 .. Len(b) /\ h = Min(hits) + 1
        BY <2>6, <2>m
      <4> HIDE DEF h
      <4> QED BY <3>1, <4>1, <2>m, <2>7 DEF NLs
    <3>3. x - 1 \in ends
      BY <3>2
    <3> HIDE DEF ends, h
    <3>4. Min(ends) <= x - 1
      BY <2>5, <3>3, Zenon
    <3> QED BY <2>m, <2>4, <3>2, <3>3, <3>4
  <2>8. Match(b) = Min(ends)
    BY <1>0, <1>2
  <2> HIDE DEF h, ends
  <2> QED BY <2>3, <2>6, <2>7, <2>8
<1> QED BY <1>1, <1>2
-----------------------------------------------------------------------------
\* The newlines of a slice.
LEMMA NLsOfSlice ==
  ASSUME NEW T, NEW b \in Seq(T), NEW j \in 0 .. Len(b), NEW i \in 0 .. j
  PROVE  NLs(Slice(b, i, j)) = {x \in 0 .. j - i - 1 : b[i + x + 1] = "n"}
<1>1. /\ Len(Slice(b, i, j)) = j - i
      /\ \A x \in 1 .. j - i : Slice(b, i, j)[x] = b[i + x]
  BY SliceIs
<1>2. ASSUME NEW x \in 0 .. j - i - 1 PROVE Slice(b, i, j)[x + 1] = b[i + x + 1]
  <2>1. x + 1 \in 1 .. j - i /\ i + (x + 1) = i + x + 1
    OBVIOUS
  <2> QED BY <1>1, <2>1
<1> QED BY <1>1, <1>2 DEF NLs

\* Newlines add up.
LEMMA CountsAdd ==
  ASSUME NEW T, NEW f \in Seq(T), NEW b \in 0 .. Len(f), NEW a \in 0 .. b
  PROVE  countNL(Slice(f, 0, b)) = countNL(Slice(f, 0, a)) + countNL(Slice(f, a, b))
<1> DEFINE A == NLs(Slice(f, 0, a))
           B == NLs(Slice(f, a, b))
           D == NLs(Slice(f, 0, b))
           S == {x + a : x \in B}
           g == [x \in B |-> x + a]
<1>1. /\ A = {x \in 0 .. a - 1 : f[x + 1] = "n"}
      /\ B = {x \in 0 .. b - a - 1 : f[a + x + 1] = "n"}
      /\ D = {x \in 0 .. b - 1 : f[x + 1] = "n"}
  <2>1. /\ A = {x \in 0 .. a - 0 - 1 : f[0 + x + 1] = "n"}
        /\ D = {x \in 0 .. b - 0 - 1 : f[0 + x + 1] = "n"}
    BY NLsOfSlice
  <2>2. B = {x \in 0 .. b - a - 1 : f[a + x + 1] = "n"}
    BY NLsOfSlice
  <2> QED BY <2>1, <2>2
<1>2. IsFiniteSet(A) /\ IsFiniteSet(B)
  <2>0. a \in 0 .. Len(f) /\ 0 \in 0 .. a
    OBVIOUS
  <2>1. Slice(f, 0, a) \in Seq(T) /\ Slice(f, a, b) \in Seq(T)
    BY <2>0, SliceIs
  <2> QED BY <2>1, NLsAre
<1> HIDE DEF A, B, D
<1>3. D = A \cup S
  <2>1. ASSUME NEW x \in D, x \notin A PROVE x \in S
    <3>1. x - a \in B /\ x = (x - a) + a
      BY <1>1, <2>1
    <3> QED BY <3>1
  <2>2. A \subseteq D
    BY <1>1
  <2>3. ASSUME NEW x \in B PROVE x + a \in D
    <3>1. x \in 0 .. b - a - 1 /\ f[a + x + 1] = "n" /\ a + x + 1 = (x + a) + 1
      BY <1>1
    <3> QED BY <1>1, <3>1
  <2> QED BY <2>1, <2>2, <2>3
<1>4. A \cap S = {}
  BY <1>1
<1>5. g \in Bijection(B, S)
  <2>0. \A x \in B : x \in Nat
    BY <1>1
  <2>1. g \in [B -> S] /\ \A x, y \in B : g[x] = g[y] => x = y
    BY <2>0
  <2>2. \A y \in S : \E x \in B : g[x] = y
    OBVIOUS
  <2> QED BY <2>1, <2>2 DEF Bijection, Injection, Surjection, IsInjective
<1>6. IsFiniteSet(S) /\ Cardinality(S) = Cardinality(B)
  <2> HIDE DEF S, g
  <2>1. ExistsBijection(B, S)
    BY <1>5 DEF ExistsBijection
  <2> QED BY <1>2, <2>1, FS_Bijection
<1>7. Cardinality(D) = Cardinality(A) + Cardinality(S) - Cardinality(A \cap S)
  <2> HIDE DEF S
  <2> QED BY <1>2, <1>3, <1>6, FS_Union
<1>8. Cardinality(A \cap S) = 0 /\ Cardinality(A) \in Nat /\ Cardinality(B) \in Nat
  BY <1>2, <1>4, FS_EmptySet, FS_CardinalityType
<1>9. Cardinality(D) = Cardinality(A) + Cardinality(B)
  BY <1>6, <1>7, <1>8
<1> QED BY <1>9 DEF countNL, A, B, D

\* A slice without newlines counts none, one with a newline at least one, and
\* one that is a newline one.
LEMMA CountOfSlice ==
  ASSUME NEW T, NEW b \in Seq(T), NEW j \in 0 .. Len(b), NEW i \in 0 .. j
  PROVE  LET c == countNL(Slice(b, i, j)) IN
         /\ c \in Nat /\ c <= j - i
         /\ (\A x \in i + 1 .. j : b[x] # "n") => c = 0
         /\ \A x \in i + 1 .. j : b[x] = "n" => c >= 1
<1> DEFINE S == NLs(Slice(b, i, j))
<1>1. S = {x \in 0 .. j - i - 1 : b[i + x + 1] = "n"}
  BY NLsOfSlice
<1>2. IsFiniteSet(S) /\ Cardinality(S) \in Nat /\ Cardinality(S) <= j - i
  <2>1. S \in SUBSET (0 .. j - i - 1)
    BY <1>1
  <2>0. 0 \in Int /\ j - i - 1 \in Int
    OBVIOUS
  <2>2. IsFiniteSet(0 .. j - i - 1) /\ Cardinality(0 .. j - i - 1) <= j - i
    <3> DEFINE d == j - i - 1
    <3>1. d \in Int /\ d >= -1
      OBVIOUS
    <3> HIDE DEF d
    <3>2. IsFiniteSet(0 .. d) /\ Cardinality(0 .. d) = IF 0 > d THEN 0 ELSE d - 0 + 1
      BY <2>0, <3>1, FS_Interval
    <3>3. Cardinality(0 .. d) <= d + 1
      BY <3>1, <3>2
    <3> QED BY <3>2, <3>3 DEF d
  <2> HIDE DEF S
  <2>3. IsFiniteSet(S) /\ Cardinality(S) <= Cardinality(0 .. j - i - 1)
    BY <2>1, <2>2, FS_Subset
  <2>4. Cardinality(S) \in Nat /\ Cardinality(0 .. j - i - 1) \in Nat
    BY <2>2, <2>3, FS_CardinalityType
  <2> QED BY <2>2, <2>3, <2>4
<1> HIDE DEF S
<1>3. ASSUME \A x \in i + 1 .. j : b[x] # "n" PROVE Cardinality(S) = 0
  <2>1. ASSUME NEW x \in S PROVE FALSE
    <3>1. i + x + 1 \in i + 1 .. j /\ b[i + x + 1] = "n"
      BY <1>1
    <3> QED BY <1>3, <3>1
  <2> QED BY <2>1, FS_EmptySet
<1>4. ASSUME NEW x \in i + 1 .. j, b[x] = "n" PROVE Cardinality(S) >= 1
  <2>1. x - i - 1 \in 0 .. j - i - 1 /\ i + (x - i - 1) + 1 = x
    OBVIOUS
  <2>2. x - i - 1 \in S
    BY <1>1, <1>4, <2>1
  <2>3. Cardinality(S) # 0
    BY <1>2, <2>2, FS_EmptySet
  <2> QED BY <1>2, <2>3
<1> QED BY <1>2, <1>3, <1>4 DEF countNL, S
-----------------------------------------------------------------------------
\* The file is a sequence.
LEMMA FileIsSeq == ASSUME file \in Files PROVE file \in Seq(Bytes)
<1>1. PICK n \in 0 .. MaxSize : file \in [1 .. n -> Bytes]
  BY DEF Files
<1>2. n \in Nat
  BY SizesAreNat
<1> QED BY <1>1, <1>2, SeqDef

\* How the count goes on from one offset to another.
LEMMA Counts ==
  ASSUME file \in Seq(Bytes)
  PROVE  /\ CountTo(0) = 0
         /\ \A e \in 0 .. Len(file) : CountTo(e) \in Nat /\ CountTo(e) <= e
         /\ \A e \in 0 .. Len(file) : \A a \in 0 .. e :
              /\ CountTo(e) = CountTo(a) + countNL(Slice(file, a, e))
              /\ CountTo(a) <= CountTo(e)
              /\ (\A x \in a + 1 .. e : file[x] # "n") => CountTo(e) = CountTo(a)
              /\ \A x \in a + 1 .. e : file[x] = "n" => CountTo(a) < CountTo(e)
<1>0. 0 \in 0 .. Len(file)
  OBVIOUS
<1>1. ASSUME NEW e \in 0 .. Len(file) PROVE CountTo(e) \in Nat /\ CountTo(e) <= e
  <2>1. 0 \in 0 .. e
    OBVIOUS
  <2>2. countNL(Slice(file, 0, e)) \in Nat /\ countNL(Slice(file, 0, e)) <= e - 0
    BY <2>1, CountOfSlice
  <2> QED BY <2>2 DEF CountTo
<1>2. ASSUME NEW e \in 0 .. Len(file), NEW a \in 0 .. e
      PROVE  /\ CountTo(e) = CountTo(a) + countNL(Slice(file, a, e))
             /\ CountTo(a) <= CountTo(e)
             /\ (\A x \in a + 1 .. e : file[x] # "n") => CountTo(e) = CountTo(a)
             /\ \A x \in a + 1 .. e : file[x] = "n" => CountTo(a) < CountTo(e)
  <2>1. CountTo(e) = CountTo(a) + countNL(Slice(file, a, e))
    BY CountsAdd DEF CountTo
  <2>2. CountTo(a) \in Nat /\ CountTo(e) \in Nat
    BY <1>1
  <2> DEFINE c == countNL(Slice(file, a, e))
  <2>3. /\ c \in Nat
        /\ (\A x \in a + 1 .. e : file[x] # "n") => c = 0
        /\ \A x \in a + 1 .. e : file[x] = "n" => c >= 1
    BY CountOfSlice
  <2> HIDE DEF c
  <2>4. CountTo(e) = CountTo(a) + c
    BY <2>1 DEF c
  <2> QED BY <2>1, <2>2, <2>3, <2>4
<1>3. CountTo(0) = 0
  BY <1>0, <1>1
<1> QED BY <1>1, <1>2, <1>3

\* The offset behind the k-th newline is the only one of its kind ...
LEMMA OneNewline ==
  ASSUME file \in Seq(Bytes), NEW d \in 1 .. Len(file), NEW e \in 1 .. Len(file),
         file[d] = "n", file[e] = "n", CountTo(d) = CountTo(e)
  PROVE  d = e
<1>1. ASSUME NEW x \in 1 .. Len(file), NEW y \in 1 .. Len(file), x < y, file[y] = "n"
      PROVE  CountTo(x) < CountTo(y)
  <2>1. y \in 0 .. Len(file) /\ x \in 0 .. y /\ y \in x + 1 .. y
    BY <1>1
  <2> QED BY <1>1, <2>1, Counts
<1>2. CountTo(d) \in Nat
  <2>1. d \in 0 .. Len(file)
    OBVIOUS
  <2> QED BY <2>1, Counts
<1>3. ~(d < e) /\ ~(e < d)
  BY <1>1, <1>2
<1> QED BY <1>3

\* ... and there is one, for every k up to the number of newlines.
LEMMA SomeNewline ==
  ASSUME file \in Seq(Bytes), NEW k \in 1 .. CountTo(Len(file))
  PROVE  \E e \in 1 .. Len(file) : file[e] = "n" /\ CountTo(e) = k
<1> DEFINE P == {n \in Nat : n <= Len(file) => \A l \in 1 .. CountTo(n) :
                   \E e \in 1 .. n : file[e] = "n" /\ CountTo(e) = l}
<1>1. 0 \in P
  BY Counts
<1>2. ASSUME NEW n \in Nat, n \in P PROVE n + 1 \in P
  <2> SUFFICES ASSUME n + 1 <= Len(file), NEW l \in 1 .. CountTo(n + 1)
               PROVE  \E e \in 1 .. n + 1 : file[e] = "n" /\ CountTo(e) = l
    OBVIOUS
  <2>1. n + 1 \in 0 .. Len(file) /\ n \in 0 .. n + 1 /\ n \in 0 .. Len(file)
    OBVIOUS
  <2>2. /\ CountTo(n) \in Nat /\ CountTo(n + 1) \in Nat
        /\ CountTo(n + 1) = CountTo(n) + countNL(Slice(file, n, n + 1))
        /\ (\A x \in n + 1 .. n + 1 : file[x] # "n") => CountTo(n + 1) = CountTo(n)
    BY <2>1, Counts
  <2>3. countNL(Slice(file, n, n + 1)) \in 0 .. 1
    <3>1. countNL(Slice(file, n, n + 1)) \in Nat
          /\ countNL(Slice(file, n, n + 1)) <= (n + 1) - n
      BY <2>1, CountOfSlice
    <3> QED BY <3>1
  <2>4. CASE l <= CountTo(n)
    <3>1. l \in 1 .. CountTo(n) /\ n <= Len(file)
      BY <2>2, <2>4
    <3>2. PICK e \in 1 .. n : file[e] = "n" /\ CountTo(e) = l
      BY <1>2, <3>1
    <3>3. e \in 1 .. n + 1
      OBVIOUS
    <3> QED BY <3>2, <3>3
  <2>5. CASE l > CountTo(n)
    <3>1. l = CountTo(n + 1) /\ CountTo(n + 1) # CountTo(n)
      BY <2>2, <2>3, <2>5
    <3>2. \E x \in n + 1 .. n + 1 : file[x] = "n"
      BY <2>2, <3>1
    <3>3. file[n + 1] = "n" /\ n + 1 \in 1 .. n + 1
      BY <3>2
    <3> QED BY <3>1, <3>3
  <2> QED BY <2>2, <2>4, <2>5
<1>3. Nat \subseteq P
  <2> HIDE DEF P
  <2> QED BY <1>1, <1>2, NatSets
<1>4. Len(file) \in P
  <2>1. Len(file) \in Nat
    OBVIOUS
  <2> QED BY <1>3, <2>1
<1> QED BY <1>4
-----------------------------------------------------------------------------
\* The number of newlines.
LEMMA EndsAre ==
  ASSUME file \in Seq(Bytes)
  PROVE  Cardinality(Ends) = CountTo(Len(file)) /\ CountTo(Len(file)) \in Nat
<1>1. Slice(file, 0, Len(file)) = file
  BY SubSeqFull DEF Slice
<1>2. Len(file) \in 0 .. Len(file)
  OBVIOUS
<1> QED BY <1>1, <1>2, Counts DEF Ends, CountTo, countNL

\* The line after the newlines before s begins at s.
LEMMA LineStartIs ==
  ASSUME file \in Seq(Bytes), NEW s \in 0 .. Len(file), IsStart(s)
  PROVE  LineStart(CountTo(s) + 1) = s
<1> DEFINE k == CountTo(s) + 1
<1>0. CountTo(s) \in Nat
  BY Counts
<1>1. CASE s = 0
  <2>1. CountTo(s) + 1 = 1
    BY <1>1, Counts
  <2> QED BY <1>1, <2>1 DEF LineStart
<1>2. CASE s # 0
  <2>1. s \in 1 .. Len(file) /\ file[s] = "n" /\ 0 \in 0 .. s /\ s \in 0 + 1 .. s
    BY <1>2 DEF IsStart
  <2>2. CountTo(s) > 0
    BY <2>1, Counts
  <2> HIDE DEF k
  <2>3. k # 1 /\ CountTo(s) = k - 1
    BY <1>0, <2>2 DEF k
  <2>4. \A e \in 1 .. Len(file) :
          file[e] = "n" /\ countNL(Slice(file, 0, e)) = k - 1 => e = s
    BY <2>1, <2>3, OneNewline DEF CountTo
  <2>5. file[s] = "n" /\ countNL(Slice(file, 0, s)) = k - 1
    BY <2>1, <2>3 DEF CountTo
  <2>6. LineStart(k) = s
    BY <2>1, <2>3, <2>4, <2>5 DEF LineStart
  <2> QED BY <2>6 DEF k
<1> QED BY <1>1, <1>2

\* The line that a newline ends, and the last one, end there.
LEMMA LineEndIs ==
  ASSUME file \in Seq(Bytes)
  PROVE  /\ \A e \in 1 .. Len(file) : file[e] = "n" => LineEnd(CountTo(e)) = e
         /\ LineEnd(CountTo(Len(file)) + 1) = Len(file)
<1>1. ASSUME NEW e \in 1 .. Len(file), file[e] = "n" PROVE LineEnd(CountTo(e)) = e
  <2> DEFINE k == CountTo(e)
  <2>1. e \in 0 .. Len(file) /\ Len(file) \in 0 .. Len(file) /\ e \in 0 .. Len(file)
    OBVIOUS
  <2>2. k \in Nat /\ ~(k > Cardinality(Ends))
    <3>1. CountTo(e) \in Nat /\ CountTo(e) <= CountTo(Len(file))
      BY <2>1, Counts
    <3> QED BY <3>1, EndsAre
  <2> HIDE DEF k
  <2>3. \A d \in 1 .. Len(file) :
          file[d] = "n" /\ countNL(Slice(file, 0, d)) = k => d = e
    BY <1>1, OneNewline DEF CountTo, k
  <2>4. countNL(Slice(file, 0, e)) = k
    BY DEF CountTo, k
  <2>5. LineEnd(k) = e
    BY <1>1, <2>2, <2>3, <2>4 DEF LineEnd
  <2> QED BY <2>5 DEF k
<1>2. LineEnd(CountTo(Len(file)) + 1) = Len(file)
  BY EndsAre DEF LineEnd
<1> QED BY <1>1, <1>2

\* A line has one newline, at its end.
LEMMA CountOfLine ==
  ASSUME file \in Seq(Bytes), NEW s \in 0 .. Len(file), NEW e \in s + 1 .. Len(file),
         \A x \in s + 1 .. e - 1 : file[x] # "n", file[e] = "n"
  PROVE  CountTo(e) = CountTo(s) + 1
<1>0. e \in 0 .. Len(file) /\ CountTo(s) \in Nat /\ CountTo(e) \in Nat
  <2>1. e \in 0 .. Len(file)
    OBVIOUS
  <2> QED BY <2>1, Counts
<1>1. e - 1 \in 0 .. e /\ e - 1 \in 0 .. Len(file) /\ s \in 0 .. e - 1
  OBVIOUS
<1>2. CountTo(e - 1) = CountTo(s)
  BY <1>1, Counts
<1>3. countNL(Slice(file, e - 1, e)) <= 1 /\ countNL(Slice(file, e - 1, e)) \in Nat
  <2>1. countNL(Slice(file, e - 1, e)) <= e - (e - 1) /\ countNL(Slice(file, e - 1, e)) \in Nat
    BY <1>0, <1>1, CountOfSlice
  <2> QED BY <2>1
<1>4. e \in (e - 1) + 1 .. e
  OBVIOUS
<1>5. /\ CountTo(e) = CountTo(e - 1) + countNL(Slice(file, e - 1, e))
      /\ CountTo(e - 1) < CountTo(e)
  BY <1>0, <1>1, <1>4, Counts
<1> QED BY <1>0, <1>2, <1>3, <1>5

\* From the start of a line to its newline, or to the end of the file, is the
\* line.
LEMMA LineIs ==
  ASSUME file \in Seq(Bytes), NEW s \in 0 .. Len(file), IsStart(s),
         NEW e \in s .. Len(file), \A x \in s + 1 .. e - 1 : file[x] # "n",
         e = Len(file) \/ (s < e /\ file[e] = "n")
  PROVE  /\ Line(CountTo(s) + 1) = Slice(file, s, e)
         /\ CountTo(s) + 1 \in LineNumbers
<1>0. /\ e \in 0 .. Len(file) /\ s \in 0 .. e /\ Len(file) \in 0 .. Len(file)
      /\ s \in 0 .. Len(file) /\ e \in 0 .. Len(file)
  OBVIOUS
<1>1. LineStart(CountTo(s) + 1) = s
  BY LineStartIs
<1>2. CountTo(s) \in Nat /\ CountTo(e) \in Nat /\ CountTo(s) <= CountTo(Len(file))
  BY <1>0, Counts
<1>3. LineEnd(CountTo(s) + 1) = e
  <2>1. CASE s < e /\ file[e] = "n"
    <3>1. e \in s + 1 .. Len(file)
      BY <2>1
    <3>6. CountTo(e) = CountTo(s) + 1
      BY <2>1, <3>1, CountOfLine
    <3>7. e \in 1 .. Len(file)
      BY <2>1
    <3> QED BY <2>1, <3>6, <3>7, LineEndIs
  <2>2. CASE e = Len(file) /\ ~(s < e /\ file[e] = "n")
    <3>1. \A x \in s + 1 .. e : file[x] # "n"
      BY <2>2
    <3>2. CountTo(e) = CountTo(s)
      BY <1>0, <3>1, Counts
    <3> QED BY <2>2, <3>2, LineEndIs
  <2> QED BY <2>1, <2>2
<1>4. CountTo(s) + 1 \in LineNumbers
  BY <1>2, EndsAre DEF LineNumbers
<1> QED BY <1>1, <1>3, <1>4 DEF Line

\* The line of the p-th byte, which lies within it.
LEMMA LineOfByte ==
  ASSUME file \in Seq(Bytes), NEW k \in LineNumbers
  PROVE  /\ LineStart(k) \in 0 .. LineEnd(k) /\ LineEnd(k) \in 0 .. Len(file)
         /\ \A p \in LineStart(k) + 1 .. LineEnd(k) : CountTo(p - 1) + 1 = k
         /\ \A p \in 1 .. Len(file) :
              CountTo(p - 1) + 1 = k => p \in LineStart(k) + 1 .. LineEnd(k)
<1> DEFINE s == LineStart(k)
           e == LineEnd(k)
           c == CountTo(Len(file))
<1>0. c \in Nat /\ k \in 1 .. c + 1 /\ Len(file) \in Nat
  BY EndsAre DEF LineNumbers
<1>1. s \in 0 .. Len(file) /\ IsStart(s) /\ CountTo(s) = k - 1
  <2>1. CASE k = 1
    BY <2>1, <1>0, Counts DEF LineStart, IsStart
  <2>2. CASE k # 1
    <3>1. k - 1 \in 1 .. CountTo(Len(file))
      BY <1>0, <2>2
    <3>2. PICK d \in 1 .. Len(file) : file[d] = "n" /\ CountTo(d) = k - 1
      BY <3>1, SomeNewline
    <3>3. d \in 0 .. Len(file) /\ IsStart(d) /\ CountTo(d) + 1 = k
      BY <1>0, <3>2 DEF IsStart
    <3>4. LineStart(k) = d
      BY <3>3, LineStartIs
    <3> QED BY <3>2, <3>3, <3>4
  <2> QED BY <2>1, <2>2
<1>2. /\ e \in 0 .. Len(file)
      /\ \/ e \in 1 .. Len(file) /\ file[e] = "n" /\ CountTo(e) = k
         \/ e = Len(file) /\ CountTo(e) = k - 1
  <2>1. CASE k <= c
    <3>1. k \in 1 .. CountTo(Len(file))
      BY <1>0, <2>1
    <3>2. PICK d \in 1 .. Len(file) : file[d] = "n" /\ CountTo(d) = k
      BY <3>1, SomeNewline
    <3>3. LineEnd(k) = d
      BY <3>2, LineEndIs
    <3> QED BY <3>2, <3>3
  <2>2. CASE k = c + 1
    <3>1. LineEnd(k) = Len(file)
      BY <2>2, LineEndIs
    <3> QED BY <1>0, <2>2, <3>1
  <2> QED BY <1>0, <2>1, <2>2
<1> HIDE DEF s, e, c
<1>3. s <= e
  <2> SUFFICES ASSUME e < s PROVE FALSE
    BY <1>1, <1>2
  <2>1. e \in 0 .. s /\ s \in e + 1 .. s /\ file[s] = "n" /\ s \in 0 .. Len(file)
    BY <1>1, <1>2 DEF IsStart
  <2>2. CountTo(e) < CountTo(s)
    BY <2>1, Counts
  <2> QED BY <1>0, <1>1, <1>2, <2>1, <2>2
<1>4. ASSUME NEW p \in s + 1 .. e PROVE CountTo(p - 1) + 1 = k
  <2>1. /\ p - 1 \in 0 .. Len(file) /\ s \in 0 .. p - 1 /\ p - 1 \in 0 .. e
        /\ e \in (p - 1) + 1 .. e
    BY <1>1, <1>2
  <2>2. /\ CountTo(p - 1) \in Nat /\ CountTo(s) <= CountTo(p - 1) /\ CountTo(p - 1) <= CountTo(e)
        /\ file[e] = "n" => CountTo(p - 1) < CountTo(e)
    BY <1>2, <2>1, Counts
  <2> QED BY <1>0, <1>1, <1>2, <2>2
<1>5. ASSUME NEW p \in 1 .. Len(file), CountTo(p - 1) + 1 = k PROVE p \in s + 1 .. e
  <2>1. p - 1 \in 0 .. Len(file) /\ CountTo(p - 1) \in Nat
    BY Counts
  <2>2. ASSUME s > p - 1 PROVE FALSE
    <3>1. s \in (p - 1) + 1 .. s /\ p - 1 \in 0 .. s /\ file[s] = "n"
      BY <1>1, <2>2 DEF IsStart
    <3>2. CountTo(p - 1) < CountTo(s)
      BY <1>1, <3>1, Counts
    <3> QED BY <1>0, <1>1, <1>5, <2>1, <3>2
  <2>3. ASSUME e < p PROVE FALSE
    <3>1. e \in 0 .. p - 1 /\ e # Len(file)
      BY <1>2, <2>3
    <3>2. CountTo(e) <= CountTo(p - 1)
      BY <2>1, <3>1, Counts
    <3> QED BY <1>0, <1>2, <1>5, <2>1, <3>1, <3>2
  <2> QED BY <1>1, <1>2, <2>2, <2>3
<1> QED BY <1>1, <1>2, <1>3, <1>4, <1>5 DEF s, e

\* A line matches if one of its bytes does.
LEMMA MatchingAre ==
  ASSUME file \in Seq(Bytes)
  PROVE  /\ Matching = {CountTo(p - 1) + 1 : p \in {x \in 1 .. Len(file) : file[x] = "m"}}
         /\ IsFiniteSet(Matching) /\ Matching \in SUBSET LineNumbers
         /\ LineNumbers \in SUBSET Nat
<1>1. ASSUME NEW k \in Matching
      PROVE  \E p \in 1 .. Len(file) : file[p] = "m" /\ k = CountTo(p - 1) + 1
  <2> DEFINE s == LineStart(k)
             e == LineEnd(k)
  <2>1. k \in LineNumbers /\ \E i \in 1 .. Len(Line(k)) : Line(k)[i] = "m"
    BY DEF Matching
  <2>2. PICK i \in 1 .. Len(Line(k)) : Line(k)[i] = "m"
    BY <2>1
  <2>0. k \in LineNumbers
    BY DEF Matching
  <2>3. /\ s \in 0 .. e /\ e \in 0 .. Len(file)
        /\ \A p \in s + 1 .. e : CountTo(p - 1) + 1 = k
    BY <2>0, LineOfByte
  <2>4. Line(k) = Slice(file, s, e)
    BY DEF Line
  <2> HIDE DEF s, e
  <2>7. /\ Len(Slice(file, s, e)) = e - s
        /\ \A x \in 1 .. e - s : Slice(file, s, e)[x] = file[s + x]
    BY <2>3, SliceIs
  <2>5. Len(Line(k)) = e - s /\ \A x \in 1 .. e - s : Line(k)[x] = file[s + x]
    BY <2>4, <2>7
  <2>6. s + i \in s + 1 .. e /\ s + i \in 1 .. Len(file) /\ file[s + i] = "m"
    BY <2>2, <2>3, <2>5
  <2> QED BY <2>3, <2>6
<1>2. ASSUME NEW p \in 1 .. Len(file), file[p] = "m" PROVE CountTo(p - 1) + 1 \in Matching
  <2> DEFINE k == CountTo(p - 1) + 1
             s == LineStart(k)
             e == LineEnd(k)
  <2>1. k \in LineNumbers
    <3>1. p - 1 \in 0 .. Len(file) /\ Len(file) \in 0 .. Len(file)
      OBVIOUS
    <3>2. CountTo(p - 1) \in Nat /\ CountTo(p - 1) <= CountTo(Len(file))
      BY <3>1, Counts
    <3> QED BY <3>2, EndsAre DEF LineNumbers
  <2>2. Line(k) = Slice(file, s, e)
    BY DEF Line
  <2>3. s \in 0 .. e /\ e \in 0 .. Len(file) /\ p \in s + 1 .. e
    BY <2>1, LineOfByte
  <2> HIDE DEF k, s, e
  <2>4. Len(Line(k)) = e - s /\ \A x \in 1 .. e - s : Line(k)[x] = file[s + x]
    BY <2>2, <2>3, SliceIs
  <2>5. p - s \in 1 .. e - s /\ s + (p - s) = p
    BY <2>3
  <2>6. Line(k)[p - s] = "m"
    BY <1>2, <2>4, <2>5
  <2>7. k \in Matching
    BY <2>1, <2>4, <2>5, <2>6 DEF Matching
  <2> QED BY <2>7 DEF k
<1>3. Matching \in SUBSET LineNumbers /\ LineNumbers \in SUBSET Nat /\ IsFiniteSet(LineNumbers)
  <2>1. Cardinality(Ends) + 1 \in Nat
    BY EndsAre
  <2>2. LineNumbers \in SUBSET Nat /\ IsFiniteSet(LineNumbers)
    BY <2>1, FS_Interval DEF LineNumbers
  <2>3. Matching \in SUBSET LineNumbers
    BY DEF Matching
  <2> QED BY <2>2, <2>3
<1>4. IsFiniteSet(Matching)
  BY <1>3, FS_Subset
<1> QED BY <1>1, <1>2, <1>3, <1>4
-----------------------------------------------------------------------------
\* The buffer is a part of the file.
LEMMA BufferIs ==
  ASSUME GrepTypeOK, BufferInv
  PROVE  /\ file \in Seq(Bytes) /\ buf \in Seq(Bytes)
         /\ Len(file) \in Nat /\ Len(buf) \in Nat /\ pos \in Nat /\ Base \in Nat
         /\ pos = Base + Len(buf) /\ pos <= Len(file)
         /\ end \in Nat /\ end <= Len(buf) /\ chunkStart \in Nat /\ chunkStart <= Len(buf)
         /\ lineno \in Nat /\ nmatches \in Nat
         /\ \A j \in 0 .. Len(buf) : \A i \in 0 .. j :
              Slice(buf, i, j) = Slice(file, Base + i, Base + j)
<1>1. file \in Seq(Bytes) /\ buf \in Seq(Bytes)
  BY FileIsSeq DEF GrepTypeOK, BufferInv
<1>2. Len(file) \in Nat /\ Len(buf) \in Nat
  BY <1>1
<1>3. /\ pos \in Nat /\ pos <= Len(file) /\ Len(buf) <= pos
      /\ end \in 0 .. Len(buf) /\ chunkStart \in 0 .. Len(buf)
      /\ lineno \in Nat /\ nmatches \in Nat
  BY <1>2 DEF GrepTypeOK, BufferInv
<1>4. Base \in Nat /\ pos = Base + Len(buf)
  BY <1>2, <1>3 DEF Base
<1>5. ASSUME NEW j \in 0 .. Len(buf), NEW i \in 0 .. j
      PROVE  Slice(buf, i, j) = Slice(file, Base + i, Base + j)
  <2>1. /\ Base + j \in 0 .. Len(file) /\ Base + i \in 0 .. Base + j
        /\ (Base + j) - (Base + i) = j - i
    BY <1>2, <1>3, <1>4
  <2>2. ASSUME NEW x \in 1 .. j - i PROVE buf[i + x] = file[(Base + i) + x]
    <3>1. i + x \in 1 .. Len(buf) /\ Base + (i + x) = (Base + i) + x
      BY <1>2, <1>4
    <3>2. buf[i + x] = file[Base + (i + x)]
      BY <3>1 DEF BufferInv
    <3> QED BY <3>1, <3>2
  <2> DEFINE k == Base + i
             l == Base + j
  <2>3. l \in 0 .. Len(file) /\ k \in 0 .. l /\ j - i = l - k
    BY <2>1
  <2>4. \A x \in 1 .. j - i : buf[i + x] = file[k + x]
    BY <2>2
  <2> HIDE DEF k, l
  <2> DEFINE a == Slice(buf, i, j)
             b == Slice(file, k, l)
  <2>6. /\ a \in Seq(Bytes) /\ Len(a) = j - i
        /\ \A x \in 1 .. j - i : a[x] = buf[i + x]
    BY <1>1, SliceIs
  <2>7. /\ b \in Seq(Bytes) /\ Len(b) = l - k
        /\ \A x \in 1 .. l - k : b[x] = file[k + x]
    BY <1>1, <2>3, SliceIs
  <2> HIDE DEF a, b
  <2>8. Len(a) = Len(b) /\ \A x \in 1 .. Len(a) : a[x] = b[x]
    BY <2>3, <2>4, <2>6, <2>7
  <2>9. a = b
    BY <2>6, <2>7, <2>8, SeqEqual
  <2>5. Slice(buf, i, j) = Slice(file, k, l)
    BY <2>9 DEF a, b
  <2> QED BY <2>5 DEF k, l
<1> QED BY <1>1, <1>2, <1>3, <1>4, <1>5

-----------------------------------------------------------------------------
\* How getPreCtx goes back from one line to the one before.
Back(b, c, s) == IF s <= c THEN s ELSE LastIndex(Slice(b, c, s - 1)) + 1 + c
IsBack(g, b, c, s) ==
  g = [k \in 0 .. 3 |-> IF k = 0 THEN s
                        ELSE IF g[k - 1] <= c THEN g[k - 1]
                        ELSE LastIndex(Slice(b, c, g[k - 1] - 1)) + 1 + c]

\* getPreCtx without its recursive function: three steps back.
LEMMA PreCtxUnfolded ==
  ASSUME NEW b, NEW c, NEW s, NEW l
  PROVE  \E g : /\ g[0] = s /\ \A k \in 1 .. 3 : g[k] = Back(b, c, g[k - 1])
                /\ getPreCtx(b, c, s, l) =
                     {<<l - k, Slice(b, g[k], g[k - 1])>> :
                        k \in {i \in 1 .. 3 : g[i] < g[i - 1]}}
<1> DEFINE f == CHOOSE g : IsBack(g, b, c, s)
           s1 == Back(b, c, s)
           s2 == Back(b, c, s1)
           s3 == Back(b, c, s2)
           h == [k \in 0 .. 3 |-> IF k = 0 THEN s ELSE IF k = 1 THEN s1
                                  ELSE IF k = 2 THEN s2 ELSE s3]
<1>1. getPreCtx(b, c, s, l) = {<<l - k, Slice(b, f[k], f[k - 1])>> :
                                 k \in {i \in 1 .. 3 : f[i] < f[i - 1]}}
  BY DEF getPreCtx, IsBack
<1>2. IsBack(h, b, c, s)
  <2> DEFINE r(k) == IF k = 0 THEN s ELSE Back(b, c, h[k - 1])
  <2>1. \A k \in 0 .. 3 : k = 0 \/ k = 1 \/ k = 2 \/ k = 3
    OBVIOUS
  <2>2. h[0] = s /\ h[1] = s1 /\ h[2] = s2 /\ h[3] = s3
    OBVIOUS
  <2> HIDE DEF s1, s2, s3
  <2>3. h[1] = Back(b, c, h[0]) /\ h[2] = Back(b, c, h[1]) /\ h[3] = Back(b, c, h[2])
    BY <2>2 DEF s1, s2, s3
  <2>4. ASSUME NEW k \in 0 .. 3 PROVE h[k] = r(k)
    <3> HIDE DEF h
    <3>0. CASE k = 0
      BY <2>2, <3>0
    <3>1. CASE k = 1
      BY <2>3, <3>1
    <3>2. CASE k = 2
      BY <2>3, <3>2
    <3>3. CASE k = 3
      BY <2>3, <3>3
    <3> QED BY <2>1, <3>0, <3>1, <3>2, <3>3
  <2>5. h = [k \in 0 .. 3 |-> h[k]]
    OBVIOUS
  <2> HIDE DEF h
  <2>6. h = [k \in 0 .. 3 |-> r(k)]
    BY <2>4, <2>5
  <2> QED BY <2>6 DEF IsBack, Back
<1> HIDE DEF h
<1>3. IsBack(f, b, c, s)
  BY <1>2
<1> HIDE DEF f
<1>4. f[0] = s /\ \A k \in 1 .. 3 : f[k] = Back(b, c, f[k - 1])
  BY <1>3 DEF IsBack, Back
<1> QED BY <1>1, <1>4

\* A step back: the line before, if s is the start of a line.
LEMMA BackIs ==
  ASSUME GrepTypeOK, BufferInv, NEW c \in 0 .. Len(buf), NEW s \in c + 1 .. Len(buf),
         IsStart(Base + c), IsStart(Base + s)
  PROVE  /\ Back(buf, c, s) \in c .. s - 1 /\ IsStart(Base + Back(buf, c, s))
         /\ CountTo(Base + s) = CountTo(Base + Back(buf, c, s)) + 1
         /\ Slice(buf, Back(buf, c, s), s) = Line(CountTo(Base + Back(buf, c, s)) + 1)
         /\ CountTo(Base + Back(buf, c, s)) + 1 \in LineNumbers
<1>0. /\ file \in Seq(Bytes) /\ buf \in Seq(Bytes) /\ Len(file) \in Nat /\ Len(buf) \in Nat
      /\ Base \in Nat /\ Base + Len(buf) <= Len(file)
      /\ \A j \in 0 .. Len(buf) : \A i \in 0 .. j :
           Slice(buf, i, j) = Slice(file, Base + i, Base + j)
  BY BufferIs
<1>b. \A i \in 1 .. Len(buf) : buf[i] = file[Base + i]
  BY DEF BufferInv
<1> DEFINE t == Slice(buf, c, s - 1)
           r == Back(buf, c, s)
           u == LastIndex(t)
<1>1. /\ t \in Seq(Bytes) /\ Len(t) = (s - 1) - c
      /\ \A x \in 1 .. (s - 1) - c : t[x] = buf[c + x]
  <2>1. s - 1 \in 0 .. Len(buf) /\ c \in 0 .. s - 1
    OBVIOUS
  <2> QED BY <1>0, <2>1, SliceIs
<1>r. r = u + 1 + c
  BY DEF Back
<1> HIDE DEF t, r
<1>2. /\ u \in -1 .. Len(t) - 1 /\ (u # -1 => t[u + 1] = "n")
      /\ \A x \in u + 2 .. Len(t) : t[x] # "n"
  BY <1>1, LastIndexIs
<1> HIDE DEF u
<1>3. r \in c .. s - 1
  BY <1>0, <1>1, <1>2, <1>r
<1>4. IsStart(Base + r)
  <2>1. CASE u = -1
    <3>1. r = c
      BY <1>r, <2>1
    <3> QED BY <3>1
  <2>2. CASE u # -1
    <3>1. u + 1 \in 1 .. (s - 1) - c /\ t[u + 1] = "n" /\ c + (u + 1) = r /\ r \in 1 .. Len(buf)
      BY <1>0, <1>1, <1>2, <1>r, <2>2
    <3>2. buf[r] = "n"
      BY <1>1, <3>1
    <3> QED BY <1>b, <3>1, <3>2 DEF IsStart
  <2> QED BY <2>1, <2>2
<1> DEFINE S == Base + s
           R == Base + r
<1>5. S \in 1 .. Len(file) /\ R \in 0 .. S - 1 /\ file[S] = "n"
  <2>1. S # 0
    BY <1>0
  <2> QED BY <1>0, <1>3, <2>1 DEF IsStart
<1>6. \A x \in R + 1 .. S - 1 : file[x] # "n"
  <2> SUFFICES ASSUME NEW x \in R + 1 .. S - 1 PROVE file[x] # "n"
    OBVIOUS
  <2>1. x - Base - c \in u + 2 .. Len(t) /\ x - Base - c \in 1 .. (s - 1) - c
    BY <1>0, <1>1, <1>2, <1>3, <1>r
  <2>2. t[x - Base - c] # "n" /\ t[x - Base - c] = buf[c + (x - Base - c)]
    BY <1>1, <1>2, <2>1
  <2>3. c + (x - Base - c) = x - Base /\ x - Base \in 1 .. Len(buf) /\ Base + (x - Base) = x
    BY <1>0, <1>3
  <2>4. buf[x - Base] = file[Base + (x - Base)]
    BY <1>b, <2>3
  <2> QED BY <2>2, <2>3, <2>4
<1>7. Slice(buf, r, s) = Slice(file, R, S)
  <2>1. s \in 0 .. Len(buf) /\ r \in 0 .. s
    BY <1>0, <1>3
  <2> QED BY <1>0, <2>1
<1> HIDE DEF S, R
<1>8. IsStart(R) /\ R \in 0 .. Len(file) /\ S \in R .. Len(file) /\ R < S
  BY <1>0, <1>4, <1>5 DEF R
<1>9. Line(CountTo(R) + 1) = Slice(file, R, S) /\ CountTo(R) + 1 \in LineNumbers
  BY <1>0, <1>5, <1>6, <1>8, LineIs
<1>10. CountTo(S) = CountTo(R) + 1
  BY <1>0, <1>5, <1>6, <1>8, CountOfLine
<1> QED BY <1>3, <1>4, <1>7, <1>9, <1>10 DEF r, R, S

\* Context before a match: lines of the file, before it and not before c.
LEMMA PreCtxIs ==
  ASSUME GrepTypeOK, BufferInv, NEW c \in 0 .. Len(buf), NEW s \in c .. Len(buf),
         IsStart(Base + c), IsStart(Base + s), NEW l, l = CountTo(Base + s) + 1,
         NEW e \in getPreCtx(buf, c, s, l)
  PROVE  /\ e[1] \in LineNumbers /\ e[1] >= CountTo(Base + c) + 1 /\ e[1] < l
         /\ e[2] = Line(e[1]) /\ Len(e[2]) <= BufSize
<1>0. /\ file \in Seq(Bytes) /\ buf \in Seq(Bytes) /\ Len(file) \in Nat /\ Len(buf) \in Nat
      /\ Base \in Nat /\ Base + Len(buf) <= Len(file)
  BY BufferIs
<1>1. PICK g : /\ g[0] = s /\ \A k \in 1 .. 3 : g[k] = Back(buf, c, g[k - 1])
               /\ getPreCtx(buf, c, s, l) =
                     {<<l - k, Slice(buf, g[k], g[k - 1])>> :
                        k \in {i \in 1 .. 3 : g[i] < g[i - 1]}}
  BY PreCtxUnfolded
<1> DEFINE Q(k) == /\ g[k] \in c .. Len(buf) /\ IsStart(Base + g[k])
                   /\ g[k] = c \/ CountTo(Base + g[k]) = l - 1 - k
<1>c. \A x \in c .. Len(buf) : /\ CountTo(Base + x) \in Nat
                               /\ CountTo(Base + c) <= CountTo(Base + x)
  <2> SUFFICES ASSUME NEW x \in c .. Len(buf)
               PROVE  /\ CountTo(Base + x) \in Nat
                      /\ CountTo(Base + c) <= CountTo(Base + x)
    OBVIOUS
  <2>1. Base + x \in 0 .. Len(file) /\ Base + c \in 0 .. Base + x
    BY <1>0
  <2> QED BY <1>0, <2>1, Counts
<1>l. l \in Nat
  BY <1>c
<1>2. ASSUME NEW k \in 1 .. 3, Q(k - 1)
      PROVE  /\ Q(k)
             /\ g[k] < g[k - 1] =>
                  /\ l - k \in LineNumbers /\ l - k >= CountTo(Base + c) + 1
                  /\ Slice(buf, g[k], g[k - 1]) = Line(l - k)
  <2>1. CASE g[k - 1] = c
    <3>1. g[k] = c
      BY <1>1, <2>1 DEF Back
    <3> QED BY <1>0, <1>2, <2>1, <3>1
  <2>2. CASE g[k - 1] # c
    <3> DEFINE p == g[k - 1]
               r == Back(buf, c, g[k - 1])
    <3>1. p \in c + 1 .. Len(buf) /\ IsStart(Base + p) /\ CountTo(Base + p) = l - 1 - (k - 1)
      BY <1>0, <1>2, <2>2
    <3>r. g[k] = r
      BY <1>1
    <3>2. /\ r \in c .. p - 1 /\ IsStart(Base + r)
          /\ CountTo(Base + p) = CountTo(Base + r) + 1
          /\ Slice(buf, r, p) = Line(CountTo(Base + r) + 1)
          /\ CountTo(Base + r) + 1 \in LineNumbers
      <4> HIDE DEF p
      <4>1. Back(buf, c, p) = r
        BY DEF p
      <4>2. /\ Back(buf, c, p) \in c .. p - 1 /\ IsStart(Base + Back(buf, c, p))
            /\ CountTo(Base + p) = CountTo(Base + Back(buf, c, p)) + 1
            /\ Slice(buf, Back(buf, c, p), p) = Line(CountTo(Base + Back(buf, c, p)) + 1)
            /\ CountTo(Base + Back(buf, c, p)) + 1 \in LineNumbers
        BY <3>1, BackIs
      <4> QED BY <4>1, <4>2
    <3> HIDE DEF p, r
    <3>3. /\ r \in c .. Len(buf) /\ CountTo(Base + r) \in Nat
          /\ CountTo(Base + c) <= CountTo(Base + r) /\ CountTo(Base + c) \in Nat
      <4>1. r \in c .. Len(buf) /\ c \in c .. Len(buf)
        BY <1>0, <3>1, <3>2
      <4> QED BY <1>c, <4>1
    <3>4. CountTo(Base + r) + 1 = l - k
      <4>1. CountTo(Base + p) = l - k
        BY <1>l, <3>1
      <4> QED BY <3>2, <4>1
    <3>5. CountTo(Base + r) = l - 1 - k
      BY <1>l, <3>3, <3>4
    <3>6. Q(k)
      BY <3>r, <3>2, <3>3, <3>5
    <3>7. l - k \in LineNumbers /\ Slice(buf, g[k], p) = Line(l - k)
      BY <3>r, <3>2, <3>4
    <3>8. l - k >= CountTo(Base + c) + 1
      BY <3>3, <3>4
    <3> QED BY <3>6, <3>7, <3>8 DEF p
  <2> QED BY <2>1, <2>2
<1>3. Q(0)
  BY <1>l, <1>1, <1>c
<1> HIDE DEF Q
<1>4. \A k \in 1 .. 3 : Q(k - 1)
  <2>1. Q(1)
    BY <1>2, <1>3
  <2>2. Q(2)
    BY <1>2, <2>1
  <2> QED BY <1>3, <2>1, <2>2
<1>5. PICK k \in 1 .. 3 : g[k] < g[k - 1] /\ e = <<l - k, Slice(buf, g[k], g[k - 1])>>
  BY <1>1
<1>6. l - k \in LineNumbers /\ l - k >= CountTo(Base + c) + 1 /\ e[2] = Line(l - k)
  BY <1>2, <1>4, <1>5
<1>7. Len(e[2]) <= BufSize
  <2> DEFINE u == g[k]
             v == g[k - 1]
  <2>1. Q(k) /\ Q(k - 1)
    BY <1>2, <1>4
  <2>2. v \in c .. Len(buf) /\ u \in c .. Len(buf)
    BY <2>1 DEF Q
  <2>3. u < v /\ e[2] = Slice(buf, u, v)
    BY <1>5
  <2> HIDE DEF u, v
  <2>4. v \in 0 .. Len(buf) /\ u \in 0 .. v
    BY <1>0, <2>2, <2>3
  <2>5. Len(Slice(buf, u, v)) = v - u
    BY <1>0, <2>4, SliceIs
  <2>6. Len(buf) <= BufSize /\ BufSize \in Nat
    BY SizesAreNat DEF GrepTypeOK
  <2> QED BY <1>0, <2>3, <2>4, <2>5, <2>6
<1> QED BY <1>l, <1>5, <1>6, <1>7

\* Context after a match has the numbers after it.
LEMMA PostCtxIs ==
  ASSUME NEW b \in Seq(Bytes), NEW last \in 0 .. Len(b), NEW m1 \in 0 .. last,
         NEW l \in Nat, NEW e \in getPostCtx(b, m1, last, l)
  PROVE  e[1] \in l + 1 .. l + 3 /\ Len(e[2]) \in Nat /\ Len(e[2]) <= Len(b)
<1> DEFINE d == Index(Slice(b, m1, last)) + 1
           next(s) == IF s >= last THEN s ELSE Min({last, d + s})
           R(g) == g = [k \in 0 .. 4 |-> IF k = 0 THEN m1 ELSE next(g[k - 1])]
           f == CHOOSE g : R(g)
           s1 == next(m1)
           s2 == next(s1)
           s3 == next(s2)
           s4 == next(s3)
           h == [k \in 0 .. 4 |-> IF k = 0 THEN m1 ELSE IF k = 1 THEN s1
                                  ELSE IF k = 2 THEN s2 ELSE IF k = 3 THEN s3 ELSE s4]
<1>1. getPostCtx(b, m1, last, l) =
        {<<l + k - 1, Slice(b, f[k - 1], f[k])>> : k \in {i \in 2 .. 4 : f[i - 1] < last}}
  <2>1. \A s : Index(Slice(b, m1, last)) + 1 + s = d + s
    OBVIOUS
  <2> QED BY <2>1 DEF getPostCtx
<1>d. d \in Nat
  <2>1. Slice(b, m1, last) \in Seq(Bytes)
    BY SliceIs
  <2>2. Index(Slice(b, m1, last)) \in -1 .. Len(Slice(b, m1, last)) - 1
    BY <2>1, IndexIs
  <2> HIDE DEF d
  <2> QED BY <2>1, <2>2 DEF d
<1> HIDE DEF d
<1>n. ASSUME NEW s \in m1 .. last PROVE next(s) \in s .. last
  <2>1. CASE s >= last
    BY <2>1
  <2>2. CASE ~(s >= last)
    <3>1. {last, d + s} \in SUBSET Nat /\ {last, d + s} # {}
      BY <1>d
    <3>2. /\ Min({last, d + s}) \in {last, d + s}
          /\ \A y \in {last, d + s} : Min({last, d + s}) <= y
      BY <3>1, MinIsLeast
    <3> QED BY <1>d, <2>2, <3>2
  <2> QED BY <2>1, <2>2
<1>2. R(h)
  <2>1. h[0] = m1 /\ h[1] = s1 /\ h[2] = s2 /\ h[3] = s3 /\ h[4] = s4
    OBVIOUS
  <2>2. h = [k \in 0 .. 4 |-> h[k]]
    OBVIOUS
  <2> HIDE DEF h, next
  <2>3. ASSUME NEW k \in 0 .. 4 PROVE h[k] = IF k = 0 THEN m1 ELSE next(h[k - 1])
    <3>0. CASE k = 0
      BY <2>1, <3>0
    <3>1. CASE k = 1
      BY <2>1, <3>1
    <3>2. CASE k = 2
      BY <2>1, <3>2
    <3>3. CASE k = 3
      BY <2>1, <3>3
    <3>4. CASE k = 4
      BY <2>1, <3>4
    <3> QED BY <3>0, <3>1, <3>2, <3>3, <3>4
  <2> QED BY <2>2, <2>3
<1> HIDE DEF h, next
<1>3. R(f)
  BY <1>2
<1> HIDE DEF f
<1>4. f[0] = m1 /\ \A k \in 1 .. 4 : f[k] = next(f[k - 1])
  BY <1>3
<1>5. ASSUME NEW k \in 1 .. 4, f[k - 1] \in m1 .. last PROVE f[k] \in f[k - 1] .. last
  BY <1>4, <1>5, <1>n
<1>6. /\ f[1] \in m1 .. last /\ f[2] \in f[1] .. last /\ f[3] \in f[2] .. last
      /\ f[4] \in f[3] .. last
  <2>0. f[0] \in m1 .. last /\ f[0] = m1
    BY <1>4
  <2>1. f[1] \in m1 .. last
    BY <1>5, <2>0
  <2>2. f[2] \in f[1] .. last /\ f[2] \in m1 .. last
    BY <1>5, <2>1
  <2>3. f[3] \in f[2] .. last /\ f[3] \in m1 .. last
    BY <1>5, <2>2
  <2>4. f[4] \in f[3] .. last
    BY <1>5, <2>3
  <2> QED BY <2>1, <2>2, <2>3, <2>4
<1>7. PICK k \in 2 .. 4 : e = <<l + k - 1, Slice(b, f[k - 1], f[k])>>
  BY <1>1
<1>8. f[k] \in 0 .. Len(b) /\ f[k - 1] \in 0 .. f[k]
  <2> DEFINE a1 == f[1]
             a2 == f[2]
             a3 == f[3]
             a4 == f[4]
  <2>a. /\ a1 \in m1 .. last /\ a2 \in a1 .. last /\ a3 \in a2 .. last /\ a4 \in a3 .. last
        /\ m1 \in Nat /\ last \in Nat /\ last <= Len(b) /\ Len(b) \in Nat
    BY <1>6
  <2> HIDE DEF a1, a2, a3, a4
  <2>b. /\ a1 \in 0 .. Len(b) /\ a2 \in 0 .. Len(b) /\ a3 \in 0 .. Len(b)
        /\ a4 \in 0 .. Len(b) /\ a1 <= a2 /\ a2 <= a3 /\ a3 <= a4
    BY <2>a
  <2>0. /\ f[1] \in 0 .. Len(b) /\ f[2] \in 0 .. Len(b) /\ f[3] \in 0 .. Len(b)
        /\ f[4] \in 0 .. Len(b) /\ f[1] <= f[2] /\ f[2] <= f[3] /\ f[3] <= f[4]
    BY <2>b DEF a1, a2, a3, a4
  <2>1. CASE k = 2
    BY <2>0, <2>1
  <2>2. CASE k = 3
    BY <2>0, <2>2
  <2>3. CASE k = 4
    BY <2>0, <2>3
  <2> QED BY <2>1, <2>2, <2>3
<1> DEFINE u == f[k - 1]
           v == f[k]
<1>9. v \in 0 .. Len(b) /\ u \in 0 .. v /\ e[2] = Slice(b, u, v) /\ e[1] = l + k - 1
  BY <1>7, <1>8
<1> HIDE DEF u, v
<1>10. Len(Slice(b, u, v)) = v - u
  BY <1>9, SliceIs
<1> QED BY <1>9, <1>10

-----------------------------------------------------------------------------
\* What MatchLine works out: the end of the match, the line's start, end and
\* number.
M1 == Match(Slice(buf, chunkStart, end)) + chunkStart
LStart == LastIndex(Slice(buf, chunkStart, M1)) + 1 + chunkStart
LEnd == IF M1 + 1 > end THEN end ELSE M1 + 1
LNo == lineno + countNL(Slice(buf, chunkStart, LStart))

\* The first byte that matches is in a line of the chunk; MatchLine finds where
\* the line starts and ends.
LEMMA MatchedLine ==
  ASSUME GrepTypeOK, BufferInv, ChunkInv, IsStart(Done), chunkStart < end, M1 >= chunkStart
  PROVE  /\ M1 \in chunkStart .. end
         /\ LStart \in chunkStart .. end - 1 /\ LEnd \in LStart + 1 .. end
         /\ IsStart(Base + LStart)
         /\ \A x \in Base + LStart + 1 .. Base + LEnd - 1 : file[x] # "n"
         /\ \E h \in Base + LStart + 1 .. Base + LEnd :
              file[h] = "m" /\ \A x \in Done + 1 .. h - 1 : file[x] # "m"
         /\ \/ file[Base + LEnd] = "n"
            \/ rerr # "nil" /\ LEnd = end
<1>0. /\ file \in Seq(Bytes) /\ buf \in Seq(Bytes) /\ Len(file) \in Nat /\ Len(buf) \in Nat
      /\ Base \in Nat /\ Base + Len(buf) <= Len(file)
      /\ end \in Nat /\ end <= Len(buf) /\ chunkStart \in Nat /\ chunkStart <= Len(buf)
  BY BufferIs
<1>b. \A i \in 1 .. Len(buf) : buf[i] = file[Base + i]
  BY DEF BufferInv
<1> DEFINE c == chunkStart
           t == Slice(buf, c, end)
           m == Match(t)
<1>1. /\ t \in Seq(Bytes) /\ Len(t) = end - c
      /\ \A x \in 1 .. end - c : t[x] = buf[c + x]
  <2>1. end \in 0 .. Len(buf) /\ c \in 0 .. end
    BY <1>0
  <2> QED BY <1>0, <2>1, SliceIs
<1>m. M1 = m + c
  BY DEF M1
<1> HIDE DEF t
<1>2. \/ m = -1 /\ \A x \in 1 .. Len(t) : t[x] # "m"
      \/ \E h \in 1 .. Len(t) :
              /\ t[h] = "m" /\ \A x \in 1 .. h - 1 : t[x] # "m"
              /\ m \in h .. Len(t)
              /\ m < Len(t) => t[m + 1] = "n"
              /\ \A x \in h .. m : t[x] # "n"
  BY <1>1, MatchIs
<1> HIDE DEF m
<1>3. m # -1
  BY <1>0, <1>m
<1>4. PICK h \in 1 .. Len(t) :
              /\ t[h] = "m" /\ \A x \in 1 .. h - 1 : t[x] # "m"
              /\ m \in h .. Len(t)
              /\ m < Len(t) => t[m + 1] = "n"
              /\ \A x \in h .. m : t[x] # "n"
  BY <1>2, <1>3
<1> DEFINE H == c + h
<1>5. H \in c + 1 .. M1 /\ M1 \in c + 1 .. end /\ H \in Nat /\ M1 \in Nat
  BY <1>0, <1>1, <1>4, <1>m
<1>6. ASSUME NEW x \in c + 1 .. end PROVE buf[x] = t[x - c] /\ buf[x] = file[Base + x]
  <2>1. x - c \in 1 .. end - c /\ c + (x - c) = x /\ x \in 1 .. Len(buf)
    BY <1>0
  <2> QED BY <1>b, <1>1, <2>1
<1>7. buf[H] = "m"
  <2>1. H \in c + 1 .. end /\ H - c = h
    BY <1>0, <1>1
  <2> QED BY <1>4, <1>6, <2>1
<1>8. \A x \in c + 1 .. H - 1 : buf[x] # "m"
  <2> SUFFICES ASSUME NEW x \in c + 1 .. H - 1 PROVE buf[x] # "m"
    OBVIOUS
  <2>1. x \in c + 1 .. end /\ x - c \in 1 .. h - 1
    BY <1>0, <1>1
  <2> QED BY <1>4, <1>6, <2>1
<1>9. \A x \in H .. M1 : buf[x] # "n"
  <2> SUFFICES ASSUME NEW x \in H .. M1 PROVE buf[x] # "n"
    OBVIOUS
  <2>1. x \in c + 1 .. end /\ x - c \in h .. m
    BY <1>0, <1>1, <1>4, <1>m, <1>5
  <2> QED BY <1>4, <1>6, <2>1
<1>10. M1 < end => buf[M1 + 1] = "n"
  <2> SUFFICES ASSUME M1 < end PROVE buf[M1 + 1] = "n"
    OBVIOUS
  <2>1. M1 + 1 \in c + 1 .. end /\ (M1 + 1) - c = m + 1 /\ m < Len(t)
    BY <1>0, <1>1, <1>4, <1>m, <1>5
  <2> QED BY <1>4, <1>6, <2>1
<1> DEFINE v == Slice(buf, c, M1)
           u == LastIndex(v)
<1>11. /\ v \in Seq(Bytes) /\ Len(v) = M1 - c
       /\ \A x \in 1 .. M1 - c : v[x] = buf[c + x]
  <2>1. M1 \in 0 .. Len(buf) /\ c \in 0 .. M1
    BY <1>0, <1>5
  <2> QED BY <1>0, <2>1, SliceIs
<1>u. LStart = u + 1 + c
  BY DEF LStart
<1> HIDE DEF v, H
<1>12. /\ u \in -1 .. Len(v) - 1 /\ (u # -1 => v[u + 1] = "n")
       /\ \A x \in u + 2 .. Len(v) : v[x] # "n"
  BY <1>11, LastIndexIs
<1> HIDE DEF u
<1>13. LStart \in c .. M1 /\ (LStart > c => buf[LStart] = "n")
  <2>1. LStart \in c .. M1
    BY <1>0, <1>5, <1>11, <1>12, <1>u
  <2>2. ASSUME LStart > c PROVE buf[LStart] = "n"
    <3>1. u # -1 /\ u + 1 \in 1 .. M1 - c /\ c + (u + 1) = LStart
      BY <1>0, <1>5, <1>11, <1>12, <1>u, <2>2
    <3> QED BY <1>11, <1>12, <3>1
  <2> QED BY <2>1, <2>2
<1>14. \A x \in LStart + 1 .. M1 : buf[x] # "n"
  <2> SUFFICES ASSUME NEW x \in LStart + 1 .. M1 PROVE buf[x] # "n"
    OBVIOUS
  <2>1. x - c \in u + 2 .. Len(v) /\ x - c \in 1 .. M1 - c /\ c + (x - c) = x
    BY <1>0, <1>5, <1>11, <1>12, <1>13, <1>u
  <2> QED BY <1>11, <1>12, <2>1
<1>15. LStart < H
  <2> SUFFICES ASSUME LStart >= H PROVE FALSE
    BY <1>0, <1>5, <1>13
  <2>1. LStart \in H .. M1 /\ LStart > c
    BY <1>0, <1>5, <1>13
  <2> QED BY <1>9, <1>13, <2>1
<1>16. LEnd \in M1 .. end /\ LEnd <= M1 + 1 /\ (LEnd = M1 => LEnd = end)
  BY <1>0, <1>5 DEF LEnd
<1>17. LStart \in c .. end - 1 /\ LEnd \in LStart + 1 .. end /\ LEnd \in Nat /\ LStart \in Nat
  BY <1>0, <1>5, <1>13, <1>15, <1>16
<1>18. IsStart(Base + LStart)
  <2>1. CASE LStart = c
    BY <2>1 DEF Done
  <2>2. CASE LStart # c
    <3>1. buf[LStart] = "n" /\ LStart \in c + 1 .. end
      BY <1>0, <1>13, <1>17, <2>2
    <3> QED BY <1>6, <3>1 DEF IsStart
  <2> QED BY <2>1, <2>2
<1>19. \A x \in Base + LStart + 1 .. Base + LEnd - 1 : file[x] # "n"
  <2> SUFFICES ASSUME NEW x \in Base + LStart + 1 .. Base + LEnd - 1 PROVE file[x] # "n"
    OBVIOUS
  <2>1. x - Base \in LStart + 1 .. M1 /\ x - Base \in c + 1 .. end /\ Base + (x - Base) = x
    BY <1>0, <1>5, <1>16, <1>17
  <2> QED BY <1>6, <1>14, <2>1
<1>20. /\ Base + H \in Base + LStart + 1 .. Base + LEnd /\ file[Base + H] = "m"
       /\ \A x \in Done + 1 .. Base + H - 1 : file[x] # "m"
  <2>1. H \in c + 1 .. end /\ Base + H \in Base + LStart + 1 .. Base + LEnd
    BY <1>0, <1>5, <1>15, <1>16, <1>17
  <2>2. ASSUME NEW x \in Done + 1 .. Base + H - 1 PROVE file[x] # "m"
    <3>1. x - Base \in c + 1 .. H - 1 /\ x - Base \in c + 1 .. end /\ Base + (x - Base) = x
      BY <1>0, <1>5 DEF Done
    <3> QED BY <1>6, <1>8, <3>1
  <2> QED BY <1>6, <1>7, <2>1, <2>2
<1>21. file[Base + LEnd] = "n" \/ (rerr # "nil" /\ LEnd = end)
  <2>1. CASE LEnd = M1 + 1
    <3>1. M1 < end /\ LEnd \in c + 1 .. end
      BY <1>0, <1>5, <1>16, <2>1
    <3> QED BY <1>6, <1>10, <2>1, <3>1
  <2>2. CASE LEnd = M1
    <3>1. LEnd = end /\ end \in H .. M1 /\ end # 0
      BY <1>0, <1>5, <1>16, <2>2
    <3>2. buf[end] # "n"
      BY <1>9, <3>1
    <3> QED BY <3>1, <3>2 DEF ChunkInv
  <2> QED BY <1>5, <1>16, <2>1, <2>2
<1> QED BY <1>0, <1>5, <1>17, <1>18, <1>19, <1>20, <1>21

\* The bytes before the start of a line are those of the lines before it.
LEMMA Behind ==
  ASSUME file \in Seq(Bytes), NEW s \in 0 .. Len(file), IsStart(s), NEW p \in 1 .. Len(file)
  PROVE  /\ CountTo(p - 1) \in Nat /\ CountTo(s) \in Nat
         /\ p <= s => CountTo(p - 1) < CountTo(s)
         /\ p > s => CountTo(s) <= CountTo(p - 1)
<1>0. p - 1 \in 0 .. Len(file) /\ Len(file) \in Nat
  OBVIOUS
<1>1. CountTo(p - 1) \in Nat /\ CountTo(s) \in Nat
  BY <1>0, Counts
<1>2. ASSUME p <= s PROVE CountTo(p - 1) < CountTo(s)
  <2>1. s \in (p - 1) + 1 .. s /\ file[s] = "n" /\ p - 1 \in 0 .. s
    BY <1>2 DEF IsStart
  <2> QED BY <2>1, Counts
<1>3. ASSUME p > s PROVE CountTo(s) <= CountTo(p - 1)
  <2>1. s \in 0 .. p - 1
    BY <1>3
  <2> QED BY <1>0, <2>1, Counts
<1> QED BY <1>1, <1>2, <1>3

\* The line found is the next that matches, and its number is right; it is
\* whole unless the read failed.
LEMMA MatchedNumber ==
  ASSUME GrepTypeOK, BufferInv, ChunkInv, LineInv, step = "match",
         chunkStart < end, M1 >= chunkStart
  PROVE  /\ IsStart(Done) /\ lineno = CountTo(Done) + 1
         /\ LNo = CountTo(Base + LStart) + 1 /\ LNo \in lineno .. Len(file)
         /\ LNo \in Matching /\ \A k \in Matching : k < LNo => k < lineno
         /\ rerr # "fault" => Line(LNo) = Slice(buf, LStart, LEnd)
         /\ \/ IsStart(Base + LEnd) /\ LNo = CountTo(Base + LEnd)
            \/ rerr # "nil" /\ LEnd = end /\ LNo = CountTo(Base + LEnd) + 1
<1>0. /\ file \in Seq(Bytes) /\ buf \in Seq(Bytes) /\ Len(file) \in Nat /\ Len(buf) \in Nat
      /\ Base \in Nat /\ Base + Len(buf) <= Len(file) /\ pos = Base + Len(buf)
      /\ end \in Nat /\ end <= Len(buf) /\ chunkStart \in Nat /\ chunkStart <= Len(buf)
      /\ lineno \in Nat
      /\ \A j \in 0 .. Len(buf) : \A i \in 0 .. j :
           Slice(buf, i, j) = Slice(file, Base + i, Base + j)
  BY BufferIs
<1>1. IsStart(Done) /\ lineno = CountTo(Done) + 1
  BY <1>0 DEF LineInv
<1>2. /\ LStart \in chunkStart .. end - 1 /\ LEnd \in LStart + 1 .. end
      /\ IsStart(Base + LStart)
      /\ \A x \in Base + LStart + 1 .. Base + LEnd - 1 : file[x] # "n"
      /\ \E h \in Base + LStart + 1 .. Base + LEnd :
           file[h] = "m" /\ \A x \in Done + 1 .. h - 1 : file[x] # "m"
      /\ \/ file[Base + LEnd] = "n"
         \/ rerr # "nil" /\ LEnd = end
  BY <1>1, MatchedLine
<1> DEFINE S == Base + LStart
           E == Base + LEnd
<1>3. PICK h \in S + 1 .. E : file[h] = "m" /\ \A x \in Done + 1 .. h - 1 : file[x] # "m"
  BY <1>2
<1>4. /\ Done \in 0 .. Len(file) /\ S \in 0 .. Len(file) /\ S < Len(file) /\ E \in 0 .. Len(file)
      /\ S \in 0 .. E /\ E \in S .. Len(file) /\ E \in S + 1 .. Len(file)
      /\ Done \in 0 .. S /\ LStart \in 0 .. Len(buf) /\ LEnd \in 0 .. Len(buf)
      /\ chunkStart \in 0 .. LStart /\ LStart \in 0 .. LEnd
  BY <1>0, <1>2 DEF Done
<1>5. LNo = CountTo(S) + 1 /\ CountTo(S) \in Nat /\ CountTo(Done) \in Nat /\ CountTo(Done) <= CountTo(S)
      /\ CountTo(S) <= S
  <2>1. Slice(buf, chunkStart, LStart) = Slice(file, Done, S)
    BY <1>0, <1>4 DEF Done
  <2>2. /\ CountTo(S) = CountTo(Done) + countNL(Slice(file, Done, S)) /\ CountTo(S) \in Nat
        /\ CountTo(Done) \in Nat /\ CountTo(Done) <= CountTo(S) /\ CountTo(S) <= S
    BY <1>0, <1>4, Counts
  <2>3. countNL(Slice(file, Done, S)) \in Nat
    BY <1>0, <1>4, CountOfSlice
  <2>4. LNo = lineno + countNL(Slice(file, Done, S))
    BY <2>1 DEF LNo
  <2> HIDE DEF S
  <2> QED BY <1>1, <2>2, <2>3, <2>4
<1>6. LNo \in lineno .. Len(file)
  <2>1. S \in Nat /\ S < Len(file) /\ Len(file) \in Nat /\ lineno \in Nat
    BY <1>0, <1>4
  <2> HIDE DEF S
  <2>2. lineno <= LNo /\ LNo <= Len(file) /\ LNo \in Nat
    BY <1>1, <1>5, <2>1
  <2> QED BY <2>1, <2>2
<1>s. IsStart(S) /\ \A x \in S + 1 .. E - 1 : file[x] # "n"
  <2>1. IsStart(S)
    BY <1>2
  <2>2. \A x \in Base + LStart + 1 .. Base + LEnd - 1 : file[x] # "n"
    BY <1>2
  <2>3. Base + LEnd - 1 = E - 1
    BY <1>0, <1>2
  <2> QED BY <2>1, <2>2, <2>3
<1>e. file[E] = "n" \/ (rerr # "nil" /\ LEnd = end)
  BY <1>2
<1> HIDE DEF S, E
<1>7. h \in 1 .. Len(file) /\ h - 1 \in 0 .. Len(file) /\ CountTo(h - 1) = CountTo(S)
  <2>1. h \in 1 .. Len(file) /\ h - 1 \in 0 .. Len(file) /\ S \in 0 .. h - 1
    BY <1>0, <1>4
  <2>2. \A x \in S + 1 .. h - 1 : file[x] # "n"
    <3> SUFFICES ASSUME NEW x \in S + 1 .. h - 1 PROVE file[x] # "n"
      OBVIOUS
    <3>1. x \in S + 1 .. E - 1
      BY <1>4
    <3> QED BY <1>s, <3>1
  <2> QED BY <1>0, <2>1, <2>2, Counts
<1>8. LNo \in Matching
  BY <1>0, <1>3, <1>5, <1>7, MatchingAre
<1>9. ASSUME NEW k \in Matching, k < LNo PROVE k < lineno
  <2>1. PICK p \in 1 .. Len(file) : file[p] = "m" /\ k = CountTo(p - 1) + 1
    BY <1>0, MatchingAre
  <2>2. CASE p <= Done
    <3>1. CountTo(p - 1) < CountTo(Done) /\ CountTo(p - 1) \in Nat
      BY <1>0, <1>1, <1>4, <2>2, Behind
    <3> QED BY <1>1, <1>5, <2>1, <3>1
  <2>3. CASE p > Done
    <3>1. ~ (p \in Done + 1 .. h - 1)
      BY <1>3, <2>1
    <3>2. p >= h
      BY <1>4, <1>7, <2>3, <3>1
    <3>3. h - 1 \in 0 .. p - 1 /\ p - 1 \in 0 .. Len(file)
      BY <1>0, <1>7, <3>2
    <3>4. CountTo(h - 1) <= CountTo(p - 1) /\ CountTo(p - 1) \in Nat
      BY <1>0, <3>3, Counts
    <3> QED BY <1>5, <1>7, <1>9, <2>1, <3>4
  <2> QED BY <1>4, <2>2, <2>3
<1>10. ASSUME rerr # "fault" PROVE Line(LNo) = Slice(buf, LStart, LEnd)
  <2>1. E = Len(file) \/ (S < E /\ file[E] = "n")
    <3>1. CASE file[E] = "n"
      BY <1>4, <3>1
    <3>2. CASE rerr # "nil" /\ LEnd = end
      <4>1. end = Len(buf) /\ pos = Len(file)
        BY <1>10, <3>2 DEF ChunkInv, GrepTypeOK
      <4> QED BY <1>0, <3>2, <4>1 DEF E
    <3> QED BY <1>e, <3>1, <3>2
  <2>2. Line(CountTo(S) + 1) = Slice(file, S, E)
    BY <1>0, <1>s, <1>4, <2>1, LineIs
  <2>3. Slice(buf, LStart, LEnd) = Slice(file, S, E)
    BY <1>0, <1>4 DEF S, E
  <2> QED BY <1>5, <2>2, <2>3
<1>11. \/ IsStart(E) /\ LNo = CountTo(E)
       \/ rerr # "nil" /\ LEnd = end /\ LNo = CountTo(E) + 1
  <2>1. CASE file[E] = "n"
    <3>1. CountTo(E) = CountTo(S) + 1
      BY <1>0, <1>s, <1>4, <2>1, CountOfLine
    <3> QED BY <1>5, <2>1, <3>1 DEF IsStart
  <2>2. CASE file[E] # "n"
    <3>1. \A x \in S + 1 .. E : file[x] # "n"
      BY <1>s, <1>4, <2>2
    <3>2. CountTo(E) = CountTo(S)
      BY <1>0, <1>4, <3>1, Counts
    <3>3. rerr # "nil" /\ LEnd = end
      BY <1>e, <2>2
    <3>4. LNo = CountTo(E) + 1
      BY <1>5, <3>2
    <3> QED BY <3>3, <3>4
  <2> QED BY <2>1, <2>2
<1>12. LNo = CountTo(Base + LStart) + 1
  BY <1>5 DEF S
<1>13. \/ IsStart(Base + LEnd) /\ LNo = CountTo(Base + LEnd)
       \/ rerr # "nil" /\ LEnd = end /\ LNo = CountTo(Base + LEnd) + 1
  BY <1>11 DEF E
<1> QED BY <1>1, <1>6, <1>8, <1>9, <1>10, <1>12, <1>13

\* The reader does not change the file, nor what is said of it.
LEMMA SameFile ==
  ASSUME file' = file
  PROVE  /\ Matching' = Matching /\ LineNumbers' = LineNumbers
         /\ \A k : Line(k)' = Line(k)
         /\ \A e : CountTo(e)' = CountTo(e)
         /\ \A s : IsStart(s)' = IsStart(s)
<1>1. LineNumbers' = LineNumbers
  BY DEF LineNumbers, Ends
<1>2. \A k : Line(k)' = Line(k)
  BY <1>1 DEF Line, LineStart, LineEnd, Ends
<1>3. Matching' = Matching
  BY <1>1, <1>2 DEF Matching
<1>4. \A e : CountTo(e)' = CountTo(e)
  BY DEF CountTo
<1>5. \A s : IsStart(s)' = IsStart(s)
  BY DEF IsStart
<1> QED BY <1>1, <1>2, <1>3, <1>4, <1>5
-----------------------------------------------------------------------------
\* The initial states satisfy the invariant.
LEMMA GrepStarts == GrepInit => GrepInv
<1> SUFFICES ASSUME GrepInit PROVE GrepInv
  OBVIOUS
<1> USE DEF GrepInit
<1>0. file \in Seq(Bytes)
  BY FileIsSeq
<1>1. Len(buf) = 0 /\ buf \in Seq(Bytes) /\ Base = 0 /\ Done = 0 /\ Len(file) \in Nat
  <2>1. Len(buf) = 0 /\ buf \in Seq(Bytes) /\ Len(file) \in Nat
    BY <1>0, EmptySeq
  <2>2. pos = 0 /\ chunkStart = 0
    OBVIOUS
  <2> HIDE DEF GrepInit
  <2> QED BY <2>1, <2>2 DEF Base, Done
<1>2. GrepTypeOK
  BY <1>1, SizesAreNat DEF GrepTypeOK
<1>3. BufferInv /\ ChunkInv /\ RestInv
  BY <1>1 DEF BufferInv, ChunkInv, RestInv
<1>4. LineInv
  BY <1>0, <1>1, Counts DEF LineInv, IsStart
<1>5. Past = {}
  <2>1. \A k \in Matching : ~ (k < 1)
    BY DEF Matching, LineNumbers
  <2> QED BY <2>1 DEF Past
<1>6. MatchInv /\ RecordInv
  BY <1>5, FS_EmptySet DEF MatchInv, RecordInv
<1> QED BY <1>2, <1>3, <1>4, <1>6 DEF GrepInv

\* The records are those of before, and so is what they are compared with.
LEMMA SameRecords ==
  ASSUME file' = file, context' = context, matches' = matches, nmatches' = nmatches,
         Past' = Past, rerr # "fault" \/ rerr' = rerr, MatchInv, RecordInv
  PROVE  MatchInv' /\ RecordInv'
<1>1. LineNumbers' = LineNumbers /\ \A k : Line(k)' = Line(k)
  BY SameFile
<1>2. rerr' # "fault" => rerr # "fault"
  OBVIOUS
<1>3. MatchInv'
  BY <1>1, <1>2 DEF MatchInv
<1>4. RecordInv'
  BY <1>1, <1>2 DEF RecordInv
<1> QED BY <1>3, <1>4

\* Read puts more of the file behind what the buffer holds.
LEMMA ReadKeeps ==
  ASSUME GrepInv, NEW n \in 0 .. BufSize, NEW how \in {"nil", "eof", "fault"}, Read(n, how)
  PROVE  GrepInv'
<1> USE DEF GrepInv
<1>0. /\ file \in Seq(Bytes) /\ buf \in Seq(Bytes) /\ Len(file) \in Nat /\ Len(buf) \in Nat
      /\ Base \in Nat /\ pos \in Nat /\ pos = Base + Len(buf) /\ pos <= Len(file)
      /\ lineno \in Nat /\ nmatches \in Nat /\ BufSize \in Nat /\ n \in Nat
      /\ chunkStart \in Nat /\ end \in Nat
  BY BufferIs, SizesAreNat
<1>1. /\ n <= BufSize - Len(buf) /\ pos + n <= Len(file) /\ step = "read"
      /\ \/ how = "nil" /\ n = BufSize - Len(buf)
         \/ how = "eof" /\ n < BufSize - Len(buf) /\ pos + n = Len(file)
         \/ how = "fault" /\ n < BufSize - Len(buf)
      /\ pos' = pos + n /\ rerr' = how /\ chunkStart' = 0 /\ step' = "match"
      /\ buf' = buf \o Slice(file, pos, pos + n)
      /\ end' = IF how = "nil" THEN LastIndex(buf') + 1 ELSE Len(buf')
      /\ UNCHANGED <<file, context, lineno, nmatches, matches>>
  BY DEF Read
<1> HIDE DEF GrepInv
<1>i. GrepTypeOK /\ BufferInv /\ ChunkInv /\ LineInv /\ RestInv /\ MatchInv /\ RecordInv
  BY DEF GrepInv
<1>c. rerr = "nil" /\ end = 0 /\ chunkStart = 0
  BY <1>0, <1>1, <1>i DEF ChunkInv
<1> DEFINE d == Slice(file, pos, pos + n)
<1>2. d \in Seq(Bytes) /\ Len(d) = n /\ \A x \in 1 .. n : d[x] = file[pos + x]
  <2>1. pos + n \in 0 .. Len(file) /\ pos \in 0 .. pos + n /\ (pos + n) - pos = n
    BY <1>0, <1>1
  <2> DEFINE z == pos + n
  <2>2. z \in 0 .. Len(file) /\ pos \in 0 .. z /\ z - pos = n /\ file \in Seq(Bytes)
    BY <1>0, <2>1
  <2>3. d = Slice(file, pos, z)
    OBVIOUS
  <2> HIDE DEF z, d
  <2>4. /\ Slice(file, pos, z) \in Seq(Bytes) /\ Len(Slice(file, pos, z)) = z - pos
        /\ \A x \in 1 .. z - pos : Slice(file, pos, z)[x] = file[pos + x]
    BY <2>2, SliceIs
  <2> QED BY <2>2, <2>3, <2>4
<1>b. buf' = buf \o d
  BY <1>1
<1> HIDE DEF d
<1>3. /\ buf' \in Seq(Bytes) /\ Len(buf') = Len(buf) + n /\ Len(buf') \in Nat
      /\ Len(buf') <= BufSize /\ Len(buf') <= pos' /\ Base' = Base /\ Done' = Done
  <2>1. buf' \in Seq(Bytes) /\ Len(buf') = Len(buf) + n
    BY <1>0, <1>2, <1>b, ConcatProperties
  <2>2. Base' = Base
    <3>1. Base' = pos' - Len(buf') /\ Base = pos - Len(buf)
      BY DEF Base
    <3> QED BY <1>0, <1>1, <2>1, <3>1
  <2> QED BY <1>0, <1>1, <1>c, <2>1, <2>2 DEF Done
<1>4. ASSUME NEW i \in 1 .. Len(buf') PROVE buf'[i] = file[Base + i]
  <2>1. CASE i <= Len(buf)
    <3>1. i \in 1 .. Len(buf)
      BY <1>0, <1>3, <2>1
    <3>2. buf'[i] = buf[i]
      BY <1>0, <1>2, <1>b, <3>1
    <3> QED BY <1>i, <3>1, <3>2 DEF BufferInv
  <2>2. CASE i > Len(buf)
    <3>1. i - Len(buf) \in 1 .. n /\ pos + (i - Len(buf)) = Base + i
      BY <1>0, <1>3, <2>2
    <3>2. buf'[i] = d[i - Len(buf)]
      BY <1>0, <1>2, <1>3, <1>b, <2>2
    <3> QED BY <1>2, <3>1, <3>2
  <2> QED BY <1>0, <1>3, <2>1, <2>2
<1>5. BufferInv'
  <2>1. \A i \in 1 .. Len(buf') : buf'[i] = file'[Base' + i]
    BY <1>1, <1>3, <1>4
  <2> QED BY <1>3, <2>1 DEF BufferInv
<1>6. /\ end' \in 0 .. Len(buf')
      /\ rerr' = "nil" => end' = 0 \/ buf'[end'] = "n"
      /\ rerr' # "nil" => end' = Len(buf')
  <2>1. CASE how = "nil"
    <3>1. /\ LastIndex(buf') \in -1 .. Len(buf') - 1
          /\ LastIndex(buf') # -1 => buf'[LastIndex(buf') + 1] = "n"
      BY <1>3, LastIndexIs
    <3>2. end' = LastIndex(buf') + 1 /\ rerr' = "nil"
      BY <1>1, <2>1
    <3> QED BY <1>3, <3>1, <3>2
  <2>2. CASE how # "nil"
    BY <1>1, <1>3, <2>2
  <2> QED BY <2>1, <2>2
<1>7. GrepTypeOK'
  <2>1. \A i \in 1 .. Len(buf') : buf'[i] \in Bytes
    BY <1>3
  <2>2. /\ file' \in Files /\ context' \in [pre : BOOLEAN, post : BOOLEAN]
        /\ lineno' \in 1 .. Len(file') + 2 /\ nmatches' \in 0 .. Len(file')
        /\ \A e \in matches' : e[1] \in Nat \ {0} /\ Len(e[2]) <= BufSize
    BY <1>1, <1>i DEF GrepTypeOK
  <2>3. pos' \in 0 .. Len(file') /\ rerr' \in {"nil", "eof", "fault"} /\ chunkStart' \in 0 .. Len(buf')
    BY <1>0, <1>1, <1>3
  <2> QED BY <1>1, <1>3, <1>6, <2>1, <2>2, <2>3 DEF GrepTypeOK
<1>8. ChunkInv'
  <2>1. rerr' = "eof" => pos' = Len(file')
    BY <1>1
  <2>2. nmatches' <= Done'
    BY <1>1, <1>3, <1>i DEF ChunkInv
  <2>3. chunkStart' <= end'
    BY <1>1, <1>3, <1>6
  <2> QED BY <1>1, <1>6, <2>1, <2>2, <2>3 DEF ChunkInv
<1>9. LineInv'
  <2>1. IsStart(Done) /\ lineno = CountTo(Done) + 1
    BY <1>1, <1>c, <1>i DEF LineInv
  <2>2. IsStart(Done)' /\ CountTo(Done)' = CountTo(Done)
    BY <1>1, <1>3, <2>1 DEF IsStart, CountTo
  <2> QED BY <1>1, <2>1, <2>2 DEF LineInv
<1>10. RestInv'
  BY <1>1 DEF RestInv
<1>11. Past' = Past
  BY <1>1, SameFile DEF Past
<1>12. MatchInv' /\ RecordInv'
  BY <1>1, <1>c, <1>i, <1>11, SameRecords
<1> QED BY <1>5, <1>7, <1>8, <1>9, <1>10, <1>12 DEF GrepInv

\* NoMatch: what is left of the chunk does not match.
LEMMA NoMatchKeeps ==
  ASSUME GrepInv, NoMatch
  PROVE  GrepInv'
<1>i. GrepTypeOK /\ BufferInv /\ ChunkInv /\ LineInv /\ RestInv /\ MatchInv /\ RecordInv
  BY DEF GrepInv
<1>0. /\ file \in Seq(Bytes) /\ buf \in Seq(Bytes) /\ Len(file) \in Nat /\ Len(buf) \in Nat
      /\ Base \in Nat /\ end \in Nat /\ end <= Len(buf) /\ chunkStart \in Nat
  BY <1>i, BufferIs
<1>1. /\ step = "match" /\ step' = "next"
      /\ chunkStart >= end \/ Match(Slice(buf, chunkStart, end)) = -1
      /\ UNCHANGED <<file, context, pos, buf, end, rerr, lineno, chunkStart, nmatches, matches>>
  BY DEF NoMatch
<1>2. Base' = Base /\ Done' = Done
  BY <1>1 DEF Base, Done
<1>3. \A p \in Done + 1 .. Base + end : file[p] # "m"
  <2>1. CASE chunkStart >= end
    <3>1. chunkStart = end
      BY <1>0, <1>i, <2>1 DEF ChunkInv
    <3> QED BY <1>0, <3>1 DEF Done
  <2>2. CASE chunkStart < end
    <3> DEFINE t == Slice(buf, chunkStart, end)
    <3>1. /\ t \in Seq(Bytes) /\ Len(t) = end - chunkStart
          /\ \A x \in 1 .. end - chunkStart : t[x] = buf[chunkStart + x]
      <4>1. end \in 0 .. Len(buf) /\ chunkStart \in 0 .. end
        BY <1>0, <2>2
      <4> QED BY <1>0, <4>1, SliceIs
    <3>2. Match(t) = -1
      BY <1>0, <1>1, <2>2
    <3> HIDE DEF t
    <3>3. \A x \in 1 .. Len(t) : t[x] # "m"
      <4>1. \/ Match(t) = -1 /\ \A x \in 1 .. Len(t) : t[x] # "m"
            \/ \E h \in 1 .. Len(t) : Match(t) \in h .. Len(t)
        BY <3>1, MatchIs
      <4> QED BY <3>1, <3>2, <4>1
    <3>4. ASSUME NEW p \in Done + 1 .. Base + end PROVE file[p] # "m"
      <4>1. /\ p - Done \in 1 .. end - chunkStart /\ chunkStart + (p - Done) \in 1 .. Len(buf)
            /\ Base + (chunkStart + (p - Done)) = p
        BY <1>0 DEF Done
      <4>2. t[p - Done] # "m" /\ t[p - Done] = buf[chunkStart + (p - Done)]
        BY <3>1, <3>3, <4>1
      <4>3. buf[chunkStart + (p - Done)] = file[Base + (chunkStart + (p - Done))]
        BY <1>i, <4>1 DEF BufferInv
      <4> QED BY <4>1, <4>2, <4>3
    <3> QED BY <3>4
  <2> QED BY <1>0, <2>1, <2>2
<1>4. RestInv'
  BY <1>1, <1>2, <1>3 DEF RestInv
<1>5. GrepTypeOK'
  BY <1>i, <1>1 DEF GrepTypeOK
<1>6. BufferInv' /\ ChunkInv'
  BY <1>i, <1>1, <1>2 DEF BufferInv, ChunkInv
<1>7. LineInv'
  <2>1. IsStart(Done)' = IsStart(Done) /\ CountTo(Done)' = CountTo(Done)
    BY <1>1, <1>2 DEF IsStart, CountTo
  <2> QED BY <1>i, <1>1, <2>1 DEF LineInv
<1>8. Past' = Past
  BY <1>1, SameFile DEF Past
<1>9. MatchInv' /\ RecordInv'
  BY <1>1, <1>i, <1>8, SameRecords
<1> QED BY <1>4, <1>5, <1>6, <1>7, <1>9 DEF GrepInv

\* NextChunk: the rest of the chunk is counted, or all of the file is done.
LEMMA NextChunkKeeps ==
  ASSUME GrepInv, NextChunk
  PROVE  GrepInv'
<1>i. GrepTypeOK /\ BufferInv /\ ChunkInv /\ LineInv /\ RestInv /\ MatchInv /\ RecordInv
  BY DEF GrepInv
<1>0. /\ file \in Seq(Bytes) /\ buf \in Seq(Bytes) /\ Len(file) \in Nat /\ Len(buf) \in Nat
      /\ Base \in Nat /\ pos \in Nat /\ pos = Base + Len(buf) /\ pos <= Len(file)
      /\ end \in Nat /\ end <= Len(buf) /\ chunkStart \in Nat /\ chunkStart <= Len(buf)
      /\ lineno \in Nat /\ nmatches \in Nat
      /\ \A j \in 0 .. Len(buf) : \A i \in 0 .. j :
           Slice(buf, i, j) = Slice(file, Base + i, Base + j)
  BY <1>i, BufferIs
<1>1. /\ step = "next" /\ end' = 0 /\ chunkStart' = 0
      /\ lineno' = IF rerr = "nil" THEN lineno + countNL(Slice(buf, chunkStart, end)) ELSE lineno
      /\ buf' = Slice(buf, end, Len(buf))
      /\ step' = IF buf' = << >> /\ rerr # "nil" THEN "done" ELSE "read"
      /\ UNCHANGED <<file, context, pos, rerr, nmatches, matches>>
  BY DEF NextChunk
<1>2. /\ buf' \in Seq(Bytes) /\ Len(buf') = Len(buf) - end /\ Len(buf') \in Nat
      /\ \A x \in 1 .. Len(buf) - end : buf'[x] = buf[end + x]
  <2>1. Len(buf) \in 0 .. Len(buf) /\ end \in 0 .. Len(buf)
    BY <1>0
  <2> DEFINE t == Slice(buf, end, Len(buf))
  <2>2. /\ t \in Seq(Bytes) /\ Len(t) = Len(buf) - end
        /\ \A x \in 1 .. Len(buf) - end : t[x] = buf[end + x]
    BY <1>0, <2>1, SliceIs
  <2>3. buf' = t
    BY <1>1
  <2> HIDE DEF t
  <2> QED BY <1>0, <2>2, <2>3
<1>3. /\ Base' = Base + end /\ Done' = Base + end
  <2>1. Base' = pos' - Len(buf') /\ Done' = Base' + chunkStart'
    BY DEF Base, Done
  <2> QED BY <1>0, <1>1, <1>2, <2>1
<1>4. /\ Done \in 0 .. Len(file) /\ Base + end \in 0 .. Len(file) /\ Done \in 0 .. Base + end
      /\ end \in 0 .. Len(buf) /\ chunkStart \in 0 .. end
      /\ Done = Base + chunkStart
  BY <1>0, <1>i DEF Done, ChunkInv
<1>5. BufferInv'
  <2>1. ASSUME NEW i \in 1 .. Len(buf') PROVE buf'[i] = file'[Base' + i]
    <3>1. i \in 1 .. Len(buf) - end /\ end + i \in 1 .. Len(buf) /\ Base + (end + i) = Base' + i
      BY <1>0, <1>2, <1>3
    <3>2. buf[end + i] = file[Base + (end + i)]
      BY <1>i, <3>1 DEF BufferInv
    <3> QED BY <1>1, <1>2, <3>1, <3>2
  <2>2. Len(buf') <= pos'
    BY <1>0, <1>1, <1>2
  <2> QED BY <1>2, <2>1, <2>2 DEF BufferInv
<1>6. rerr # "nil" => step' = "done" /\ Len(buf') = 0
  <2> SUFFICES ASSUME rerr # "nil" PROVE step' = "done" /\ Len(buf') = 0
    OBVIOUS
  <2>1. end = Len(buf)
    BY <1>i DEF ChunkInv
  <2>2. Len(buf') = 0
    BY <1>0, <1>2, <2>1
  <2>3. buf' = << >>
    BY <1>2, <2>2, EmptySeq
  <2> QED BY <1>1, <2>2, <2>3
<1>n. rerr = "nil" => step' = "read"
  BY <1>1
<1>7. ChunkInv'
  <2>1. nmatches' <= Done'
    BY <1>0, <1>1, <1>3, <1>4, <1>i DEF ChunkInv
  <2>2. rerr' = "eof" => pos' = Len(file')
    BY <1>1, <1>i DEF ChunkInv
  <2>3. (step' = "read" => rerr' = "nil") /\ (step' = "done" => rerr' # "nil")
    BY <1>1, <1>6, <1>n
  <2>4. rerr' # "nil" => end' = Len(buf')
    BY <1>1, <1>6
  <2> QED BY <1>1, <2>1, <2>2, <2>3, <2>4 DEF ChunkInv
<1>s. ASSUME rerr = "nil" PROVE IsStart(Done) /\ lineno = CountTo(Done) + 1
  BY <1>1, <1>i, <1>s DEF LineInv
<1>8. ASSUME rerr = "nil"
      PROVE  IsStart(Base + end) /\ lineno' = CountTo(Base + end) + 1 /\ lineno <= lineno'
  <2>1. IsStart(Base + end)
    <3>1. CASE end = 0
      <4>1. Base + end = Done
        BY <1>0, <1>4, <3>1
      <4> QED BY <1>8, <1>s, <4>1
    <3>2. CASE end # 0
      <4>1. buf[end] = "n" /\ end \in 1 .. Len(buf)
        BY <1>0, <1>8, <1>i, <3>2 DEF ChunkInv
      <4>2. buf[end] = file[Base + end]
        BY <1>i, <4>1 DEF BufferInv
      <4> QED BY <4>1, <4>2 DEF IsStart
    <3> QED BY <3>1, <3>2
  <2>2. Slice(buf, chunkStart, end) = Slice(file, Done, Base + end)
    BY <1>0, <1>4
  <2>3. /\ CountTo(Base + end) = CountTo(Done) + countNL(Slice(file, Done, Base + end))
        /\ CountTo(Base + end) \in Nat /\ CountTo(Done) \in Nat
    BY <1>0, <1>4, Counts
  <2>4. countNL(Slice(file, Done, Base + end)) \in Nat
    BY <1>0, <1>4, CountOfSlice
  <2>5. lineno' = lineno + countNL(Slice(file, Done, Base + end))
    BY <1>1, <1>8, <2>2
  <2> QED BY <1>8, <1>s, <2>1, <2>3, <2>4, <2>5
<1>9. LineInv'
  <2>1. CASE rerr = "nil"
    <3>1. IsStart(Done)' /\ lineno' = CountTo(Done)' + 1
      BY <1>1, <1>3, <1>8, <2>1 DEF IsStart, CountTo
    <3> QED BY <3>1 DEF LineInv
  <2>2. CASE rerr # "nil"
    BY <1>6, <2>2 DEF LineInv
  <2> QED BY <2>1, <2>2
<1>10. ASSUME NEW p \in 1 .. Len(file), file[p] = "m" PROVE p <= Done \/ p > Base + end
  <2>1. ~ (p \in Done + 1 .. Base + end)
    BY <1>1, <1>i, <1>10 DEF RestInv
  <2> QED BY <1>0, <1>4, <2>1
<1>f. Matching' = Matching /\ LineNumbers' = LineNumbers
  BY <1>1, SameFile
<1>11. RestInv'
  <2>1. ASSUME rerr = "eof", NEW k \in Matching PROVE k < lineno
    <3>1. PICK p \in 1 .. Len(file) : file[p] = "m" /\ k = CountTo(p - 1) + 1
      BY <1>0, MatchingAre
    <3>2. Base + end = Len(file)
      BY <1>0, <1>i, <2>1 DEF ChunkInv
    <3>3. p <= Done
      BY <1>0, <1>10, <3>1, <3>2
    <3>4. CountTo(p - 1) \in Nat /\ CountTo(Done) \in Nat /\ CountTo(p - 1) <= CountTo(Done)
      <4>1. p - 1 \in 0 .. Done /\ p - 1 \in 0 .. Len(file)
        BY <1>4, <3>3
      <4> QED BY <1>0, <1>4, <4>1, Counts
    <3>5. CASE IsStart(Done) /\ lineno = CountTo(Done) + 1
      <4>1. CountTo(p - 1) < CountTo(Done)
        BY <1>0, <1>4, <3>3, <3>5, Behind
      <4> QED BY <3>1, <3>4, <3>5, <4>1
    <3>6. CASE lineno = CountTo(Done) + 2
      BY <3>1, <3>4, <3>6
    <3> QED BY <1>1, <1>i, <3>5, <3>6 DEF LineInv
  <2>2. step' # "next"
    BY <1>1
  <2>3. rerr = "eof" => lineno' = lineno
    BY <1>1
  <2> QED BY <1>1, <1>f, <2>1, <2>2, <2>3 DEF RestInv
<1>12. Past' = Past
  <2>1. CASE rerr = "nil"
    <3>1. ASSUME NEW k \in Matching, k < lineno' PROVE k < lineno
      <4>1. PICK p \in 1 .. Len(file) : file[p] = "m" /\ k = CountTo(p - 1) + 1
        BY <1>0, MatchingAre
      <4>2. /\ CountTo(p - 1) \in Nat /\ CountTo(Base + end) \in Nat
            /\ p > Base + end => CountTo(Base + end) <= CountTo(p - 1)
        BY <1>0, <1>4, <1>8, <2>1, Behind
      <4>3. p <= Base + end
        BY <1>0, <1>8, <2>1, <3>1, <4>1, <4>2
      <4>4. p <= Done
        BY <1>0, <1>10, <4>1, <4>3
      <4>5. CountTo(p - 1) < CountTo(Done) /\ CountTo(Done) \in Nat
        BY <1>0, <1>4, <1>s, <2>1, <4>4, Behind
      <4> QED BY <1>s, <2>1, <4>1, <4>2, <4>5
    <3>2. ASSUME NEW k \in Matching, k < lineno PROVE k < lineno'
      <4>1. k \in Nat /\ lineno' \in Nat
        <5>1. k \in Nat
          BY <1>0, MatchingAre
        <5>2. CountTo(Base + end) \in Nat
          BY <1>0, <1>4, Counts
        <5> QED BY <1>8, <2>1, <5>1, <5>2
      <4> QED BY <1>0, <1>8, <2>1, <3>2, <4>1
    <3> QED BY <1>f, <3>1, <3>2 DEF Past
  <2>2. CASE rerr # "nil"
    <3>1. lineno' = lineno
      BY <1>1, <2>2
    <3> QED BY <1>f, <3>1 DEF Past
  <2> QED BY <2>1, <2>2
<1>13. MatchInv' /\ RecordInv'
  BY <1>1, <1>i, <1>12, SameRecords
<1>14. GrepTypeOK'
  <2>1. \A i \in 1 .. Len(buf') : buf'[i] \in Bytes
    BY <1>2
  <2>2. /\ file' \in Files /\ context' \in [pre : BOOLEAN, post : BOOLEAN]
        /\ pos' \in 0 .. Len(file') /\ rerr' \in {"nil", "eof", "fault"}
        /\ nmatches' \in 0 .. Len(file')
        /\ \A e \in matches' : e[1] \in Nat \ {0} /\ Len(e[2]) <= BufSize
    BY <1>1, <1>i DEF GrepTypeOK
  <2>3. Len(buf') <= BufSize
    <3>1. Len(buf) <= BufSize /\ BufSize \in Nat
      BY <1>i, SizesAreNat DEF GrepTypeOK
    <3> QED BY <1>0, <1>2, <3>1
  <2>4. lineno' \in 1 .. Len(file') + 2
    <3>1. CASE rerr = "nil"
      <4>1. CountTo(Base + end) \in Nat /\ CountTo(Base + end) <= Base + end /\ Base + end <= Len(file)
        BY <1>0, <1>4, Counts
      <4> QED BY <1>0, <1>1, <1>8, <3>1, <4>1
    <3>2. CASE rerr # "nil"
      BY <1>1, <1>i, <3>2 DEF GrepTypeOK
    <3> QED BY <3>1, <3>2
  <2>5. end' \in 0 .. Len(buf') /\ chunkStart' \in 0 .. Len(buf') /\ step' \in {"read", "match", "next", "done"}
    BY <1>1, <1>2
  <2> QED BY <2>1, <2>2, <2>3, <2>4, <2>5 DEF GrepTypeOK
<1> QED BY <1>5, <1>7, <1>9, <1>11, <1>13, <1>14 DEF GrepInv

\* MatchLine records the line and its context, over what was recorded there,
\* and not over a match.
LEMMA MatchLineKeeps ==
  ASSUME GrepInv, MatchLine
  PROVE  GrepInv'
<1>i. GrepTypeOK /\ BufferInv /\ ChunkInv /\ LineInv /\ RestInv /\ MatchInv /\ RecordInv
  BY DEF GrepInv
<1>0. /\ file \in Seq(Bytes) /\ buf \in Seq(Bytes) /\ Len(file) \in Nat /\ Len(buf) \in Nat
      /\ Base \in Nat /\ pos \in Nat /\ pos = Base + Len(buf) /\ pos <= Len(file)
      /\ end \in Nat /\ end <= Len(buf) /\ chunkStart \in Nat /\ chunkStart <= Len(buf)
      /\ lineno \in Nat /\ nmatches \in Nat /\ BufSize \in Nat /\ Len(buf) <= BufSize
  BY <1>i, BufferIs, SizesAreNat DEF GrepTypeOK
<1> DEFINE text == Slice(buf, LStart, LEnd)
           hit == Put(matches, LNo, text)
           pre == IF context.pre THEN getPreCtx(buf, chunkStart, LStart, LNo) ELSE {}
           post == IF context.post THEN getPostCtx(buf, M1, end, LNo) ELSE {}
<1>1. /\ step = "match" /\ chunkStart < end /\ M1 >= chunkStart
      /\ matches' = PutAll(PutAll(hit, pre), post)
      /\ nmatches' = nmatches + 1 /\ lineno' = LNo + 1 /\ chunkStart' = LEnd
      /\ UNCHANGED <<file, context, pos, buf, end, rerr, step>>
  <2>1. step = "match" /\ chunkStart < end /\ M1 >= chunkStart
    BY DEF MatchLine, M1
  <2>2. IsStart(Done)
    BY <1>i, <2>1, MatchedNumber
  <2>3. LStart # LEnd
    <3>1. LStart \in chunkStart .. end - 1 /\ LEnd \in LStart + 1 .. end
      BY <1>i, <2>1, <2>2, MatchedLine
    <3> QED BY <1>0, <3>1
  <2> QED BY <2>1, <2>3 DEF MatchLine, M1, LStart, LEnd, LNo
<1>2. /\ IsStart(Done) /\ lineno = CountTo(Done) + 1
      /\ LNo = CountTo(Base + LStart) + 1 /\ LNo \in lineno .. Len(file)
      /\ LNo \in Matching /\ \A k \in Matching : k < LNo => k < lineno
      /\ rerr # "fault" => Line(LNo) = text
      /\ \/ IsStart(Base + LEnd) /\ LNo = CountTo(Base + LEnd)
         \/ rerr # "nil" /\ LEnd = end /\ LNo = CountTo(Base + LEnd) + 1
  BY <1>i, <1>1, MatchedNumber
<1>3. /\ M1 \in chunkStart .. end /\ LStart \in chunkStart .. end - 1
      /\ LEnd \in LStart + 1 .. end /\ IsStart(Base + LStart)
  BY <1>i, <1>1, <1>2, MatchedLine
<1>4. LNo \in Nat /\ lineno <= LNo /\ LNo <= Len(file) /\ LineNumbers \in SUBSET Nat
      /\ LNo \in LineNumbers /\ Matching \in SUBSET Nat
  BY <1>0, <1>2, MatchingAre
<1>5. ASSUME NEW e \in pre
      PROVE  /\ e[1] \in LineNumbers /\ e[1] \in Nat /\ lineno <= e[1] /\ e[1] < LNo
             /\ e[2] = Line(e[1]) /\ Len(e[2]) <= BufSize
  <2>1. e \in getPreCtx(buf, chunkStart, LStart, LNo)
    OBVIOUS
  <2>2. chunkStart \in 0 .. Len(buf) /\ LStart \in chunkStart .. Len(buf) /\ IsStart(Base + chunkStart)
    BY <1>0, <1>2, <1>3 DEF Done
  <2>3. /\ e[1] \in LineNumbers /\ e[1] >= CountTo(Base + chunkStart) + 1 /\ e[1] < LNo
        /\ e[2] = Line(e[1]) /\ Len(e[2]) <= BufSize
    BY <1>i, <1>2, <1>3, <2>1, <2>2, PreCtxIs
  <2>4. lineno = CountTo(Base + chunkStart) + 1
    BY <1>2 DEF Done
  <2> QED BY <1>0, <1>4, <2>3, <2>4
<1>6. ASSUME NEW e \in post
      PROVE  context.post /\ e[1] \in LNo + 1 .. LNo + 3 /\ Len(e[2]) <= BufSize
  <2>1. context.post /\ e \in getPostCtx(buf, M1, end, LNo)
    OBVIOUS
  <2>2. end \in 0 .. Len(buf) /\ M1 \in 0 .. end
    BY <1>0, <1>3
  <2>3. e[1] \in LNo + 1 .. LNo + 3 /\ Len(e[2]) \in Nat /\ Len(e[2]) <= Len(buf)
    BY <1>0, <1>4, <2>1, <2>2, PostCtxIs
  <2>4. Len(e[2]) <= BufSize
    BY <1>0, <2>3
  <2> QED BY <2>1, <2>3, <2>4
<1>7. Len(text) <= BufSize
  <2>1. LEnd \in 0 .. Len(buf) /\ LStart \in 0 .. LEnd
    BY <1>0, <1>3
  <2>2. Len(text) = LEnd - LStart
    BY <1>0, <2>1, SliceIs
  <2> QED BY <1>0, <2>1, <2>2
<1> HIDE DEF text, pre, post
<1>8. ASSUME NEW e \in matches'
      PROVE  (e \in matches /\ e[1] # LNo) \/ e = <<LNo, text>> \/ e \in pre \/ e \in post
  BY <1>1 DEF Put, PutAll
<1>9. ASSUME NEW e \in matches, e[1] \in Nat, e[1] < lineno PROVE e \in matches'
  <2>1. e \in hit
    BY <1>0, <1>4, <1>9 DEF Put
  <2>2. (\A f \in pre : f[1] # e[1]) /\ (\A f \in post : f[1] # e[1])
    BY <1>0, <1>4, <1>5, <1>6, <1>9
  <2> HIDE DEF hit
  <2> QED BY <1>1, <2>1, <2>2 DEF PutAll
<1>10. <<LNo, text>> \in matches'
  <2> DEFINE e == <<LNo, text>>
  <2>1. e \in hit /\ e[1] = LNo
    BY DEF Put
  <2>2. (\A f \in pre : f[1] # LNo) /\ (\A f \in post : f[1] # LNo)
    BY <1>4, <1>5, <1>6
  <2> HIDE DEF e, hit
  <2>3. e \in matches'
    BY <1>1, <2>1, <2>2 DEF PutAll
  <2> QED BY <2>3 DEF e
<1>11. /\ Base' = Base /\ Done' = Base + LEnd /\ Done + 1 <= Base + LEnd
       /\ Base + LEnd \in 0 .. Len(file) /\ LEnd \in 0 .. Len(buf) /\ Done \in Nat
  <2>1. Base' = Base
    BY <1>1 DEF Base
  <2>2. Done' = Base' + chunkStart' /\ Done = Base + chunkStart
    BY DEF Done
  <2> QED BY <1>0, <1>1, <1>3, <2>1, <2>2
<1>12. nmatches' <= Done'
  BY <1>0, <1>1, <1>11, <1>i DEF ChunkInv
<1>13. GrepTypeOK'
  <2>1. ASSUME NEW e \in matches' PROVE e[1] \in Nat \ {0} /\ Len(e[2]) <= BufSize
    <3>1. CASE e \in matches
      BY <1>i, <3>1 DEF GrepTypeOK
    <3>2. CASE e = <<LNo, text>>
      <4>1. LNo # 0
        BY <1>i, <1>0, <1>4 DEF GrepTypeOK
      <4> QED BY <1>4, <1>7, <3>2, <4>1
    <3>3. CASE e \in pre
      <4>1. e[1] \in LineNumbers /\ Len(e[2]) <= BufSize
        BY <1>5, <3>3
      <4> QED BY <1>4, <4>1 DEF LineNumbers
    <3>4. CASE e \in post
      <4>1. e[1] \in LNo + 1 .. LNo + 3 /\ Len(e[2]) <= BufSize
        BY <1>6, <3>4
      <4> QED BY <1>4, <4>1
    <3> QED BY <1>8, <3>1, <3>2, <3>3, <3>4
  <2>2. /\ file' \in Files /\ context' \in [pre : BOOLEAN, post : BOOLEAN]
        /\ pos' \in 0 .. Len(file') /\ rerr' \in {"nil", "eof", "fault"}
        /\ Len(buf') <= BufSize /\ (\A i \in 1 .. Len(buf') : buf'[i] \in Bytes)
        /\ end' \in 0 .. Len(buf') /\ step' \in {"read", "match", "next", "done"}
    BY <1>1, <1>i DEF GrepTypeOK
  <2>3. nmatches' \in 0 .. Len(file')
    BY <1>0, <1>1, <1>11, <1>12
  <2>4. lineno' \in 1 .. Len(file') + 2
    BY <1>0, <1>1, <1>4
  <2>5. chunkStart' \in 0 .. Len(buf')
    BY <1>1, <1>11
  <2> QED BY <2>1, <2>2, <2>3, <2>4, <2>5 DEF GrepTypeOK
<1>14. BufferInv'
  BY <1>i, <1>1, <1>11 DEF BufferInv
<1>15. ChunkInv'
  <2>1. chunkStart' <= end'
    BY <1>0, <1>1, <1>3
  <2> QED BY <1>i, <1>1, <1>12, <2>1 DEF ChunkInv
<1>16. LineInv'
  <2>1. CASE IsStart(Base + LEnd) /\ LNo = CountTo(Base + LEnd)
    <3>1. IsStart(Done)' /\ lineno' = CountTo(Done)' + 1
      BY <1>1, <1>11, <2>1 DEF IsStart, CountTo
    <3> QED BY <3>1 DEF LineInv
  <2>2. CASE rerr # "nil" /\ LEnd = end /\ LNo = CountTo(Base + LEnd) + 1
    <3>1. CountTo(Base + LEnd) \in Nat
      BY <1>0, <1>11, Counts
    <3>2. CountTo(Done)' = CountTo(Base + LEnd)
      BY <1>1, <1>11 DEF CountTo
    <3>3. lineno' = CountTo(Done)' + 2
      BY <1>1, <2>2, <3>1, <3>2
    <3> QED BY <1>1, <2>2, <3>3 DEF LineInv
  <2> QED BY <1>2, <2>1, <2>2
<1>17. RestInv'
  BY <1>1 DEF RestInv
<1>18. Past' = Past \cup {LNo} /\ LNo \notin Past /\ IsFiniteSet(Past)
  <2>1. Matching' = Matching
    BY <1>1, SameFile
  <2>2. \A k \in Matching : k < LNo + 1 <=> k < lineno \/ k = LNo
    BY <1>0, <1>2, <1>4
  <2>3. Past' = {k \in Matching : k < LNo + 1}
    BY <1>1, <2>1 DEF Past
  <2>4. IsFiniteSet(Past)
    <3>1. IsFiniteSet(Matching) /\ Past \in SUBSET Matching
      BY <1>0, MatchingAre DEF Past
    <3> QED BY <3>1, FS_Subset
  <2>5. LNo \notin Past
    BY <1>0, <1>4 DEF Past
  <2>6. Past' = Past \cup {LNo}
    BY <1>2, <2>2, <2>3 DEF Past
  <2> QED BY <2>4, <2>5, <2>6
<1>f. LineNumbers' = LineNumbers /\ \A k : Line(k)' = Line(k)
  BY <1>1, SameFile
<1>19. MatchInv'
  <2>1. Cardinality(Past') = Cardinality(Past) + 1
    BY <1>18, FS_AddElement
  <2>2. ASSUME rerr # "fault", NEW k \in Past' PROVE <<k, Line(k)>> \in matches'
    <3>1. CASE k = LNo
      BY <1>2, <1>10, <2>2, <3>1
    <3>2. CASE k \in Past
      <4> DEFINE e == <<k, Line(k)>>
      <4>1. e \in matches /\ e[1] = k
        BY <1>i, <2>2, <3>2 DEF MatchInv
      <4>2. k \in Nat /\ k < lineno
        BY <1>4, <3>2 DEF Past
      <4> HIDE DEF e
      <4>3. e \in matches'
        BY <1>9, <4>1, <4>2
      <4> QED BY <4>3 DEF e
    <3> QED BY <1>18, <3>1, <3>2
  <2>3. nmatches' = Cardinality(Past')
    BY <1>1, <1>i, <2>1 DEF MatchInv
  <2> QED BY <1>1, <1>f, <2>2, <2>3 DEF MatchInv
<1>20. RecordInv'
  <2> SUFFICES ASSUME rerr # "fault", NEW e \in matches'
               PROVE  \/ e[1] \in LineNumbers /\ e[2] = Line(e[1])
                      \/ /\ context.post /\ e[1] \notin Past'
                         /\ \E m \in Past' : e[1] \in m + 1 .. m + 3
    BY <1>1, <1>f DEF RecordInv
  <2>1. CASE e \in matches /\ e[1] # LNo
    BY <1>i, <1>18, <2>1 DEF RecordInv
  <2>2. CASE e = <<LNo, text>>
    BY <1>2, <1>4, <2>2
  <2>3. CASE e \in pre
    BY <1>5, <2>3
  <2>4. CASE e \in post
    <3>1. context.post /\ e[1] \in LNo + 1 .. LNo + 3
      BY <1>6, <2>4
    <3>2. ASSUME NEW k \in Past' PROVE k \in Nat /\ k <= LNo
      <4>1. k \in Past \/ k = LNo
        BY <1>18
      <4>2. ASSUME k \in Past PROVE k \in Nat /\ k < lineno
        BY <1>4, <4>2 DEF Past
      <4> QED BY <1>0, <1>4, <4>1, <4>2
    <3>3. e[1] \notin Past'
      BY <1>4, <3>1, <3>2
    <3> QED BY <1>18, <3>1, <3>3
  <2> QED BY <1>8, <2>1, <2>2, <2>3, <2>4
<1> QED BY <1>13, <1>14, <1>15, <1>16, <1>17, <1>19, <1>20 DEF GrepInv
\* A step that changes nothing.
LEMMA StutterKeeps ==
  ASSUME GrepInv, UNCHANGED grepVars
  PROVE  GrepInv'
<1>i. GrepTypeOK /\ BufferInv /\ ChunkInv /\ LineInv /\ RestInv /\ MatchInv /\ RecordInv
  BY DEF GrepInv
<1>1. UNCHANGED <<file, context, pos, buf, end, rerr, lineno, chunkStart, nmatches, matches, step>>
  BY DEF grepVars
<1>2. Base' = Base /\ Done' = Done
  BY <1>1 DEF Base, Done
<1>3. GrepTypeOK'
  BY <1>i, <1>1 DEF GrepTypeOK
<1>4. BufferInv' /\ ChunkInv'
  BY <1>i, <1>1, <1>2 DEF BufferInv, ChunkInv
<1>5. LineInv'
  <2>1. IsStart(Done)' = IsStart(Done) /\ CountTo(Done)' = CountTo(Done)
    BY <1>1, <1>2 DEF IsStart, CountTo
  <2> QED BY <1>i, <1>1, <2>1 DEF LineInv
<1>6. Matching' = Matching
  BY <1>1, SameFile
<1>7. RestInv'
  BY <1>i, <1>1, <1>2, <1>6 DEF RestInv
<1>8. Past' = Past
  BY <1>1, <1>6 DEF Past
<1>9. MatchInv' /\ RecordInv'
  BY <1>1, <1>i, <1>8, SameRecords
<1> QED BY <1>3, <1>4, <1>5, <1>7, <1>9 DEF GrepInv
-----------------------------------------------------------------------------
\* GrepInv is an invariant of the reader.
THEOREM GrepInvHolds == GrepSpec => []GrepInv
<1>1. GrepInv /\ [GrepNext]_grepVars => GrepInv'
  <2> SUFFICES ASSUME GrepInv, [GrepNext]_grepVars PROVE GrepInv'
    OBVIOUS
  <2>1. ASSUME NEW n \in 0 .. BufSize, NEW how \in {"nil", "eof", "fault"}, Read(n, how)
        PROVE  GrepInv'
    BY <2>1, ReadKeeps
  <2>2. CASE MatchLine
    BY <2>2, MatchLineKeeps
  <2>3. CASE NoMatch
    BY <2>3, NoMatchKeeps
  <2>4. CASE NextChunk
    BY <2>4, NextChunkKeeps
  <2>5. CASE UNCHANGED grepVars
    BY <2>5, StutterKeeps
  <2> QED BY <2>1, <2>2, <2>3, <2>4, <2>5 DEF GrepNext
<1> QED BY <1>1, GrepStarts, PTL DEF GrepSpec

\* The reader's variables have their types (reader, grepper.go).
THEOREM GrepTypeCorrect == GrepSpec => []GrepTypeOK
<1>1. GrepInv => GrepTypeOK
  BY DEF GrepInv
<1> QED BY <1>1, GrepInvHolds, PTL

\* However the lines of a file fall on the buffer, and whatever the size of
\* the file and of the buffer, the reader finds and counts the lines that
\* match.
THEOREM FindsMatchesHolds == GrepSpec => []FindsMatches
<1>1. GrepInv => FindsMatches
  <2> SUFFICES ASSUME GrepInv, step = "done", rerr = "eof"
               PROVE  /\ nmatches = Cardinality(Matching)
                      /\ \A k \in Matching : <<k, Line(k)>> \in matches
    BY DEF FindsMatches, Grepped
  <2>1. Past = Matching
    BY DEF GrepInv, RestInv, Past
  <2> QED BY <2>1 DEF GrepInv, MatchInv
<1> QED BY <1>1, GrepInvHolds, PTL

\* What the reader records under a number is that line of the file, or
\* context after a match, which a match or the context before one replaces.
THEOREM RecordsLinesHolds == GrepSpec => []RecordsLines
<1>1. GrepInv => RecordsLines
  <2> SUFFICES ASSUME GrepInv, step = "done", rerr = "eof", NEW e \in matches
               PROVE  \/ e[1] \in LineNumbers /\ e[2] = Line(e[1])
                      \/ AfterMatch(e[1]) /\ e[1] \notin Matching
    BY DEF RecordsLines, Grepped
  <2>1. Past = Matching
    BY DEF GrepInv, RestInv, Past
  <2> QED BY <2>1 DEF GrepInv, RecordInv, AfterMatch
<1> QED BY <1>1, GrepInvHolds, PTL
=============================================================================
