----------------------------- MODULE FindProofs -----------------------------
(***************************************************************************)
(* Proofs about Finder and FindApi: the finder for any repos, shards and   *)
(* names, and the find service for any repos, hosts and queries.           *)
(***************************************************************************)
EXTENDS Finder, FindApi, SumTheorems

-----------------------------------------------------------------------------
(***************************************************************************)
(* The finder.                                                             *)
(***************************************************************************)
ShardType == [at : {"none", "open", "check", "send", "end"}, left : SUBSET Names]

\* Every key is still to be looked up, is missing, or has all its shards in
\* the channel or beyond.
FillInv ==
  /\ findPc \in {"new", "fill"} => /\ \A j \in ShardJobs : shard[j].at = "none"
                                  /\ ~namesClosed
  /\ findPc \in {"await", "done"} /\ compiles => keysLeft = {} /\ cur = NoKey
  /\ \A j \in chShards : shard[j].at = "none"
  /\ \A k \in RepoKeys :
       \/ k \in keysLeft \/ k = cur \/ k \in result.missing
       \/ \A s \in Shards : <<k, s>> \in chShards \/ shard[<<k, s>>].at # "none"

\* A name that was found is left in its job, in the channel or in the result;
\* it gets lost only with the context.
NameInv ==
  /\ \A j \in ShardJobs : shard[j].at \in {"none", "open"} =>
       shard[j].left = {} /\ \A n \in Names : <<j, n>> \notin found
  /\ \A j \in ShardJobs : \A n \in shard[j].left :
       <<j, n>> \in found /\ <<j, n>> \notin chNames \cup result.matches
  /\ chNames \cup result.matches \subseteq found /\ chNames \cap result.matches = {}
  /\ findCtx = "live" =>
       \A j \in ShardJobs, n \in Names :
         /\ <<j, n>> \in found => n \in shard[j].left \/ <<j, n>> \in chNames \cup result.matches
         /\ n \in shard[j].left => shard[j].at # "end"
  /\ IsFiniteSet(chNames) /\ IsFiniteSet(result.matches)
  /\ result.num = Cardinality(result.matches)

\* On a live context the channel is closed after the last job.
CloseInv ==
  /\ namesClosed /\ findCtx = "live" => chShards = {} /\ ShardsRunning = {}
  /\ findPc = "done" /\ compiles => namesClosed /\ chNames = {}

FindInv == FindTypeOK /\ FillInv /\ NameInv /\ CloseInv

\* There are finitely many jobs.
LEMMA ShardJobsAreFinite == \A S \in SUBSET ShardJobs : IsFiniteSet(S) /\ Cardinality(S) \in Nat
<1>1. IsFiniteSet(ShardJobs)
  BY ShardsAreFinite, FS_Product DEF ShardJobs
<1> QED BY <1>1, FS_Subset, FS_CardinalityType

\* A channel with room for one more has room for any one more.
LEMMA CardOfMore ==
  ASSUME NEW S, IsFiniteSet(S), NEW x, NEW n \in Nat, Cardinality(S) < n
  PROVE  IsFiniteSet(S \cup {x}) /\ Cardinality(S \cup {x}) <= n
<1>1. Cardinality(S) \in Nat /\ IsFiniteSet(S \cup {x})
  BY FS_CardinalityType, FS_AddElement
<1>2. CASE x \in S
  <2>1. S \cup {x} = S
    BY <1>2
  <2> QED BY <1>1, <2>1
<1>3. CASE x \notin S
  <2>1. Cardinality(S \cup {x}) = Cardinality(S) + 1
    BY <1>3, FS_AddElement
  <2> QED BY <1>1, <2>1
<1> QED BY <1>2, <1>3

\* One less leaves at most as many.
LEMMA CardOfLess ==
  ASSUME NEW S, IsFiniteSet(S), NEW x, NEW n \in Nat, Cardinality(S) <= n
  PROVE  IsFiniteSet(S \ {x}) /\ Cardinality(S \ {x}) <= n
<1>1. IsFiniteSet(S \ {x}) /\ Cardinality(S \ {x}) <= Cardinality(S)
  BY FS_Subset
<1>2. Cardinality(S) \in Nat /\ Cardinality(S \ {x}) \in Nat
  BY <1>1, FS_CardinalityType
<1> QED BY <1>1, <1>2

\* What a job of the finder that goes on to l keeps.
LEMMA ShardGoes ==
  ASSUME FindTypeOK, NEW j \in ShardJobs, NEW l \in {"none", "open", "check", "send", "end"},
         shard' = [shard EXCEPT ![j].at = l]
  PROVE  /\ shard' \in [ShardJobs -> ShardType]
         /\ shard'[j].at = l /\ shard'[j].left = shard[j].left
         /\ \A i \in ShardJobs \ {j} : shard'[i] = shard[i]
<1>1. shard \in [ShardJobs -> ShardType] /\ shard[j] \in ShardType
  BY DEF FindTypeOK, ShardType
<1>2. LET x == [shard[j] EXCEPT !.at = l]
      IN  x \in ShardType /\ x.at = l /\ x.left = shard[j].left
  BY <1>1 DEF ShardType
<1>3. shard' = [shard EXCEPT ![j] = [shard[j] EXCEPT !.at = l]]
  OBVIOUS
<1> QED BY <1>1, <1>2, <1>3

\* Where a job is that has names.
LEMMA ShardHas ==
  ASSUME FindTypeOK, NEW j \in ShardJobs, NEW names \in SUBSET Names,
         shard' = [shard EXCEPT ![j] = [at |-> "check", left |-> names]]
  PROVE  /\ shard' \in [ShardJobs -> ShardType]
         /\ shard'[j].at = "check" /\ shard'[j].left = names
         /\ \A i \in ShardJobs \ {j} : shard'[i] = shard[i]
<1>1. shard \in [ShardJobs -> ShardType]
  BY DEF FindTypeOK, ShardType
<1>2. [at |-> "check", left |-> names] \in ShardType
  BY DEF ShardType
<1> QED BY <1>1, <1>2

\* The steps of Find itself before its jobs run, of others and of the context.
LEMMA FindInvMain ==
  ASSUME FindInv,
         \/ FindRejects \/ Accept \/ NextKey \/ StartShards \/ ShardsReturn \/ Finish \/ FindCtxDone
         \/ \E k \in RepoKeys : GetNothing(k) \/ GetRepo(k) \/ Delete(k)
         \/ UNCHANGED findVars
  PROVE  FindInv'
<1> USE DEF FindInv, env, filling, answer
<1>1. CASE FindRejects
  <2>1. /\ result'.matches = result.matches /\ result'.num = result.num
        /\ result'.missing = result.missing
        /\ result' \in [matches : SUBSET NameMatch, num : Nat, missing : SUBSET RepoKeys,
                        err : BOOLEAN]
    BY <1>1 DEF FindRejects, FindTypeOK
  <2>2. FindTypeOK'
    BY <1>1, <2>1 DEF FindRejects, FindTypeOK
  <2>3. FillInv' /\ CloseInv'
    BY <1>1, <2>1 DEF FindRejects, FillInv, CloseInv, ShardsRunning
  <2>4. NameInv'
    BY <1>1, <2>1 DEF FindRejects, NameInv
  <2> QED BY <2>2, <2>3, <2>4
<1>2. CASE Accept \/ NextKey \/ StartShards
  <2>1. UNCHANGED <<store, compiles, findCtx, findPanicked, keysLeft, chShards, shard, chNames,
                    namesClosed, result, found>>
        /\ findPc \in {"new", "fill"} /\ findPc' \in {"fill", "await"} /\ cur' \in {cur, NoKey}
        /\ (findPc' = "await" => keysLeft = {} /\ cur' = NoKey)
        /\ (cur' # cur => \A s \in Shards : <<cur, s>> \in chShards)
    BY <1>2 DEF Accept, NextKey, StartShards
  <2>2. FindTypeOK'
    BY <2>1 DEF FindTypeOK
  <2>3. FillInv'
    BY <2>1 DEF FillInv
  <2>4. NameInv' /\ CloseInv'
    BY <2>1 DEF NameInv, CloseInv, ShardsRunning
  <2> QED BY <2>2, <2>3, <2>4
<1>3. CASE ShardsReturn
  <2>1. UNCHANGED <<store, compiles, findCtx, findPanicked, findPc, keysLeft, cur, chShards, shard,
                    chNames, result, found>>
        /\ findPc = "await" /\ namesClosed' = TRUE
        /\ (findCtx = "live" => chShards = {} /\ ShardsRunning = {})
    BY <1>3 DEF ShardsReturn, ShardsDone
  <2> QED BY <2>1 DEF FindTypeOK, FillInv, NameInv, CloseInv, ShardsRunning
<1>4. CASE Finish
  <2>1. UNCHANGED <<store, compiles, findCtx, findPanicked, keysLeft, cur, chShards, shard,
                    chNames, namesClosed, result, found>>
        /\ findPc = "await" /\ findPc' = "done" /\ namesClosed /\ chNames = {}
    BY <1>4 DEF Finish, NamesOver
  <2> QED BY <2>1 DEF FindTypeOK, FillInv, NameInv, CloseInv, ShardsRunning
<1>5. CASE FindCtxDone
  <2>1. UNCHANGED <<store, compiles, findPanicked, findPc, keysLeft, cur, chShards, shard,
                    chNames, namesClosed, result, found>>
        /\ findCtx' = "done"
    BY <1>5 DEF FindCtxDone
  <2> QED BY <2>1 DEF FindTypeOK, FillInv, NameInv, CloseInv
<1>6. ASSUME NEW k \in RepoKeys, GetNothing(k) PROVE FindInv'
  <2>1. /\ result'.matches = result.matches /\ result'.num = result.num
        /\ result'.missing = result.missing \cup {k}
        /\ result' \in [matches : SUBSET NameMatch, num : Nat, missing : SUBSET RepoKeys,
                        err : BOOLEAN]
    BY <1>6 DEF GetNothing, FindTypeOK
  <2>2. UNCHANGED <<store, compiles, findCtx, findPanicked, findPc, cur, chShards, shard, chNames,
                    namesClosed, found>>
        /\ keysLeft' = keysLeft \ {k} /\ findPc = "fill"
    BY <1>6 DEF GetNothing
  <2>3. FindTypeOK'
    BY <2>1, <2>2 DEF FindTypeOK
  <2>4. FillInv' /\ CloseInv'
    BY <2>1, <2>2 DEF FillInv, CloseInv, ShardsRunning
  <2>5. NameInv'
    BY <2>1, <2>2 DEF NameInv
  <2> QED BY <2>3, <2>4, <2>5
<1>7. ASSUME NEW k \in RepoKeys, GetRepo(k) PROVE FindInv'
  <2>1. UNCHANGED <<store, compiles, findCtx, findPanicked, findPc, chShards, shard, chNames,
                    namesClosed, result, found>>
        /\ keysLeft' = keysLeft \ {k} /\ findPc = "fill" /\ cur = NoKey /\ cur' = k
    BY <1>7 DEF GetRepo
  <2>2. FillInv'
    BY <2>1, NoKeyIsNone DEF FillInv
  <2> QED BY <2>1, <2>2 DEF FindTypeOK, NameInv, CloseInv, ShardsRunning
<1>8. ASSUME NEW k \in RepoKeys, Delete(k) PROVE FindInv'
  <2>1. UNCHANGED <<compiles, findCtx, findPanicked, findPc, keysLeft, cur, chShards, shard,
                    chNames, namesClosed, result, found>>
        /\ store' = store \ {k}
    BY <1>8 DEF Delete
  <2> QED BY <2>1 DEF FindTypeOK, FillInv, NameInv, CloseInv, ShardsRunning
<1>9. CASE UNCHANGED findVars
  BY <1>9 DEF findVars, FindTypeOK, FillInv, NameInv, CloseInv, ShardsRunning
<1> QED BY <1>1, <1>2, <1>3, <1>4, <1>5, <1>6, <1>7, <1>8, <1>9

\* A job that takes a step, to at and left, stays beyond the channel; on a live
\* context the result channel is still open.
LEMMA ShardStepKeeps ==
  ASSUME FindInv, NEW j \in ShardJobs, shard[j].at \in {"open", "check", "send"},
         UNCHANGED <<compiles, findCtx, findPc, keysLeft, cur, chShards, namesClosed, result>>,
         shard'[j].at # "none", namesClosed => UNCHANGED chNames,
         \A i \in ShardJobs \ {j} : shard'[i] = shard[i]
  PROVE  FillInv' /\ CloseInv' /\ (namesClosed => findCtx = "done")
<1> USE DEF FindInv
<1>1. findPc \notin {"new", "fill"}
  BY DEF FillInv
<1>2. chShards \subseteq ShardJobs /\ j \notin chShards
  BY DEF FillInv, FindTypeOK
<1>3. FillInv'
  <2>1. \A i \in chShards' : shard'[i].at = "none"
    BY <1>2 DEF FillInv
  <2>2. \A k \in RepoKeys, s \in Shards :
          shard[<<k, s>>].at # "none" => shard'[<<k, s>>].at # "none"
    BY DEF ShardJobs
  <2> QED BY <1>1, <2>1, <2>2 DEF FillInv
<1>4. j \in ShardsRunning
  BY DEF ShardsRunning
<1>5. namesClosed => findCtx = "done"
  BY <1>4 DEF CloseInv, FindTypeOK
<1> QED BY <1>3, <1>5 DEF CloseInv

\* A name goes from its job through the channel into the result.
LEMMA FindInvJobs ==
  ASSUME FindInv,
         \/ \E s \in Shards : Queue(s)
         \/ \E j \in ShardJobs : ShardStarts(j) \/ ShardJob(j)
         \/ \E m \in chNames : Receive(m)
  PROVE  FindInv'
<1> USE DEF FindInv, env, filling, answer
<1>1. ASSUME NEW s \in Shards, Queue(s) PROVE FindInv'
  <2>1. /\ UNCHANGED <<store, compiles, findCtx, findPanicked, findPc, keysLeft, cur, shard, chNames,
                       namesClosed, result, found>>
        /\ findPc = "fill" /\ cur # NoKey /\ Cardinality(chShards) < ShardCap
        /\ chShards' = chShards \cup {<<cur, s>>}
    BY <1>1 DEF Queue
  <2>2. <<cur, s>> \in ShardJobs
    BY <2>1 DEF FindTypeOK, ShardJobs
  <2>3. Cardinality(chShards') <= ShardCap
    BY <2>1, ShardJobsAreFinite, CardOfMore, ShardCapsAreNat DEF FindTypeOK
  <2>4. FindTypeOK'
    BY <2>1, <2>2, <2>3 DEF FindTypeOK
  <2>5. FillInv'
    BY <2>1, <2>2 DEF FillInv
  <2>6. NameInv' /\ CloseInv'
    BY <2>1 DEF NameInv, CloseInv, FillInv
  <2> QED BY <2>4, <2>5, <2>6
<1>2. ASSUME NEW j \in ShardJobs, ShardStarts(j) PROVE FindInv'
  <2>1. /\ UNCHANGED <<store, compiles, findCtx, findPanicked, findPc, keysLeft, cur, chNames,
                       namesClosed, result, found>>
        /\ findPc = "await" /\ ~namesClosed /\ j \in chShards
        /\ chShards' = chShards \ {j}
    BY <1>2 DEF ShardStarts
  <2>2. /\ shard' \in [ShardJobs -> ShardType]
        /\ shard'[j].at = "open" /\ shard'[j].left = shard[j].left
        /\ \A i \in ShardJobs \ {j} : shard'[i] = shard[i]
    BY <1>2, ShardGoes DEF ShardStarts
  <2>3. shard[j].at = "none"
    BY <2>1 DEF FillInv
  <2>4. FindTypeOK'
    <3>1. Cardinality(chShards') <= ShardCap
      BY <2>1, ShardJobsAreFinite, CardOfLess, ShardCapsAreNat DEF FindTypeOK
    <3> QED BY <2>1, <2>2, <3>1 DEF FindTypeOK, ShardType
  <2>5. FillInv'
    <3>1. \A i \in chShards' : shard'[i].at = "none"
      BY <2>1, <2>2 DEF FillInv, FindTypeOK
    <3>2. \A k \in RepoKeys, s \in Shards :
            <<k, s>> \in chShards \/ shard[<<k, s>>].at # "none" =>
              <<k, s>> \in chShards' \/ shard'[<<k, s>>].at # "none"
      <4> SUFFICES ASSUME NEW k \in RepoKeys, NEW s \in Shards,
                          <<k, s>> \in chShards \/ shard[<<k, s>>].at # "none"
                   PROVE  <<k, s>> \in chShards' \/ shard'[<<k, s>>].at # "none"
        OBVIOUS
      <4>1. <<k, s>> \in ShardJobs
        BY DEF ShardJobs
      <4> QED BY <2>1, <2>2, <4>1
    <3> QED BY <2>1, <3>1, <3>2 DEF FillInv
  <2>6. NameInv'
    BY <2>1, <2>2, <2>3 DEF NameInv
  <2>7. CloseInv'
    BY <2>1 DEF CloseInv
  <2> QED BY <2>4, <2>5, <2>6, <2>7
<1>3. ASSUME NEW j \in ShardJobs, ShardOpenFails(j) \/ ShardChecks(j) PROVE FindInv'
  <2> DEFINE l == IF shard[j].at = "open" \/ shard[j].left = {} \/ findCtx = "done"
                    THEN "end" ELSE "send"
  <2>1. /\ UNCHANGED <<store, compiles, findCtx, findPanicked, findPc, keysLeft, cur, chShards,
                       chNames, namesClosed, result, found>>
        /\ shard[j].at \in {"open", "check"} /\ shard' = [shard EXCEPT ![j].at = l]
    BY <1>3 DEF ShardOpenFails, ShardChecks
  <2>2. l \in {"send", "end"}
        /\ (findCtx = "live" /\ l = "end" => shard[j].left = {})
    BY DEF NameInv
  <2> HIDE DEF l
  <2>3. /\ shard' \in [ShardJobs -> ShardType]
        /\ shard'[j].at = l /\ shard'[j].left = shard[j].left
        /\ \A i \in ShardJobs \ {j} : shard'[i] = shard[i]
    BY <2>1, <2>2, ShardGoes
  <2>4. FindTypeOK'
    BY <2>1, <2>3 DEF FindTypeOK, ShardType
  <2>5. FillInv' /\ CloseInv'
    BY <2>1, <2>2, <2>3, ShardStepKeeps
  <2>6. NameInv'
    BY <2>1, <2>2, <2>3 DEF NameInv
  <2> QED BY <2>4, <2>5, <2>6
<1>4. ASSUME NEW j \in ShardJobs, NEW names \in SUBSET Names, ShardOpens(j, names) PROVE FindInv'
  <2>1. /\ UNCHANGED <<store, compiles, findCtx, findPanicked, findPc, keysLeft, cur, chShards,
                       chNames, namesClosed, result>>
        /\ shard[j].at = "open" /\ found' = found \cup ({j} \X names)
        /\ shard' = [shard EXCEPT ![j] = [at |-> "check", left |-> names]]
    BY <1>4 DEF ShardOpens
  <2>2. /\ shard' \in [ShardJobs -> ShardType]
        /\ shard'[j].at = "check" /\ shard'[j].left = names
        /\ \A i \in ShardJobs \ {j} : shard'[i] = shard[i]
    BY <2>1, ShardHas
  <2>3. FindTypeOK'
    <3>1. found' \subseteq NameMatch
      BY <2>1 DEF FindTypeOK, NameMatch
    <3> QED BY <2>1, <2>2, <3>1 DEF FindTypeOK, ShardType
  <2>4. FillInv' /\ CloseInv'
    BY <2>1, <2>2, ShardStepKeeps
  <2>5. NameInv'
    <3>1. \A n \in Names : <<j, n>> \notin found /\ <<j, n>> \notin chNames \cup result.matches
      BY <2>1 DEF NameInv
    <3>2. \A i \in ShardJobs, n \in Names :
            <<i, n>> \in found' <=> <<i, n>> \in found \/ (i = j /\ n \in names)
      BY <2>1
    <3>3. \A i \in ShardJobs : shard'[i].at \in {"none", "open"} =>
            shard'[i].left = {} /\ \A n \in Names : <<i, n>> \notin found'
      BY <2>2, <3>2 DEF NameInv
    <3>4. \A i \in ShardJobs : \A n \in shard'[i].left :
            n \in Names /\ <<i, n>> \in found' /\ <<i, n>> \notin chNames \cup result.matches
      BY <2>2, <3>1, <3>2 DEF NameInv, ShardType
    <3>5. ASSUME findCtx = "live", NEW i \in ShardJobs, NEW n \in Names
          PROVE /\ <<i, n>> \in found' => n \in shard'[i].left \/ <<i, n>> \in chNames \cup result.matches
                /\ n \in shard'[i].left => shard'[i].at # "end"
      <4>1. CASE i = j
        BY <2>2, <3>1, <3>2, <4>1
      <4>2. CASE i # j
        BY <2>2, <3>2, <3>5, <4>2 DEF NameInv
      <4> QED BY <4>1, <4>2
    <3>6. chNames \cup result.matches \subseteq found'
      BY <2>1 DEF NameInv
    <3> QED BY <2>1, <3>3, <3>4, <3>5, <3>6 DEF NameInv
  <2> QED BY <2>3, <2>4, <2>5
<1>5. ASSUME NEW j \in ShardJobs, NEW n \in Names, ShardSends(j, n) PROVE FindInv'
  <2>1. /\ UNCHANGED <<store, compiles, findCtx, findPc, keysLeft, cur, chShards, namesClosed,
                       result, found>>
        /\ shard[j].at = "send" /\ n \in shard[j].left
        /\ shard' = [shard EXCEPT ![j] = [at |-> "check", left |-> shard[j].left \ {n}]]
    BY <1>5 DEF ShardSends
  <2>2. /\ findPanicked' \in BOOLEAN
        /\ namesClosed => UNCHANGED chNames
        /\ ~namesClosed => chNames' = chNames \cup {<<j, n>>} /\ Cardinality(chNames) < NameCap
    BY <1>5 DEF ShardSends, FindTypeOK
  <2>3. /\ shard' \in [ShardJobs -> ShardType]
        /\ shard'[j].at = "check" /\ shard'[j].left = shard[j].left \ {n}
        /\ \A i \in ShardJobs \ {j} : shard'[i] = shard[i]
    <3>1. shard[j].left \ {n} \in SUBSET Names
      BY DEF FindTypeOK
    <3> QED BY <2>1, <3>1, ShardHas
  <2>4. FillInv' /\ CloseInv' /\ (namesClosed => findCtx = "done")
    BY <2>1, <2>2, <2>3, ShardStepKeeps
  <2>5. chNames' \subseteq NameMatch /\ IsFiniteSet(chNames') /\ Cardinality(chNames') <= NameCap
    <3>1. CASE namesClosed
      BY <2>2, <3>1 DEF FindTypeOK, NameInv
    <3>2. CASE ~namesClosed
      <4>1. <<j, n>> \in NameMatch
        BY DEF NameMatch
      <4>2. IsFiniteSet(chNames') /\ Cardinality(chNames') <= NameCap
        <5>1. IsFiniteSet(chNames) /\ Cardinality(chNames) < NameCap /\ NameCap \in Nat
              /\ chNames' = chNames \cup {<<j, n>>}
          BY <2>2, <3>2, ShardCapsAreNat DEF NameInv
        <5> QED BY <5>1, CardOfMore
      <4> QED BY <2>2, <3>2, <4>1, <4>2 DEF FindTypeOK
    <3> QED BY <3>1, <3>2 DEF FindTypeOK
  <2>6. FindTypeOK'
    BY <2>1, <2>2, <2>3, <2>5 DEF FindTypeOK, ShardType
  <2>7. NameInv'
    <3>1. <<j, n>> \in found /\ <<j, n>> \notin chNames \cup result.matches
      BY <2>1 DEF NameInv
    <3>2. \A i \in ShardJobs : shard'[i].at \in {"none", "open"} =>
            shard'[i].left = {} /\ \A m \in Names : <<i, m>> \notin found
      BY <2>3 DEF NameInv
    <3>3. \A i \in ShardJobs : \A m \in shard'[i].left :
            <<i, m>> \in found /\ <<i, m>> \notin chNames' \cup result.matches
      <4> SUFFICES ASSUME NEW i \in ShardJobs, NEW m \in shard'[i].left
                   PROVE  <<i, m>> \in found /\ <<i, m>> \notin chNames' \cup result.matches
        OBVIOUS
      <4>1. m \in shard[i].left /\ <<i, m>> # <<j, n>>
        BY <2>3
      <4> QED BY <2>2, <4>1 DEF NameInv
    <3>4. chNames' \cup result.matches \subseteq found /\ chNames' \cap result.matches = {}
      BY <2>2, <3>1 DEF NameInv
    <3>5. ASSUME findCtx = "live", NEW i \in ShardJobs, NEW m \in Names
          PROVE /\ <<i, m>> \in found => m \in shard'[i].left \/ <<i, m>> \in chNames' \cup result.matches
                /\ m \in shard'[i].left => shard'[i].at # "end"
      <4>1. chNames' = chNames \cup {<<j, n>>}
        BY <2>2, <2>4, <3>5
      <4> QED BY <2>3, <3>5, <4>1 DEF NameInv
    <3> QED BY <2>1, <2>5, <3>2, <3>3, <3>4, <3>5 DEF NameInv
  <2> QED BY <2>4, <2>6, <2>7
<1>6. ASSUME NEW m \in chNames, Receive(m) PROVE FindInv'
  <2>1. /\ UNCHANGED <<store, compiles, findCtx, findPanicked, findPc, keysLeft, cur, chShards, shard,
                       namesClosed, found>>
        /\ findPc = "await" /\ chNames' = chNames \ {m}
    BY <1>6 DEF Receive
  <2>2. /\ result'.matches = result.matches \cup {m} /\ result'.num = result.num + 1
        /\ result'.missing = result.missing
        /\ result' \in [matches : SUBSET NameMatch, num : Nat, missing : SUBSET RepoKeys,
                        err : BOOLEAN]
    <3>1. m \in NameMatch /\ result.num + 1 \in Nat /\ result.matches \cup {m} \in SUBSET NameMatch
      BY DEF FindTypeOK
    <3>2. result' = [matches |-> result.matches \cup {m}, num |-> result.num + 1,
                     missing |-> result.missing, err |-> result.err]
      BY <1>6 DEF Receive, FindTypeOK
    <3> QED BY <3>1, <3>2 DEF FindTypeOK
  <2>3. m \notin result.matches
    BY DEF NameInv
  <2>4. IsFiniteSet(chNames') /\ Cardinality(chNames') <= NameCap
    BY <2>1, CardOfLess, ShardCapsAreNat DEF FindTypeOK, NameInv
  <2>5. IsFiniteSet(result'.matches) /\ result'.num = Cardinality(result'.matches)
    BY <2>2, <2>3, FS_AddElement DEF NameInv
  <2>6. FindTypeOK'
    BY <2>1, <2>2, <2>4 DEF FindTypeOK
  <2>7. FillInv' /\ CloseInv'
    BY <2>1, <2>2 DEF FillInv, CloseInv, ShardsRunning
  <2>8. chNames' \cup result'.matches = chNames \cup result.matches
        /\ chNames' \cap result'.matches = {}
    BY <2>1, <2>2, <2>3 DEF NameInv
  <2>9. NameInv'
    BY <2>1, <2>4, <2>5, <2>8 DEF NameInv
  <2> QED BY <2>6, <2>7, <2>9
<1> QED BY <1>1, <1>2, <1>3, <1>4, <1>5, <1>6 DEF ShardJob

\* FindInv, from which FoundComplete follows, holds in every reachable state.
THEOREM FindInvHolds == FindSpec => []FindInv
<1>1. FindInit => FindInv
  <2> SUFFICES ASSUME FindInit PROVE FindInv
    OBVIOUS
  <2>1. IsFiniteSet({}) /\ Cardinality({}) = 0
    BY FS_EmptySet
  <2>2. FindTypeOK
    <3>1. shard \in [ShardJobs -> ShardType]
      BY DEF FindInit, ShardType
    <3>2. result \in [matches : SUBSET NameMatch, num : Nat, missing : SUBSET RepoKeys,
                     err : BOOLEAN]
      BY DEF FindInit
    <3>3. Cardinality(chShards) <= ShardCap /\ Cardinality(chNames) <= NameCap
      BY <2>1, ShardCapsAreNat DEF FindInit
    <3> QED BY <3>1, <3>2, <3>3 DEF FindInit, FindTypeOK, ShardType
  <2>3. FillInv /\ CloseInv
    BY DEF FindInit, FillInv, CloseInv
  <2>4. NameInv
    BY <2>1 DEF FindInit, NameInv
  <2> QED BY <2>2, <2>3, <2>4 DEF FindInv
<1>2. FindInv /\ [FindNext]_findVars => FindInv'
  BY FindInvMain, FindInvJobs DEF FindNext, FindMain, ShardPar
<1> QED BY <1>1, <1>2, PTL DEF FindSpec

\* Every variable of the finder keeps its type: neither channel has more in it
\* than there is room for.
THEOREM FindTypeCorrect == FindSpec => []FindTypeOK
<1>1. FindInv => FindTypeOK
  BY DEF FindInv
<1> QED BY <1>1, FindInvHolds, PTL

\* Unless its context cuts it short, Find returns every name that was found in
\* a shard, each counted once, and has run all the shards of every repo that
\* it does not report as missing.
THEOREM FoundCompleteHolds == FindSpec => []FoundComplete
<1>1. FindInv => FoundComplete
  <2> SUFFICES ASSUME FindInv, findPc = "done", compiles, findCtx = "live"
               PROVE  /\ result.matches = found /\ result.num = Cardinality(found)
                      /\ \A k \in RepoKeys : \/ k \in result.missing
                                            \/ \A s \in Shards : shard[<<k, s>>].at = "end"
    BY DEF FoundComplete
  <2>1. /\ chNames = {} /\ chShards = {} /\ ShardsRunning = {}
        /\ keysLeft = {} /\ cur = NoKey
    BY DEF FindInv, CloseInv, FillInv
  <2>2. \A j \in ShardJobs : shard[j].at \in {"none", "end"}
    BY <2>1 DEF ShardsRunning, FindInv, FindTypeOK
  <2>3. found \subseteq result.matches
    <3> SUFFICES ASSUME NEW m \in found PROVE m \in result.matches
      OBVIOUS
    <3>1. PICK j \in ShardJobs, n \in Names : m = <<j, n>>
      BY DEF FindInv, FindTypeOK, NameMatch
    <3> QED BY <2>1, <2>2, <3>1 DEF FindInv, NameInv
  <2>4. result.matches = found
    BY <2>3 DEF FindInv, NameInv
  <2>5. ASSUME NEW k \in RepoKeys, k \notin result.missing, NEW s \in Shards
        PROVE  shard[<<k, s>>].at = "end"
    <3>1. <<k, s>> \in ShardJobs /\ k # cur
      BY <2>1, NoKeyIsNone DEF ShardJobs
    <3> QED BY <2>1, <2>2, <2>5, <3>1 DEF FindInv, FillInv
  <2> QED BY <2>4, <2>5 DEF FindInv, NameInv
<1> QED BY <1>1, FindInvHolds, PTL
-----------------------------------------------------------------------------
(***************************************************************************)
(* The find service.                                                       *)
(***************************************************************************)
At == {"none", "run", "check", "send", "end"}
JobType == [at : At, num : 0 .. MaxNames]
NumOf(g) == [j \in Jobs |-> g[j].num]

\* The jobs that were queued, and the repos that the query asks for.
Queued == {j \in Jobs : job[j].at # "none"} \cup chQuery
Asked == {k \in repos : AsksFor(query, k, MetaOf[k])}

\* Nothing has given doFind a reason to answer less than it was asked for.
Intact == ~late /\ undialled = {} /\ ~EnoughResults(resp.num)

\* The keys that the feeder has looked at, and the query asks for, are in a
\* job or still in its hands.
ShareInv ==
  /\ \A j \in chQuery : job[j].at = "none"
  /\ (UNION Queued) \cup picked = Asked \ todo
  /\ (UNION Queued) \cap picked = {}
  /\ feeder = "pick" => Queued = {}
  /\ feeder # "pick" => todo = {}

\* No two jobs go to one host, and countBe counts the remote ones.
HostInv ==
  /\ \A j \in Queued, k \in picked : HostOf[k] # JobHost(j)
  /\ \A i, j \in Queued : i # j => JobHost(i) # JobHost(j)
  /\ countBe = Cardinality({j \in Queued : ~Local(j)})

\* While nothing has gone wrong, the context is live, no result is lost and
\* the channel is closed after all of them.
FlowInv ==
  /\ \A j \in Jobs : job[j].at # "none" => valid
  /\ \A j \in chResult \cup merged : job[j].at = "end"
  /\ chResult \cap merged = {}
  /\ pc # "done" /\ Intact => ctx = "live"
  /\ Intact => \A j \in Jobs : job[j].at = "end" => j \in chResult \cup merged
  /\ closed /\ Intact => feeder = "end" /\ chQuery = {} /\ Running = {}
  /\ pc = "done" /\ valid => closed /\ chResult = {}

\* The response counts what was merged, and is an error without it.
RespInv ==
  /\ resp.count = Cardinality(merged)
  /\ resp.num = SumFunctionOnSet(NumOf(job), merged)
  /\ pc = "done" /\ valid => (resp.err <=> merged = {})

Inv == TypeOK /\ ShareInv /\ HostInv /\ FlowInv /\ RespInv

\* There are finitely many jobs.
LEMMA JobsAreFinite == \A S \in SUBSET Jobs : IsFiniteSet(S) /\ Cardinality(S) \in Nat
<1>1. IsFiniteSet(SUBSET Keys) /\ Jobs \in SUBSET SUBSET Keys
  BY KeysAreFinite, FS_SUBSET DEF Jobs
<1>2. IsFiniteSet(Jobs)
  BY <1>1, FS_Subset
<1> QED BY <1>2, FS_Subset, FS_CardinalityType

\* A job's keys are on one host.
LEMMA JobHostOf ==
  ASSUME NEW j \in Jobs
  PROVE  /\ j \subseteq Keys /\ j # {} /\ JobHost(j) \in Hosts
         /\ \A k \in j : HostOf[k] = JobHost(j)
<1>1. j \subseteq Keys /\ j # {} /\ \A k, l \in j : HostOf[k] = HostOf[l]
  BY DEF Jobs
<1>2. (CHOOSE k \in j : TRUE) \in j
  BY <1>1
<1> QED BY <1>1, <1>2, HostsAreHosts DEF JobHost

\* The keys of a host are a job.
LEMMA KeysOfAreJob ==
  ASSUME TypeOK, NEW h, KeysOf(h) # {}
  PROVE  KeysOf(h) \in Jobs /\ JobHost(KeysOf(h)) = h /\ (Local(KeysOf(h)) <=> h = LocalHost)
<1>1. KeysOf(h) \subseteq Keys /\ \A k \in KeysOf(h) : HostOf[k] = h
  BY DEF KeysOf, TypeOK
<1>2. KeysOf(h) \in Jobs
  BY <1>1 DEF Jobs
<1> QED BY <1>1, <1>2, JobHostOf DEF Local

\* What a job that goes on to l keeps.
LEMMA JobGoes ==
  ASSUME TypeOK, NEW j \in Jobs, NEW l \in At, job' = [job EXCEPT ![j].at = l]
  PROVE  /\ job' \in [Jobs -> JobType]
         /\ job'[j].at = l /\ job'[j].num = job[j].num
         /\ \A i \in Jobs \ {j} : job'[i] = job[i]
<1>1. job \in [Jobs -> JobType] /\ job[j] \in JobType
  BY DEF TypeOK, JobType, At
<1>2. LET x == [job[j] EXCEPT !.at = l] IN x \in JobType /\ x.at = l /\ x.num = job[j].num
  BY <1>1 DEF JobType
<1>3. job' = [job EXCEPT ![j] = [job[j] EXCEPT !.at = l]]
  OBVIOUS
<1> QED BY <1>1, <1>2, <1>3

\* A step of the function that runs job j: it gets a result, and ends when it
\* has sent that, its backend was not dialled or the context is done.
JobStepped(j) ==
  /\ UNCHANGED <<query, repos, valid, early, ctx, feeder, todo, picked, countBe, chQuery, closed,
                 pc, resp, merged, late>>
  /\ job' \in [Jobs -> JobType]
  /\ \A i \in Jobs \ {j} : job'[i] = job[i]
  /\ job[j].at \in {"run", "check", "send"} /\ job'[j].at \in {"check", "send", "end"}
  /\ \/ chResult' = chResult /\ (job'[j].at = "end" => ctx = "done" \/ j \in undialled')
     \/ chResult' = chResult \cup {j} /\ job'[j].at = "end" /\ Cardinality(chResult) < ResultCap
        /\ ~closed
  /\ undialled \subseteq undialled' /\ undialled' \subseteq Jobs
  /\ died' \in {"no", "send", "meta"}

\* Each action of a job is such a step.
LEMMA JobSteps ==
  ASSUME TypeOK, NEW j \in Running, Job(j)
  PROVE  JobStepped(j)
<1> USE DEF input, feed, main
<1>0. j \in Jobs /\ job[j].at \in {"run", "check", "send"} /\ job \in [Jobs -> JobType]
  BY DEF Running, TypeOK, JobType, At
<1>1. ASSUME NEW n \in 0 .. MaxNames, LocalReturns(j, n) \/ RemoteReturns(j, n) PROVE JobStepped(j)
  <2>1. [at |-> "check", num |-> n] \in JobType
    BY DEF JobType, At
  <2>2. job' = [job EXCEPT ![j] = [at |-> "check", num |-> n]]
    BY <1>1 DEF LocalReturns, RemoteReturns
  <2>3. job' \in [Jobs -> JobType] /\ job'[j].at = "check" /\ \A i \in Jobs \ {j} : job'[i] = job[i]
    BY <1>0, <2>1, <2>2
  <2> QED BY <1>0, <1>1, <2>3 DEF LocalReturns, RemoteReturns, JobStepped, TypeOK
<1>2. CASE DialFails(j)
  <2>1. "end" \in At /\ job' = [job EXCEPT ![j].at = "end"]
    BY <1>2 DEF DialFails, At
  <2>2. job' \in [Jobs -> JobType] /\ job'[j].at = "end" /\ \A i \in Jobs \ {j} : job'[i] = job[i]
    BY <1>0, <2>1, JobGoes
  <2> QED BY <1>0, <1>2, <2>2 DEF DialFails, JobStepped, TypeOK
<1>3. CASE JobChecks(j)
  <2> DEFINE l == IF ctx = "done" THEN "end" ELSE "send"
  <2>1. l \in At /\ job' = [job EXCEPT ![j].at = l]
    BY <1>3 DEF JobChecks, At
  <2>2. l \in {"end", "send"} /\ (l = "end" => ctx = "done")
    OBVIOUS
  <2> HIDE DEF l
  <2>3. job' \in [Jobs -> JobType] /\ job'[j].at = l /\ \A i \in Jobs \ {j} : job'[i] = job[i]
    BY <1>0, <2>1, JobGoes
  <2> QED BY <1>0, <1>3, <2>2, <2>3 DEF JobChecks, JobStepped, TypeOK
<1>4. CASE JobSends(j)
  <2>1. "end" \in At /\ job' = [job EXCEPT ![j].at = "end"]
    BY <1>4 DEF JobSends, At
  <2>2. job' \in [Jobs -> JobType] /\ job'[j].at = "end" /\ \A i \in Jobs \ {j} : job'[i] = job[i]
    BY <1>0, <2>1, JobGoes
  <2> QED BY <1>0, <1>4, <2>2 DEF JobSends, JobStepped, TypeOK
<1>5. CASE SendOnClosed(j)
  BY <1>0, <1>5 DEF SendOnClosed, JobStepped, TypeOK
<1> QED BY <1>1, <1>2, <1>3, <1>4, <1>5 DEF Job, JobGoesOn, LocalFindReturns

\* par takes job j.
JobTaken(j) ==
  /\ j \in chQuery /\ chQuery' = chQuery \ {j} /\ valid /\ ~closed /\ pc # "new"
  /\ UNCHANGED <<query, repos, valid, early, ctx, feeder, todo, picked, countBe, chResult, closed,
                 pc, resp, merged, died, undialled, late>>
  /\ job' \in [Jobs -> JobType] /\ job'[j].at = "run"
  /\ \A i \in Jobs \ {j} : job'[i] = job[i]

\* That is what JobStarts does.
LEMMA JobTakes ==
  ASSUME TypeOK, NEW j \in chQuery, JobStarts(j)
  PROVE  JobTaken(j)
<1>1. j \in Jobs /\ "run" \in At /\ job' = [job EXCEPT ![j].at = "run"]
  BY DEF TypeOK, At, JobStarts
<1>2. job' \in [Jobs -> JobType] /\ job'[j].at = "run" /\ \A i \in Jobs \ {j} : job'[i] = job[i]
  BY <1>1, JobGoes
<1> QED BY <1>2 DEF JobTaken, JobStarts, input, feed, main

\* The feeder touches neither the jobs that run nor their results.
FeederStepped ==
  /\ UNCHANGED <<query, repos, valid, early, ctx, job, chResult, closed, pc, resp, merged, died,
                 undialled, late>>
  /\ feeder # "end"

\* Each action of the feeder leaves them alone.
LEMMA FeederSteps == Feeder => FeederStepped
BY DEF Feeder, FeederStepped, PickEnds, FeedEnds, PickKey, QueueHost, input, main

\* Every step is one of the feeder, of par, of a job, of doFind, or the end of
\* its time.
LEMMA Steps ==
  ASSUME TypeOK, [Next]_vars
  PROVE  \/ Feeder
         \/ \E j \in chQuery : JobTaken(j)
         \/ \E j \in Jobs : JobStepped(j)
         \/ /\ UNCHANGED <<query, repos, valid, early, feeder, todo, picked, countBe, chQuery, job,
                           undialled>>
            /\ \/ ParReturns \/ Reject \/ StartPar \/ Return \/ Timeout
               \/ \E j \in chResult : Merge(j)
               \/ MetaRace \/ UNCHANGED vars
<1> USE DEF input, feed, main
<1>1. \A j \in chQuery : JobStarts(j) => JobTaken(j)
  BY JobTakes
<1>2. \A j \in Running : Job(j) => JobStepped(j) /\ j \in Jobs
  BY JobSteps DEF Running
<1>3. ParReturns \/ Reject \/ StartPar \/ Return \/ Timeout \/ MetaRace \/ UNCHANGED vars
      => UNCHANGED <<query, repos, valid, early, feeder, todo, picked, countBe, chQuery, job, undialled>>
  BY DEF ParReturns, Reject, StartPar, Return, Timeout, MetaRace, vars
<1>4. \A j : Merge(j)
      => UNCHANGED <<query, repos, valid, early, feeder, todo, picked, countBe, chQuery, job, undialled>>
  BY DEF Merge
<1> HIDE DEF input, feed, main
<1> QED BY <1>1, <1>2, <1>3, <1>4 DEF Next, Par, Main

\* A job is queued whose keys the feeder had in hand.
LEMMA QueueKeeps ==
  ASSUME TypeOK, ShareInv, HostInv, NEW h \in Hosts, QueueHost(h)
  PROVE  ShareInv' /\ HostInv'
<1> DEFINE j == KeysOf(h)
           R == {i \in Queued : ~Local(i)}
<1>1. /\ feeder = "hosts" /\ j # {} /\ picked' = picked \ j /\ chQuery' = chQuery \cup {j}
      /\ countBe' = IF h = LocalHost THEN countBe ELSE countBe + 1
      /\ UNCHANGED <<feeder, todo, job, repos, query>>
  BY DEF QueueHost, input
<1>2. j \subseteq picked /\ \A k \in picked : k \in j <=> HostOf[k] = h
  BY DEF KeysOf
<1>3. j \in Jobs /\ JobHost(j) = h /\ (Local(j) <=> h = LocalHost)
  BY <1>1, KeysOfAreJob
<1> HIDE DEF j
<1>4. Queued' = Queued \cup {j} /\ j \notin Queued
  <2>1. Queued' = Queued \cup {j}
    BY <1>1 DEF Queued
  <2>2. j \cap UNION Queued = {}
    BY <1>2 DEF ShareInv
  <2> QED BY <1>1, <2>1, <2>2
<1>5. ShareInv'
  <2>1. UNION Queued' = (UNION Queued) \cup j
    BY <1>4
  <2>2. \A i \in chQuery' : job'[i].at = "none"
    BY <1>1, <1>3, <1>4 DEF ShareInv, Queued
  <2>3. Asked' = Asked
    BY <1>1 DEF Asked
  <2> QED BY <1>1, <1>2, <2>1, <2>2, <2>3 DEF ShareInv
<1>6. \A i \in Queued : JobHost(i) # h
  BY <1>1, <1>2 DEF HostInv
<1>7. IsFiniteSet(R) /\ Cardinality(R) \in Nat /\ countBe = Cardinality(R)
  BY JobsAreFinite DEF HostInv, Queued, TypeOK
<1>8. countBe' = Cardinality({i \in Queued' : ~Local(i)})
  <2>1. CASE h = LocalHost
    <3>1. {i \in Queued' : ~Local(i)} = R
      BY <1>3, <1>4, <2>1
    <3> QED BY <1>1, <1>7, <2>1, <3>1
  <2>2. CASE h # LocalHost
    <3>1. {i \in Queued' : ~Local(i)} = R \cup {j} /\ j \notin R
      BY <1>3, <1>4, <2>2
    <3>2. Cardinality(R \cup {j}) = Cardinality(R) + 1
      BY <1>7, <3>1, FS_AddElement
    <3> QED BY <1>1, <1>7, <2>2, <3>1, <3>2
  <2> QED BY <2>1, <2>2
<1>9. \A i, l \in Queued' : i # l => JobHost(i) # JobHost(l)
  BY <1>3, <1>4, <1>6 DEF HostInv
<1>10. \A i \in Queued', k \in picked' : HostOf[k] # JobHost(i)
  BY <1>1, <1>2, <1>3, <1>4 DEF HostInv
<1> QED BY <1>5, <1>8, <1>9, <1>10 DEF HostInv

\* The feeder shares out the keys that it picked, and every other step leaves
\* them shared out: a job that starts or goes on stays queued.
LEMMA ShareKept ==
  ASSUME TypeOK, ShareInv, HostInv, [Next]_vars
  PROVE  ShareInv' /\ HostInv'
<1>1. ASSUME NEW k \in Keys, PickKey(k) PROVE ShareInv' /\ HostInv'
  <2>1. /\ feeder = "pick" /\ k \in todo /\ todo' = todo \ {k}
        /\ UNCHANGED <<chQuery, job, countBe, feeder, repos, query>>
        /\ picked' = IF k \in Asked THEN picked \cup {k} ELSE picked
    BY <1>1 DEF PickKey, input, Asked
  <2>2. Queued = {} /\ Queued' = {} /\ chQuery' = {} /\ UNION Queued = {} /\ UNION Queued' = {}
    BY <2>1 DEF ShareInv, Queued
  <2>3. Asked' = Asked
    BY <2>1 DEF Asked
  <2>4. ShareInv'
    BY <2>1, <2>2, <2>3 DEF ShareInv
  <2>5. HostInv'
    BY <2>1, <2>2 DEF HostInv
  <2> QED BY <2>4, <2>5
<1>2. ASSUME PickEnds \/ FeedEnds PROVE ShareInv' /\ HostInv'
  <2>1. UNCHANGED <<chQuery, job, todo, picked, countBe, repos, query>>
        /\ (feeder = "pick" => todo = {}) /\ feeder' # "pick"
    BY <1>2 DEF PickEnds, FeedEnds, input
  <2>2. Queued' = Queued /\ Asked' = Asked
    BY <2>1 DEF Queued, Asked
  <2> QED BY <2>1, <2>2 DEF ShareInv, HostInv
<1>3. ASSUME Queued' = Queued, \A j \in chQuery' : job'[j].at = "none",
             UNCHANGED <<query, repos, feeder, todo, picked, countBe>>
      PROVE  ShareInv' /\ HostInv'
  <2>1. Asked' = Asked
    BY <1>3 DEF Asked
  <2> QED BY <1>3, <2>1 DEF ShareInv, HostInv
<1>4. ASSUME NEW j \in chQuery, JobTaken(j) PROVE ShareInv' /\ HostInv'
  <2>1. j \in Jobs /\ chQuery \subseteq Jobs /\ job[j].at = "none"
    BY DEF TypeOK, ShareInv
  <2>2. Queued' = Queued
    BY <1>4, <2>1 DEF Queued, JobTaken
  <2>3. \A i \in chQuery' : job'[i].at = "none"
    BY <1>4, <2>1 DEF ShareInv, JobTaken
  <2> QED BY <1>3, <1>4, <2>2, <2>3 DEF JobTaken
<1>5. ASSUME NEW j \in Jobs, JobStepped(j) PROVE ShareInv' /\ HostInv'
  <2>1. Queued' = Queued
    BY <1>5 DEF Queued, JobStepped
  <2>2. \A i \in chQuery' : job'[i].at = "none"
    BY <1>5 DEF ShareInv, JobStepped, TypeOK
  <2> QED BY <1>3, <1>5, <2>1, <2>2 DEF JobStepped
<1>6. CASE UNCHANGED <<query, repos, feeder, todo, picked, countBe, chQuery, job>>
  BY <1>3, <1>6 DEF Queued, ShareInv
<1> QED BY <1>1, <1>2, <1>4, <1>5, <1>6, Steps, QueueKeeps DEF Feeder

\* What a merge does to the response.
LEMMA Merges ==
  ASSUME TypeOK, NEW j \in chResult, Merge(j)
  PROVE  /\ j \in Jobs /\ job[j].num \in Nat
         /\ resp'.count = resp.count + 1 /\ resp'.num = resp.num + job[j].num
         /\ resp'.err = resp.err /\ resp' \in [count : Nat, num : Nat, err : BOOLEAN]
<1>1. j \in Jobs /\ job[j].num \in Nat
  BY LimitsAreNat DEF TypeOK
<1>2. resp.count \in Nat /\ resp.num \in Nat /\ resp.err \in BOOLEAN
  BY DEF TypeOK
<1>3. resp' = [count |-> resp.count + 1, num |-> resp.num + job[j].num, err |-> resp.err]
  BY DEF Merge, TypeOK
<1> QED BY <1>1, <1>2, <1>3

\* While nothing has gone wrong no result is lost, nor the channel closed too
\* early.
LEMMA FlowKept ==
  ASSUME Inv, [Next]_vars
  PROVE  FlowInv'
<1> USE DEF Inv
<1>0. chResult \subseteq Jobs /\ merged \subseteq Jobs /\ chQuery \subseteq Jobs
  BY DEF TypeOK
<1>1. CASE Feeder
  <2>1. FeederStepped /\ Intact' = Intact
    BY <1>1, FeederSteps DEF FeederStepped, Intact
  <2> QED BY <2>1 DEF FlowInv, FeederStepped, Running
<1>2. ASSUME NEW j \in chQuery, JobTaken(j) PROVE FlowInv'
  <2>1. j \in Jobs /\ job[j].at = "none" /\ j \notin chResult \cup merged
    BY <1>0 DEF ShareInv, FlowInv
  <2>2. Intact' = Intact
    BY <1>2 DEF JobTaken, Intact
  <2> QED BY <1>0, <1>2, <2>1, <2>2 DEF FlowInv, JobTaken
<1>3. ASSUME NEW j \in Jobs, JobStepped(j) PROVE FlowInv'
  <2>1. job[j].at \notin {"none", "end"} /\ j \in Running /\ j \notin chResult \cup merged
    BY <1>3 DEF JobStepped, Running, FlowInv
  <2>2. valid /\ (Intact' => Intact) /\ (Intact' => undialled' = {})
    BY <1>3, <2>1 DEF JobStepped, FlowInv, Intact
  <2>3. Intact => ~closed /\ pc # "done" /\ ctx = "live"
    BY <2>1, <2>2 DEF FlowInv
  <2>4. \A i \in chResult' \cup merged' : job'[i].at = "end"
    BY <1>0, <1>3, <2>1 DEF FlowInv, JobStepped
  <2>5. Intact' => \A i \in Jobs : job'[i].at = "end" => i \in chResult' \cup merged'
    BY <1>3, <2>2, <2>3 DEF FlowInv, JobStepped
  <2>6. chResult' \cap merged' = {}
    BY <1>3, <2>1 DEF FlowInv, JobStepped
  <2>7. pc' = "done" /\ valid' => closed' /\ chResult' = {}
    BY <1>3 DEF FlowInv, JobStepped
  <2>8. \A i \in Jobs : job'[i].at # "none" => valid'
    BY <1>3, <2>2 DEF JobStepped
  <2>9. /\ pc' # "done" /\ Intact' => ctx' = "live"
        /\ ~(closed' /\ Intact')
    BY <1>3, <2>2, <2>3 DEF JobStepped
  <2> QED BY <2>4, <2>5, <2>6, <2>7, <2>8, <2>9 DEF FlowInv
<1>4. CASE ParReturns /\ UNCHANGED undialled
  <2>1. /\ UNCHANGED <<valid, ctx, feeder, chQuery, job, chResult, pc, resp, merged, undialled, late>>
        /\ valid /\ ~closed /\ ParDone
    BY <1>4 DEF ParReturns, input, feed, main
  <2>2. Intact' = Intact /\ pc # "done"
    BY <2>1 DEF Intact, FlowInv
  <2>3. Intact => feeder = "end" /\ chQuery = {} /\ Running = {}
    BY <2>1, <2>2 DEF ParDone, FlowInv, Intact
  <2> QED BY <2>1, <2>2, <2>3 DEF FlowInv, Running
<1>5. CASE Reject
  <2>1. /\ UNCHANGED <<valid, feeder, chQuery, job, chResult, closed, merged, undialled, late>>
        /\ resp'.num = resp.num /\ ~valid /\ pc' = "done"
    BY <1>5 DEF Reject, input, feed, TypeOK
  <2>2. Intact' = Intact
    BY <2>1 DEF Intact
  <2> QED BY <2>1, <2>2 DEF FlowInv, Running
<1>6. CASE StartPar
  BY <1>6 DEF StartPar, FlowInv, Running, Intact, input, feed
<1>7. CASE Return
  <2>1. /\ UNCHANGED <<valid, feeder, chQuery, job, chResult, closed, merged, undialled, late>>
        /\ resp'.num = resp.num /\ closed /\ chResult = {} /\ pc' = "done"
    BY <1>7 DEF Return, input, feed, TypeOK
  <2>2. Intact' = Intact
    BY <2>1 DEF Intact
  <2> QED BY <2>1, <2>2 DEF FlowInv, Running
<1>8. CASE Timeout
  BY <1>8 DEF Timeout, FlowInv, Intact, input, feed, main
<1>9. ASSUME NEW j \in chResult, Merge(j) PROVE FlowInv'
  <2>1. /\ UNCHANGED <<valid, pc, feeder, chQuery, job, closed, undialled, late>>
        /\ chResult' = chResult \ {j} /\ merged' = merged \cup {j} /\ pc = "merge"
        /\ ctx' = IF EnoughResults(resp'.num) THEN "done" ELSE ctx
    BY <1>9 DEF Merge, input, feed
  <2>2. EnoughResults(resp.num) => EnoughResults(resp'.num)
    BY <1>9, Merges, LimitsAreNat DEF EnoughResults, TypeOK
  <2>3. Intact' => Intact /\ ctx' = ctx
    BY <2>1, <2>2 DEF Intact
  <2> QED BY <2>1, <2>3 DEF FlowInv, Running
<1>10. CASE UNCHANGED vars
  BY <1>10 DEF vars, FlowInv, Running, Intact
<1>11. CASE MetaRace
  BY <1>11 DEF MetaRace, FlowInv, Running, Intact, input, feed, main
<1> QED BY <1>1, <1>2, <1>3, <1>4, <1>5, <1>6, <1>7, <1>8, <1>9, <1>10, <1>11, Steps

\* The counts do not change with the jobs that are not merged.
LEMMA RespSame ==
  ASSUME TypeOK, RespInv, UNCHANGED <<merged, valid>>, \A i \in merged : job'[i] = job[i],
         resp'.count = resp.count, resp'.num = resp.num,
         UNCHANGED <<pc, resp>> \/ pc' # "done" \/ ~valid \/ (resp'.err <=> merged = {})
  PROVE  RespInv'
<1>1. merged \subseteq Jobs /\ IsFiniteSet(merged)
  BY JobsAreFinite DEF TypeOK
<1>2. \A i \in merged : NumOf(job)[i] = NumOf(job')[i]
  BY <1>1 DEF NumOf
<1>3. SumFunctionOnSet(NumOf(job), merged) = SumFunctionOnSet(NumOf(job'), merged)
  BY <1>1, <1>2, SumSame
<1> QED BY <1>3 DEF RespInv

\* Every result is merged once.
LEMMA RespKept ==
  ASSUME Inv, [Next]_vars
  PROVE  RespInv'
<1> USE DEF Inv
<1>0. /\ merged \subseteq Jobs /\ IsFiniteSet(merged) /\ Cardinality(merged) \in Nat
      /\ \A i \in merged : job[i].at = "end"
  BY JobsAreFinite DEF TypeOK, FlowInv
<1>1. CASE Feeder
  BY <1>1, FeederSteps, RespSame DEF FeederStepped
<1>2. ASSUME NEW j \in chQuery, JobTaken(j) PROVE RespInv'
  <2>1. j \notin merged
    BY <1>0 DEF ShareInv
  <2> QED BY <1>2, <1>0, <2>1, RespSame DEF JobTaken
<1>3. ASSUME NEW j \in Jobs, JobStepped(j) PROVE RespInv'
  BY <1>3, <1>0, RespSame DEF JobStepped
<1>4. CASE ParReturns
  BY <1>4, RespSame DEF ParReturns, input, main
<1>5. CASE Reject
  <2>1. resp'.count = resp.count /\ resp'.num = resp.num
    BY <1>5 DEF Reject, TypeOK
  <2> QED BY <1>5, <2>1, RespSame DEF Reject, input
<1>6. CASE StartPar
  BY <1>6, RespSame DEF StartPar, input
<1>7. CASE Return
  <2>1. resp'.count = resp.count /\ resp'.num = resp.num /\ (resp'.err <=> resp.count < 1)
    BY <1>7 DEF Return, TypeOK
  <2>2. resp'.err <=> merged = {}
    BY <1>0, <2>1, FS_EmptySet DEF RespInv
  <2> QED BY <1>7, <2>1, <2>2, RespSame DEF Return, input
<1>8. CASE Timeout
  BY <1>8, RespSame DEF Timeout, input, main
<1>9. ASSUME NEW j \in chResult, Merge(j) PROVE RespInv'
  <2>1. j \in Jobs /\ j \notin merged /\ merged' = merged \cup {j} /\ UNCHANGED <<job, pc>>
        /\ pc = "merge"
    BY <1>9 DEF Merge, FlowInv, TypeOK
  <2>2. resp'.count = resp.count + 1 /\ resp'.num = resp.num + job[j].num
    BY <1>9, Merges
  <2>3. \A i \in Jobs : NumOf(job)[i] = job[i].num /\ NumOf(job)[i] \in Nat
    BY LimitsAreNat DEF TypeOK, NumOf
  <2>4. SumFunctionOnSet(NumOf(job), merged') = NumOf(job)[j] + SumFunctionOnSet(NumOf(job), merged)
    BY <1>0, <2>1, <2>3, SumAdd
  <2>5. SumFunctionOnSet(NumOf(job), merged) \in Nat
    BY <1>0, <2>3, SumType
  <2>6. resp'.num = SumFunctionOnSet(NumOf(job), merged')
    BY <2>1, <2>2, <2>3, <2>4, <2>5 DEF RespInv
  <2>7. resp'.count = Cardinality(merged')
    <3>1. Cardinality(merged \cup {j}) = Cardinality(merged) + 1
      BY <1>0, <2>1, FS_AddElement
    <3> QED BY <2>1, <2>2, <3>1 DEF RespInv
  <2> QED BY <2>1, <2>6, <2>7 DEF RespInv
<1>10. CASE UNCHANGED vars
  BY <1>10, RespSame DEF vars
<1>11. CASE MetaRace
  BY <1>11, RespSame DEF MetaRace, input, main
<1> QED BY <1>1, <1>2, <1>3, <1>4, <1>5, <1>6, <1>7, <1>8, <1>9, <1>10, <1>11, Steps

\* Every variable keeps its type; there are no more backend requests than
\* hosts.
LEMMA TypeKept ==
  ASSUME Inv, [Next]_vars, HostInv'
  PROVE  TypeOK'
<1> USE DEF Inv
<1>1. CASE Feeder
  <2>1. UNCHANGED <<query, repos, valid, early, ctx, job, chResult, closed, pc, resp, merged, died,
                    undialled, late>>
    BY <1>1, FeederSteps DEF FeederStepped
  <2>2. feeder' \in {"pick", "hosts", "end"} /\ todo' \subseteq Keys /\ picked' \subseteq Keys
    <3>1. \A k \in Keys : PickKey(k) => picked' \subseteq Keys
      BY DEF PickKey, TypeOK
    <3> QED BY <1>1, <3>1 DEF Feeder, PickEnds, FeedEnds, PickKey, QueueHost, TypeOK
  <2>3. chQuery' \subseteq Jobs /\ Cardinality(chQuery') <= QueryCap
    <3>1. chQuery \subseteq Jobs /\ IsFiniteSet(chQuery)
      BY JobsAreFinite DEF TypeOK
    <3>2. PickEnds \/ FeedEnds \/ (\E k \in Keys : PickKey(k)) => UNCHANGED chQuery
      BY DEF PickEnds, FeedEnds, PickKey
    <3>3. ASSUME NEW h \in Hosts, QueueHost(h)
          PROVE  chQuery' \subseteq Jobs /\ Cardinality(chQuery') <= QueryCap
      <4>1. KeysOf(h) \in Jobs /\ chQuery' = chQuery \cup {KeysOf(h)}
            /\ Cardinality(chQuery) < QueryCap /\ QueryCap \in Nat
        BY <3>3, KeysOfAreJob, CapsAreNat DEF QueueHost
      <4> QED BY <3>1, <4>1, CardOfMore
    <3> QED BY <1>1, <3>2, <3>3 DEF Feeder, TypeOK
  <2>4. countBe' \in 0 .. Cardinality(Hosts)
    <3> DEFINE R == {i \in Queued' : ~Local(i)}
               f == [j \in R |-> JobHost(j)]
    <3>1. R \subseteq Jobs /\ IsFiniteSet(R) /\ Cardinality(R) \in Nat
      BY <2>3, JobsAreFinite DEF Queued
    <3>2. f \in Injection(R, Hosts)
      BY <3>1, JobHostOf DEF HostInv, Injection, IsInjective
    <3>3. Cardinality(R) <= Cardinality(Hosts)
      BY <3>2, KeysAreFinite, FS_Injection
    <3>4. Cardinality(Hosts) \in Nat
      BY KeysAreFinite, FS_CardinalityType
    <3> QED BY <3>1, <3>3, <3>4 DEF HostInv
  <2> QED BY <2>1, <2>2, <2>3, <2>4 DEF TypeOK
<1>2. ASSUME NEW j \in chQuery, JobTaken(j) PROVE TypeOK'
  <2>1. Cardinality(chQuery \ {j}) <= QueryCap
    BY JobsAreFinite, CardOfLess, CapsAreNat DEF TypeOK
  <2> QED BY <1>2, <2>1 DEF JobTaken, TypeOK, JobType, At
<1>3. ASSUME NEW j \in Jobs, JobStepped(j) PROVE TypeOK'
  <2>1. chResult' \subseteq Jobs /\ Cardinality(chResult') <= ResultCap
    <3>1. IsFiniteSet(chResult) /\ chResult \subseteq Jobs
      BY JobsAreFinite DEF TypeOK
    <3>2. CASE UNCHANGED chResult
      BY <3>2 DEF TypeOK
    <3>3. CASE chResult' = chResult \cup {j} /\ Cardinality(chResult) < ResultCap
      BY <3>1, <3>3, CardOfMore, CapsAreNat
    <3> QED BY <1>3, <3>2, <3>3 DEF JobStepped
  <2> QED BY <1>3, <2>1 DEF JobStepped, TypeOK, JobType, At
<1>4. CASE ParReturns \/ StartPar \/ Timeout \/ UNCHANGED vars
  <2>1. UNCHANGED <<query, repos, valid, early, feeder, todo, picked, countBe, chQuery, job, chResult,
                    resp, died, merged, undialled>>
    BY <1>4 DEF ParReturns, StartPar, Timeout, vars, input, feed, main
  <2>2. ctx' \in {"live", "done"} /\ pc' \in {"new", "merge", "done"} /\ closed' \in BOOLEAN
        /\ late' \in BOOLEAN
    BY <1>4 DEF ParReturns, StartPar, Timeout, vars, main, TypeOK
  <2> QED BY <2>1, <2>2 DEF TypeOK
<1>5. CASE Reject \/ Return
  <2>1. resp' \in [count : Nat, num : Nat, err : BOOLEAN]
    <3>1. resp' = [resp EXCEPT !.err = TRUE] \/ resp' = [resp EXCEPT !.err = resp.count < 1]
      BY <1>5 DEF Reject, Return
    <3>2. (resp.count < 1) \in BOOLEAN /\ resp \in [count : Nat, num : Nat, err : BOOLEAN]
      BY DEF TypeOK
    <3> QED BY <3>1, <3>2
  <2> QED BY <1>5, <2>1 DEF Reject, Return, input, feed, TypeOK
<1>6. ASSUME NEW j \in chResult, Merge(j) PROVE TypeOK'
  <2>1. j \in Jobs /\ resp' \in [count : Nat, num : Nat, err : BOOLEAN]
    BY <1>6, Merges
  <2>2. Cardinality(chResult \ {j}) <= ResultCap
    BY JobsAreFinite, CardOfLess, CapsAreNat DEF TypeOK
  <2>3. ctx' \in {"live", "done"}
    BY <1>6 DEF Merge, TypeOK
  <2> QED BY <1>6, <2>1, <2>2, <2>3 DEF Merge, TypeOK, input, feed
<1>7. CASE MetaRace
  BY <1>7 DEF MetaRace, TypeOK, input, feed, main
<1> QED BY <1>1, <1>2, <1>3, <1>4, <1>5, <1>6, <1>7, Steps

\* Inv, from which FindComplete follows, holds in every reachable state.
THEOREM InvHolds == Spec => []Inv
<1>1. Init => Inv
  <2> SUFFICES ASSUME Init PROVE Inv
    OBVIOUS
  <2>1. Queued = {} /\ Running = {} /\ UNION Queued = {}
    BY DEF Init, Queued, Running
  <2>2. Cardinality({}) = 0 /\ SumFunctionOnSet(NumOf(job), {}) = 0
    BY FS_EmptySet, SumEmpty
  <2>3. TypeOK
    <3>1. Cardinality(Hosts) \in Nat
      BY KeysAreFinite, FS_CardinalityType
    <3>2. todo \subseteq Keys
      BY QueriesAreOfKeys DEF Init
    <3>3. job \in [Jobs -> [at : {"none", "run", "check", "send", "end"}, num : 0 .. MaxNames]]
      BY LimitsAreNat DEF Init
    <3>4. resp \in [count : Nat, num : Nat, err : BOOLEAN] /\ countBe \in 0 .. Cardinality(Hosts)
      BY <3>1 DEF Init
    <3>5. Cardinality(chQuery) <= QueryCap /\ Cardinality(chResult) <= ResultCap
      BY <2>2, CapsAreNat DEF Init
    <3> QED BY <3>2, <3>3, <3>4, <3>5 DEF Init, TypeOK
  <2>4. ShareInv
    <3>1. Asked \subseteq todo
      BY DEF Init, Asked, AsksFor
    <3> QED BY <2>1, <3>1 DEF Init, ShareInv
  <2>5. HostInv
    <3>1. {j \in Queued : ~Local(j)} = {}
      BY <2>1
    <3> QED BY <2>1, <2>2, <3>1 DEF Init, HostInv
  <2>6. FlowInv
    BY <2>1 DEF Init, FlowInv
  <2>7. RespInv
    BY <2>2 DEF Init, RespInv
  <2> QED BY <2>3, <2>4, <2>5, <2>6, <2>7 DEF Inv
<1>2. Inv /\ [Next]_vars => Inv'
  <2> SUFFICES ASSUME Inv, [Next]_vars PROVE Inv'
    OBVIOUS
  <2>1. ShareInv' /\ HostInv'
    BY ShareKept DEF Inv
  <2> QED BY <2>1, TypeKept, FlowKept, RespKept DEF Inv
<1> QED BY <1>1, <1>2, PTL DEF Spec

\* Every variable of the service keeps its type: neither channel has more in
\* it than there is room for, and no more backends are asked than there are
\* hosts.
THEOREM TypeCorrect == Spec => []TypeOK
<1>1. Inv => TypeOK
  BY DEF Inv
<1> QED BY <1>1, InvHolds, PTL

\* doFind answers with all the names of all the results, an error only if
\* there are none, and results for every repo the query asks for unless it ran
\* out of time, could not dial a backend, or had enough.
THEOREM FindCompleteHolds == Spec => []FindComplete
<1>1. Inv => FindComplete
  <2> SUFFICES ASSUME Inv, pc = "done", valid
               PROVE  /\ resp.err <=> merged = {}
                      /\ resp.num = SumFunctionOnSet([j \in Jobs |-> job[j].num], merged)
                      /\ (~late /\ undialled = {} /\ ~EnoughResults(resp.num)) =>
                           UNION merged = {k \in repos : AsksFor(query, k, MetaOf[k])} \ picked
    BY DEF FindComplete
  <2>1. closed /\ chResult = {}
    BY DEF Inv, FlowInv
  <2>2. ASSUME Intact PROVE UNION merged = Asked \ picked
    <3>1. feeder = "end" /\ chQuery = {} /\ Running = {}
      BY <2>1, <2>2 DEF Inv, FlowInv
    <3>2. \A j \in Jobs : job[j].at # "none" <=> j \in merged
      BY <2>1, <2>2, <3>1 DEF Inv, FlowInv, Running, TypeOK
    <3>3. Queued = merged
      BY <3>1, <3>2 DEF Queued, Inv, TypeOK
    <3> QED BY <3>1, <3>3 DEF Inv, ShareInv
  <2> QED BY <2>2 DEF Inv, RespInv, NumOf, Intact, Asked
<1> QED BY <1>1, InvHolds, PTL
=============================================================================
