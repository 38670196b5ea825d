-------------------------- MODULE RepoStoreProofs --------------------------
(***************************************************************************)
(* Proofs about RepoStore, for any set of keys, values and goroutines.     *)
(***************************************************************************)
EXTENDS RepoStore, TLAPS

\* The steps during which a goroutine holds the mutex.
Holding == {"mutate", "open", "encode", "unlock"}

\* The mutex is held by exactly the goroutine that is inside a Set or
\* Delete, and a process that is down has no goroutines.
MutexInv ==
  /\ \A p \in Procs : pc[p] \in Holding <=> lock = p
  /\ ~up => \A p \in Procs : pc[p] = "idle"

\* What the file and the memory hold at each stage of the one write that
\* may be in progress.
SaveInv ==
  /\ (up /\ \A p \in Procs : pc[p] \notin {"open", "encode", "unlock"})
       => R = acked
  /\ (backed /\ up /\ ~dirty /\ \A p \in Procs : pc[p] \notin {"open", "encode"})
       => file.map = R
  /\ \A p \in Procs : pc[p] = "encode" => backed /\ ~file.intact
  /\ ~backed => ~file.intact
  /\ FileIsACommit

Inv == TypeOK /\ MutexInv /\ SaveInv

-----------------------------------------------------------------------------
\* NoArg is an argument: there is a key.
LEMMA NoArgType == NoArg \in [key : Keys, val : Values]
BY SomeKey DEF NoArg, Values

\* Type correctness of the database: no action, a restart from a damaged
\* file included, leaves a variable outside its type.
LEMMA TypeInductive == TypeOK /\ [Next]_vars => TypeOK'
<1> SUFFICES ASSUME TypeOK, [Next]_vars PROVE TypeOK'
  OBVIOUS
<1> USE NoArgType DEF TypeOK, Iterating
<1>1. ASSUME NEW p \in Procs, NEW k \in Keys, NEW v \in Values, Call(p, k, v)
      PROVE TypeOK'
  BY <1>1 DEF Call, Goto, iterVars
<1>2. ASSUME NEW p \in Procs, ForEachBegin(p) PROVE TypeOK'
  BY <1>2 DEF ForEachBegin, Goto, iterVars
<1>3. ASSUME NEW p \in Procs, Lock(p) PROVE TypeOK'
  BY <1>3 DEF Lock, Goto, iterVars
<1>4. ASSUME NEW p \in Procs, Mutate(p) PROVE TypeOK'
  <2>1. arg[p].key \in Keys /\ arg[p].val \in Values
    OBVIOUS
  <2>2. R' \in [Keys -> Values]
    BY <1>4, <2>1 DEF Mutate
  <2>3. raced' \in [Procs -> BOOLEAN]
    BY <1>4, Zenon DEF Mutate, Race
  <2> QED BY <1>4, <2>2, <2>3 DEF Mutate, Goto
<1>5. ASSUME NEW p \in Procs,
             FlushNothing(p) \/ FlushOpen(p) \/ FlushOpenFails(p)
             \/ FlushEncode(p) \/ FlushEncodeFails(p)
      PROVE TypeOK'
  <2>1. BadFile \in [intact : BOOLEAN, map : [Keys -> Values]]
    BY DEF BadFile, EmptyMap, Values
  <2>2. CASE FlushNothing(p)
    BY <2>2 DEF FlushNothing, Goto, iterVars
  <2>3. CASE FlushOpen(p)
    BY <2>1, <2>3 DEF FlushOpen, Goto, iterVars
  <2>4. CASE FlushOpenFails(p)
    BY <2>4 DEF FlushOpenFails, Goto, iterVars
  <2>5. CASE FlushEncode(p)
    BY <2>5 DEF FlushEncode, Goto, iterVars
  <2>6. CASE FlushEncodeFails(p)
    BY <2>6 DEF FlushEncodeFails, Goto, iterVars
  <2> QED BY <1>5, <2>2, <2>3, <2>4, <2>5, <2>6
<1>6. ASSUME NEW p \in Procs, Unlock(p) PROVE TypeOK'
  BY <1>6 DEF Unlock, Goto, iterVars
<1>7. ASSUME NEW p \in Procs, NEW k \in Keys, ForEachKey(p, k) PROVE TypeOK'
  BY <1>7 DEF ForEachKey, Goto
<1>8. ASSUME NEW p \in Procs, ForEachGet(p) PROVE TypeOK'
  <2>1. arg[p].key \in Keys /\ R[arg[p].key] \in Values
    OBVIOUS
  <2>2. arg' \in [Procs -> [key : Keys, val : Values]]
    BY <1>8, <2>1 DEF ForEachGet
  <2> QED BY <1>8, <2>2 DEF ForEachGet, Goto, iterVars
<1>9. ASSUME NEW p \in Procs, ForEachMore(p) \/ ForEachStop(p) \/ ForEachEnd(p)
      PROVE TypeOK'
  <2>1. CASE ForEachStop(p)
    BY <2>1 DEF ForEachStop, IterationOver, Goto
  <2>2. CASE ForEachEnd(p)
    BY <2>2 DEF ForEachEnd, IterationOver, Goto
  <2>3. CASE ForEachMore(p)
    BY <2>3 DEF ForEachMore, Goto, iterVars
  <2> QED BY <1>9, <2>1, <2>2, <2>3
<1>10. CASE Exit
  BY <1>10 DEF Exit
<1>11. CASE Start
  BY <1>11 DEF Start, Saved, iterVars
<1>12. CASE UNCHANGED vars
  BY <1>12 DEF vars
<1> QED
  BY <1>1, <1>2, <1>3, <1>4, <1>5, <1>6, <1>7, <1>8, <1>9, <1>10, <1>11, <1>12
  DEF Next, Writer, Iterator

\* The initial state satisfies the whole invariant.
LEMMA InitInv == Init => Inv
<1> SUFFICES ASSUME Init PROVE Inv
  OBVIOUS
<1>1. TypeOK
  BY NoArgType DEF Init, TypeOK, EmptyMap, BadFile, Values
<1>2. MutexInv
  BY ConstantsDistinct DEF Init, MutexInv, Holding
<1>3. SaveInv
  BY DEF Init, SaveInv, FileIsACommit, BadFile
<1> QED BY <1>1, <1>2, <1>3 DEF Inv

\* The mutex and the two stages of a save move together.
LEMMA SaveInductive == Inv /\ [Next]_vars => (MutexInv /\ SaveInv)'
<1> SUFFICES ASSUME Inv, [Next]_vars PROVE (MutexInv /\ SaveInv)'
  OBVIOUS
<1> USE ConstantsDistinct DEF Inv, TypeOK, MutexInv, SaveInv, Holding, FileIsACommit,
                             Iterating
<1>1. ASSUME NEW p \in Procs, NEW k \in Keys, NEW v \in Values, Call(p, k, v)
      PROVE (MutexInv /\ SaveInv)'
  BY <1>1 DEF Call, Goto, iterVars
<1>2. ASSUME NEW p \in Procs, ForEachBegin(p) PROVE (MutexInv /\ SaveInv)'
  BY <1>2 DEF ForEachBegin, Goto
<1>3. ASSUME NEW p \in Procs, Lock(p) PROVE (MutexInv /\ SaveInv)'
  BY <1>3 DEF Lock, Goto, iterVars
<1>4. ASSUME NEW p \in Procs, Mutate(p) PROVE (MutexInv /\ SaveInv)'
  BY <1>4 DEF Mutate, Goto
<1>5. ASSUME NEW p \in Procs, FlushNothing(p) PROVE (MutexInv /\ SaveInv)'
  BY <1>5 DEF FlushNothing, Goto, iterVars
<1>6. ASSUME NEW p \in Procs, FlushOpen(p) PROVE (MutexInv /\ SaveInv)'
  BY <1>6 DEF FlushOpen, Goto, iterVars, BadFile
<1>7. ASSUME NEW p \in Procs, FlushOpenFails(p) PROVE (MutexInv /\ SaveInv)'
  BY <1>7 DEF FlushOpenFails, Goto, iterVars
<1>8. ASSUME NEW p \in Procs, FlushEncode(p) PROVE (MutexInv /\ SaveInv)'
  BY <1>8 DEF FlushEncode, Goto, iterVars
<1>9. ASSUME NEW p \in Procs, FlushEncodeFails(p) PROVE (MutexInv /\ SaveInv)'
  BY <1>9 DEF FlushEncodeFails, Goto, iterVars
<1>10. ASSUME NEW p \in Procs, Unlock(p) PROVE (MutexInv /\ SaveInv)'
  BY <1>10 DEF Unlock, Goto, iterVars
<1>11. ASSUME NEW p \in Procs, Iterator(p) PROVE (MutexInv /\ SaveInv)'
  BY <1>11 DEF Iterator, ForEachKey, ForEachGet, ForEachMore, ForEachStop,
               ForEachEnd, IterationOver, Goto, iterVars
<1>12. CASE Exit
  BY <1>12 DEF Exit
<1>13. CASE Start
  BY <1>13 DEF Start, Saved, iterVars
<1>14. CASE UNCHANGED vars
  BY <1>14 DEF vars
<1> QED
  BY <1>1, <1>2, <1>3, <1>4, <1>5, <1>6, <1>7, <1>8, <1>9, <1>10, <1>11,
     <1>12, <1>13, <1>14
  DEF Next, Writer

\* The conjunction is inductive, so it holds in every reachable state.
LEMMA Invariance == Spec => []Inv
<1>1. Inv /\ [Next]_vars => Inv'
  BY TypeInductive, SaveInductive DEF Inv
<1> QED BY InitInv, <1>1, PTL DEF Spec

-----------------------------------------------------------------------------
\* Every variable of the database keeps its type.
THEOREM TypeCorrect == Spec => []TypeOK
BY Invariance, PTL DEF Inv

\* Between calls the backing file is the map (db.go: the flush deferred by
\* Set and Delete runs before the Unlock they defer).
THEOREM FileIsCurrentHolds == Spec => []FileIsCurrent
<1>1. Inv => FileIsCurrent
  BY ConstantsDistinct
  DEF Inv, MutexInv, SaveInv, FileIsCurrent, Saved, Holding, TypeOK
<1> QED BY Invariance, <1>1, PTL

\* A file that decodes is the map before or after the one write in
\* progress, at every moment and after any exit.
THEOREM FileIsACommitHolds == Spec => []FileIsACommit
<1>1. Inv => FileIsACommit
  BY DEF Inv, SaveInv
<1> QED BY Invariance, <1>1, PTL

\* What ForEach hands to its callback is a finished write, and saved
\* (db.go: the range takes no lock, but the Get in its body does, and the
\* lock is free only when no write is in progress).
THEOREM ForEachHandsOutCommittedHolds == Spec => ForEachHandsOutCommitted
<1> DEFINE A == \A p \in Procs :
                  (pc[p] # "callback" /\ pc'[p] = "callback") =>
                    LET k == arg'[p].key
                        v == arg'[p].val
                    IN /\ R = acked /\ v = acked[k] /\ v # NoRepo
                       /\ (backed /\ ~dirty) => v = Saved[k]
<1>1. Inv /\ [Next]_vars => [A]_vars
  <2> SUFFICES ASSUME Inv, Next,
                      NEW q \in Procs, pc[q] # "callback", pc'[q] = "callback"
               PROVE LET k == arg'[q].key
                         v == arg'[q].val
                     IN /\ R = acked /\ v = acked[k] /\ v # NoRepo
                        /\ (backed /\ ~dirty) => v = Saved[k]
    OBVIOUS
  <2> USE DEF Inv, TypeOK
  <2>1. ForEachGet(q)
    <3>1. ASSUME NEW p \in Procs, NEW k \in Keys, NEW v \in Values, Call(p, k, v)
          PROVE FALSE
      BY <3>1 DEF Call, Goto
    <3>2. ASSUME NEW p \in Procs, ForEachBegin(p) \/ Lock(p) \/ Mutate(p)
          PROVE FALSE
      BY <3>2 DEF ForEachBegin, Lock, Mutate, Goto
    <3>3. ASSUME NEW p \in Procs, FlushNothing(p) \/ FlushOpen(p)
                   \/ FlushOpenFails(p) \/ FlushEncode(p)
                   \/ FlushEncodeFails(p) \/ Unlock(p)
          PROVE FALSE
      BY <3>3 DEF FlushNothing, FlushOpen, FlushOpenFails, FlushEncode,
                  FlushEncodeFails, Unlock, Goto
    <3>4. ASSUME NEW p \in Procs, NEW k \in Keys, ForEachKey(p, k)
          PROVE FALSE
      BY <3>4 DEF ForEachKey, Goto
    <3>5. ASSUME NEW p \in Procs, ForEachMore(p) \/ ForEachStop(p) \/ ForEachEnd(p)
          PROVE FALSE
      BY <3>5 DEF ForEachMore, ForEachStop, ForEachEnd, Goto
    <3>6. ASSUME NEW p \in Procs, ForEachGet(p) PROVE p = q
      BY <3>6 DEF ForEachGet, Goto
    <3>7. ~Exit /\ ~Start
      BY DEF Exit, Start
    <3> QED
      BY <3>1, <3>2, <3>3, <3>4, <3>5, <3>6, <3>7 DEF Next, Writer, Iterator
  <2>2. up /\ lock = NoProc /\ \A p \in Procs : pc[p] \notin Holding
    BY <2>1, ConstantsDistinct DEF ForEachGet, MutexInv
  <2>3. R = acked /\ ((backed /\ ~dirty) => Saved = R)
    BY <2>2 DEF SaveInv, Holding, Saved
  <2>4. LET v == R[arg[q].key]
        IN v # NoRepo /\ arg'[q].key = arg[q].key /\ arg'[q].val = v
    BY <2>1 DEF ForEachGet, Goto
  <2> QED BY <2>3, <2>4
<1>2. Spec => [][A]_vars
  BY Invariance, <1>1, PTL DEF Spec
<1> QED BY <1>2 DEF ForEachHandsOutCommitted

\* The database implements a map with one saved copy: of its steps only
\* Mutate, FlushOpen, FlushEncode and Start are visible to a user.
THEOREM Refinement == Spec => IsPersistentMap
<1>1. Init => PM!Init
  BY DEF Init, PM!Init, PM!EmptyMap, EmptyMap, Saved, BadFile
<1>2. TypeOK /\ [Next]_vars => [PM!Next]_(PM!vars)
  <2> SUFFICES ASSUME TypeOK, [Next]_vars PROVE [PM!Next]_(PM!vars)
    OBVIOUS
  <2> USE DEF PM!vars, Saved
  <2>1. ASSUME NEW p \in Procs, Mutate(p) PROVE PM!Next
    <3>1. arg[p].key \in Keys /\ arg[p].val \in Values
      BY DEF TypeOK
    <3>2. PM!Put(arg[p].key, arg[p].val)
      BY <2>1 DEF Mutate, PM!Put
    <3> QED BY <3>1, <3>2 DEF PM!Next, Values
  <2>2. ASSUME NEW p \in Procs, FlushOpen(p) PROVE PM!Next
    BY <2>2 DEF FlushOpen, BadFile, EmptyMap, PM!Next, PM!Wipe, PM!EmptyMap
  <2>3. ASSUME NEW p \in Procs, FlushEncode(p) PROVE PM!Next
    BY <2>3 DEF FlushEncode, PM!Next, PM!Save
  <2>4. CASE Start
    BY <2>4 DEF Start, PM!Next, PM!Reload
  <2>5. ASSUME NEW p \in Procs, NEW k \in Keys, NEW v \in Values, Call(p, k, v)
        PROVE UNCHANGED PM!vars
    BY <2>5 DEF Call
  <2>6. ASSUME NEW p \in Procs,
               ForEachBegin(p) \/ Lock(p) \/ FlushNothing(p) \/ FlushOpenFails(p)
               \/ FlushEncodeFails(p) \/ Unlock(p)
        PROVE UNCHANGED PM!vars
    BY <2>6 DEF ForEachBegin, Lock, FlushNothing, FlushOpenFails,
                FlushEncodeFails, Unlock
  <2>7. ASSUME NEW p \in Procs, Iterator(p) PROVE UNCHANGED PM!vars
    BY <2>7 DEF Iterator, ForEachKey, ForEachGet, ForEachMore,
                ForEachStop, ForEachEnd
  <2>8. CASE Exit \/ UNCHANGED vars
    BY <2>8 DEF Exit, vars
  <2> QED
    BY <2>1, <2>2, <2>3, <2>4, <2>5, <2>6, <2>7, <2>8 DEF Next, Writer
<1> QED BY TypeCorrect, <1>1, <1>2, PTL DEF Spec, IsPersistentMap, PM!Spec
=============================================================================
