----------------------------- MODULE RepoStore -----------------------------
(***************************************************************************)
(* The repo database of one afindd process (afind/db.go): a map guarded by *)
(* a read/write mutex and, when a backing file is configured, rewritten    *)
(* whole to that file by every Set and Delete before the mutex is given    *)
(* up.  The goroutines in Procs call it concurrently; the process may be   *)
(* killed between any two of their steps and started again from the file.  *)
(*                                                                         *)
(* The JSON text is abstracted to whether it is complete.  A complete file *)
(* decodes to the map it was encoded from (Repo.UnmarshalJSON); an absent, *)
(* empty or partial one fails to decode, and the database starts empty.    *)
(***************************************************************************)
CONSTANTS
  Keys,        \* repo keys
  Repos,       \* repo values
  NoRepo,      \* no entry under a key (a nil from Get)
  Procs,       \* goroutines that call the database
  NoProc,      \* the mutex is free for a writer
  DiskFaults   \* may opening or writing the backing file fail?

ASSUME ConstantsDistinct == NoRepo \notin Repos /\ NoProc \notin Procs
ASSUME DiskFaultsIsBoolean == DiskFaults \in BOOLEAN
ASSUME SomeKey == Keys # {}

VARIABLES
  R,       \* d.R, total on Keys with NoRepo for the absent ones
  backed,  \* was a backing file configured (d.bfn # "")?
  file,    \* the backing file: is it complete, and the map it holds
  lock,    \* the writer that holds d.RWMutex, or NoProc
  up,      \* is the process running?
  pc,      \* where each goroutine is in its call
  arg,     \* the key and value of its Set or Delete (NoRepo for Delete),
           \*   or the key ForEach ranges at and the value it hands on
  seen,    \* ForEach: keys the range statement has produced
  raced    \* ForEach: did a writer change the map since the range began?

\* History variables, which no action reads.
VARIABLES
  acked,   \* the map as the last completed Set or Delete left it
  dirty    \* the last flush failed, and its error was dropped

vars == <<R, backed, file, lock, up, pc, arg, seen, raced, acked, dirty>>

Values == Repos \cup {NoRepo}

EmptyMap == [k \in Keys |-> NoRepo]

Present == {k \in Keys : R[k] # NoRepo}

NoArg == [key |-> CHOOSE k \in Keys : TRUE, val |-> NoRepo]

BadFile == [intact |-> FALSE, map |-> EmptyMap]

\* What newJsonBackedDb would load.
Saved == file.map

Goto(p, l) == pc' = [pc EXCEPT ![p] = l]

iterVars == <<seen, raced>>

\* The steps of a ForEach.
Iterating == {"range", "get", "callback"}

\* Goroutine p's ForEach returns, and its iteration state is gone.
IterationOver(p) ==
  /\ seen' = [seen EXCEPT ![p] = {}]
  /\ raced' = [raced EXCEPT ![p] = FALSE]

TypeOK ==
  /\ R \in [Keys -> Values]
  /\ backed \in BOOLEAN
  /\ file \in [intact : BOOLEAN, map : [Keys -> Values]]
  /\ lock \in Procs \cup {NoProc}
  /\ up \in BOOLEAN
  /\ pc \in [Procs -> {"idle", "lock", "mutate", "open", "encode", "unlock"}
                        \cup Iterating]
  /\ arg \in [Procs -> [key : Keys, val : Values]]
  /\ seen \in [Procs -> SUBSET Keys]
  /\ raced \in [Procs -> BOOLEAN]
  /\ acked \in [Keys -> Values]
  /\ dirty \in BOOLEAN

\* newDb, or newJsonBackedDb on a file that does not exist yet.
Init ==
  /\ R = EmptyMap
  /\ backed \in BOOLEAN
  /\ file = BadFile
  /\ lock = NoProc
  /\ up = TRUE
  /\ pc = [p \in Procs |-> "idle"]
  /\ arg = [p \in Procs |-> NoArg]
  /\ seen = [p \in Procs |-> {}]
  /\ raced = [p \in Procs |-> FALSE]
  /\ acked = EmptyMap
  /\ dirty = FALSE

-----------------------------------------------------------------------------
\* Set(key, value) with value # nil, or Delete(key).  Set(key, nil) is
\* Delete(key): both reach here with val = NoRepo.
Call(p, k, v) ==
  /\ up /\ pc[p] = "idle"
  /\ arg' = [arg EXCEPT ![p] = [key |-> k, val |-> v]]
  /\ Goto(p, "lock")
  /\ UNCHANGED <<R, backed, file, lock, up, iterVars, acked, dirty>>

\* Mutant: RLock for Lock lets two writers in.
Lock_Shared(p) ==
  /\ up /\ pc[p] = "lock"
  /\ lock' = p
  /\ Goto(p, "mutate")
  /\ UNCHANGED <<R, backed, file, up, arg, iterVars, acked, dirty>>

\* d.Lock()
Lock(p) ==
  /\ up /\ pc[p] = "lock"
  /\ lock = NoProc
  /\ lock' = p
  /\ Goto(p, "mutate")
  /\ UNCHANGED <<R, backed, file, up, arg, iterVars, acked, dirty>>

\* The ranges in progress when the map is written to.
Race == raced' = [q \in Procs |-> raced[q] \/ pc[q] \in Iterating]

\* Mutant: Delete does not defer the flush.
Mutate_DeleteUnsaved(p) ==
  /\ up /\ pc[p] = "mutate"
  /\ R' = [R EXCEPT ![arg[p].key] = arg[p].val]
  /\ Race
  /\ Goto(p, IF arg[p].val = NoRepo THEN "unlock" ELSE "open")
  /\ UNCHANGED <<backed, file, lock, up, arg, seen, acked, dirty>>

\* d.R[key] = value, or delete(d.R, key).
Mutate(p) ==
  /\ up /\ pc[p] = "mutate"
  /\ R' = [R EXCEPT ![arg[p].key] = arg[p].val]
  /\ Race
  /\ Goto(p, "open")
  /\ UNCHANGED <<backed, file, lock, up, arg, seen, acked, dirty>>

\* The deferred flush runs before the deferred Unlock; without a backing
\* file it has nothing to do.
FlushNothing(p) ==
  /\ up /\ pc[p] = "open" /\ ~backed
  /\ Goto(p, "unlock")
  /\ UNCHANGED <<R, backed, file, lock, up, arg, iterVars, acked, dirty>>

\* os.OpenFile with O_TRUNC empties the file...
FlushOpen(p) ==
  /\ up /\ pc[p] = "open" /\ backed
  /\ file' = BadFile
  /\ Goto(p, "encode")
  /\ UNCHANGED <<R, backed, lock, up, arg, iterVars, acked, dirty>>

\* ... or fails and leaves it alone; the error is assigned to _.
FlushOpenFails(p) ==
  /\ up /\ pc[p] = "open" /\ backed /\ DiskFaults
  /\ dirty' = TRUE
  /\ Goto(p, "unlock")
  /\ UNCHANGED <<R, backed, file, lock, up, arg, iterVars, acked>>

\* enc.Encode(d) marshals the map under the mutex and writes it at once.
FlushEncode(p) ==
  /\ up /\ pc[p] = "encode"
  /\ file' = [intact |-> TRUE, map |-> R]
  /\ dirty' = FALSE
  /\ Goto(p, "unlock")
  /\ UNCHANGED <<R, backed, lock, up, arg, iterVars, acked>>

\* Mutant: a format whose partial text decodes to some of the entries.
FlushEncodeFails_Partial(p) ==
  /\ up /\ pc[p] = "encode" /\ DiskFaults
  /\ file' = [intact |-> FALSE,
              map |-> [EmptyMap EXCEPT ![arg[p].key] = arg[p].val]]
  /\ dirty' = TRUE
  /\ Goto(p, "unlock")
  /\ UNCHANGED <<R, backed, lock, up, arg, iterVars, acked>>

\* A failed write leaves the truncated file behind.
FlushEncodeFails(p) ==
  /\ up /\ pc[p] = "encode" /\ DiskFaults
  /\ dirty' = TRUE
  /\ Goto(p, "unlock")
  /\ UNCHANGED <<R, backed, file, lock, up, arg, iterVars, acked>>

\* Mutant: the path where flush failed returns without Unlock.
Unlock_NotOnError(p) ==
  /\ up /\ pc[p] = "unlock"
  /\ lock' = IF dirty THEN lock ELSE NoProc
  /\ acked' = R
  /\ arg' = [arg EXCEPT ![p] = NoArg]
  /\ Goto(p, "idle")
  /\ UNCHANGED <<R, backed, file, up, iterVars, dirty>>

\* The deferred d.Unlock(); Set and Delete return nil whatever flush did.
Unlock(p) ==
  /\ up /\ pc[p] = "unlock"
  /\ lock' = NoProc
  /\ acked' = R
  /\ arg' = [arg EXCEPT ![p] = NoArg]
  /\ Goto(p, "idle")
  /\ UNCHANGED <<R, backed, file, up, iterVars, dirty>>

-----------------------------------------------------------------------------
\* ForEach ranges over d.R without taking the mutex: a data race with every
\* writer.  A range that no write has met produces each key of the map once
\* and ends; one that a write has met may produce any key, one it produced
\* before or one that is gone included, and may end with keys left out.
\* (The runtime may also notice the race and end the process: Exit.)
ForEachBegin(p) ==
  /\ up /\ pc[p] = "idle"
  /\ Goto(p, "range")
  /\ UNCHANGED <<R, backed, file, lock, up, arg, iterVars, acked, dirty>>

\* The range statement produces a key.
ForEachKey(p, k) ==
  /\ up /\ pc[p] = "range"
  /\ raced[p] \/ k \in Present \ seen[p]
  /\ seen' = [seen EXCEPT ![p] = @ \cup {k}]
  /\ arg' = [arg EXCEPT ![p].key = k]
  /\ Goto(p, "get")
  /\ UNCHANGED <<R, backed, file, lock, up, raced, acked, dirty>>

\* Mutant: the body calls d.get(key), which does not take the mutex.
ForEachGet_Unlocked(p) ==
  LET v == R[arg[p].key]
  IN /\ up /\ pc[p] = "get"
     /\ arg' = [arg EXCEPT ![p] = IF v = NoRepo THEN NoArg ELSE [@ EXCEPT !.val = v]]
     /\ Goto(p, IF v = NoRepo THEN "range" ELSE "callback")
     /\ UNCHANGED <<R, backed, file, lock, up, iterVars, acked, dirty>>

\* d.Get(key) waits for the mutex; a key that is not in the map then yields
\* nil and is skipped, and any other is handed to the callback.
ForEachGet(p) ==
  LET v == R[arg[p].key]
  IN /\ up /\ pc[p] = "get"
     /\ lock = NoProc
     /\ arg' = [arg EXCEPT ![p] = IF v = NoRepo THEN NoArg ELSE [@ EXCEPT !.val = v]]
     /\ Goto(p, IF v = NoRepo THEN "range" ELSE "callback")
     /\ UNCHANGED <<R, backed, file, lock, up, iterVars, acked, dirty>>

\* The callback returns true: the range goes on.
ForEachMore(p) ==
  /\ up /\ pc[p] = "callback"
  /\ arg' = [arg EXCEPT ![p] = NoArg]
  /\ Goto(p, "range")
  /\ UNCHANGED <<R, backed, file, lock, up, iterVars, acked, dirty>>

\* The callback returns false: ForEach returns early.
ForEachStop(p) ==
  /\ up /\ pc[p] = "callback"
  /\ arg' = [arg EXCEPT ![p] = NoArg]
  /\ Goto(p, "idle")
  /\ IterationOver(p)
  /\ UNCHANGED <<R, backed, file, lock, up, acked, dirty>>

\* The range statement ends, with every key produced unless it was raced.
ForEachEnd(p) ==
  /\ up /\ pc[p] = "range"
  /\ raced[p] \/ Present \subseteq seen[p]
  /\ Goto(p, "idle")
  /\ IterationOver(p)
  /\ UNCHANGED <<R, backed, file, lock, up, arg, acked, dirty>>

-----------------------------------------------------------------------------
\* The process ends: a signal, or the runtime's fatal error when a range
\* over the map meets a write to it.  Nothing is flushed on the way out.
\* R keeps, as history, the map that was in memory.
Exit ==
  /\ up
  /\ up' = FALSE
  /\ lock' = NoProc
  /\ pc' = [p \in Procs |-> "idle"]
  /\ arg' = [p \in Procs |-> NoArg]
  /\ seen' = [p \in Procs |-> {}]
  /\ raced' = [p \in Procs |-> FALSE]
  /\ UNCHANGED <<R, backed, file, acked, dirty>>

\* Mutant: the map is not made before the file fails to decode.
Start_NilMap ==
  /\ ~up
  /\ up' = TRUE
  /\ R' = IF file.intact THEN Saved ELSE [k \in {} |-> NoRepo]
  /\ acked' = Saved
  /\ dirty' = FALSE
  /\ UNCHANGED <<backed, file, lock, pc, arg, iterVars>>

\* newJsonBackedDb: a file that does not decode is taken for a new one.
Start ==
  /\ ~up
  /\ up' = TRUE
  /\ R' = Saved
  /\ acked' = Saved
  /\ dirty' = FALSE
  /\ UNCHANGED <<backed, file, lock, pc, arg, iterVars>>

Writer(p) ==
  \/ Mutate(p)
  \/ FlushNothing(p) \/ FlushOpen(p) \/ FlushOpenFails(p)
  \/ FlushEncode(p) \/ FlushEncodeFails(p) \/ Unlock(p)

Iterator(p) ==
  \/ \E k \in Keys : ForEachKey(p, k)
  \/ ForEachGet(p)
  \/ ForEachMore(p)
  \/ ForEachStop(p)
  \/ ForEachEnd(p)

Next ==
  \/ \E p \in Procs :
       \/ \E k \in Keys, v \in Values : Call(p, k, v)
       \/ ForEachBegin(p)
       \/ Lock(p)
       \/ Writer(p)
       \/ Iterator(p)
  \/ Exit
  \/ Start

Spec == Init /\ [][Next]_vars

\* A goroutine that can run does run; sync.RWMutex queues its waiters, so
\* a caller that waits for the mutex gets it in the end.  A range walks the
\* buckets of one map and so ends, raced or not.
Fairness ==
  \A p \in Procs :
    /\ WF_vars(Writer(p))
    /\ SF_vars(Lock(p))
    /\ SF_vars(Iterator(p))
    /\ SF_vars(ForEachEnd(p))

FairSpec == Spec /\ Fairness

-----------------------------------------------------------------------------
\* PROPERTIES

\* Between calls the backing file is the map: whatever Get or ForEach can
\* return while no writer holds the mutex is already saved (the flush
\* deferred by Set and Delete runs before the Unlock they defer), unless
\* the last flush failed and nobody was told.
FileIsCurrent == (backed /\ up /\ lock = NoProc /\ ~dirty) => Saved = R

\* At every moment, mid-call and after an exit included, a file that
\* decodes holds the map as it was before or after the one Set or Delete
\* in progress: never a mixture, never an older map.
FileIsACommit == (file.intact /\ ~dirty) => file.map \in {acked, R}

\* Although it ranges without the mutex and among writers, ForEach hands
\* its callback only finished writes: the Set that put the repo there has
\* returned, no later Set or Delete of any key has begun to show, and the
\* file holds the repo too unless the last flush failed.
ForEachHandsOutCommitted ==
  [][\A p \in Procs :
       (pc[p] # "callback" /\ pc'[p] = "callback") =>
         LET k == arg'[p].key
             v == arg'[p].val
         IN /\ R = acked /\ v = acked[k] /\ v # NoRepo
            /\ (backed /\ ~dirty) => v = Saved[k]]_vars

\* Every Set, Delete and ForEach returns, on the paths where opening or
\* writing the file fails too: none leaves the mutex locked.
CallsReturn == \A p \in Procs : (pc[p] # "idle") ~> (pc[p] = "idle")

\* With its file reduced to the map it would load, the database is a map
\* with one saved copy (PersistentMap).
PM == INSTANCE PersistentMap WITH saved <- Saved

IsPersistentMap == PM!Spec

\* A restart begins with every Set and Delete that had returned before the
\* exit, give or take the one in progress.
AckedSurvives == [][Start => (backed => R' \in {acked, R})]_vars
=============================================================================
