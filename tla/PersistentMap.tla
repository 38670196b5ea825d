--------------------------- MODULE PersistentMap ---------------------------
(***************************************************************************)
(* What the repo database promises its callers: one map, changed one key   *)
(* at a time, and one saved copy of it that a restarted process begins     *)
(* with.  The saved copy is always a whole map: either what the memory     *)
(* held at one moment or, after a failed save, nothing at all.             *)
(***************************************************************************)
CONSTANTS Keys, Repos, NoRepo

VARIABLES
  R,      \* the map that Get, ForEach and Size read
  saved   \* the map a restart would begin with

vars == <<R, saved>>

EmptyMap == [k \in Keys |-> NoRepo]

Init == R = EmptyMap /\ saved = EmptyMap

\* A Set or a Delete: one key takes one value, whatever it held before.
Put(k, v) == R' = [R EXCEPT ![k] = v] /\ UNCHANGED saved

\* A completed save copies the whole map.
Save == saved' = R /\ UNCHANGED R

\* A save that has begun, and may never complete, has already discarded the
\* previous copy.
Wipe == saved' = EmptyMap /\ UNCHANGED R

\* A process starts again from the saved copy.
Reload == R' = saved /\ UNCHANGED saved

Next ==
  \/ \E k \in Keys, v \in Repos \cup {NoRepo} : Put(k, v)
  \/ Save
  \/ Wipe
  \/ Reload

Spec == Init /\ [][Next]_vars
=============================================================================
