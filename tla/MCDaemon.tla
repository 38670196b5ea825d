------------------------------ MODULE MCDaemon ------------------------------
(***************************************************************************)
(* Counters and RpcServer for TLC.  They share no state, so the initial    *)
(* state picks the one that runs.                                          *)
(***************************************************************************)
EXTENDS Counters, RpcServer, TLC

VARIABLE part
daemonVars == <<part, ctrVars, srvVars>>

RunsCounters == part = "counters" /\ UNCHANGED <<part, srvVars>>
RunsServer == part = "server" /\ UNCHANGED <<part, ctrVars>>

Init == part \in {"counters", "server"} /\ CtrInit /\ SrvInit
Next == (RunsCounters /\ CtrNext) \/ (RunsServer /\ SrvNext)

\* The loop and the callers run, as do Serve, the deferred Closes and their
\* goroutines, and Accept returns from a closed listener; connections, errors
\* and other closers come or do not.
FairSpec ==
  /\ Init /\ [][Next]_daemonVars
  /\ WF_daemonVars(RunsCounters /\ ~dead /\ LoopStep)
  /\ \A p \in Callers : WF_daemonVars(RunsCounters /\ ~dead /\ CallStep(p))
  /\ WF_daemonVars(RunsServer /\ (ServeStep \/ ClosedAccept))
  /\ WF_daemonVars(RunsServer /\ QuitSends)
  /\ WF_daemonVars(RunsServer /\ Deferred)
  /\ \A c \in AllClosers : WF_daemonVars(RunsServer /\ CloseStep(c))

\* Type correctness of both.
TypeOK == CtrTypeOK /\ SrvTypeOK
=============================================================================
