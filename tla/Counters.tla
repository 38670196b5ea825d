------------------------------ MODULE Counters ------------------------------
(***************************************************************************)
(* The concurrent counter map (counters/counters.go): one loop goroutine   *)
(* owns the map and serves Inc, Get, GetAll and Close over channels.  Inc  *)
(* and Close hand over on unbuffered channels, Get and GetAll queue in     *)
(* buffered ones and wait for a reply.  A call with an empty key, or an    *)
(* Inc by zero, returns at once and changes nothing; it is left out.       *)
(***************************************************************************)
EXTENDS Naturals, Sequences, FiniteSets

CONSTANTS
  Callers,      \* goroutines that make one call each; one that goes on to
                \* call is another caller
  CtrKeys,      \* counter names
  Amounts,      \* what Inc may add
  Width,        \* counters are modulo 2^Width (64 in the code)
  GetDepth      \* capacity of chGet and of chGetAll (100 in the code)

ASSUME CountersAssumption ==
  /\ IsFiniteSet(Callers) /\ Amounts \subseteq Nat \ {0}
  /\ Width \in Nat /\ 2^Width \in Nat \ {0} /\ GetDepth \in Nat \ {0}

VARIABLES
  ctr,       \* the map; an absent key counts zero
  loop,      \* which select of the loop is next, or "ended"
  chGet,     \* callers queued in chGet
  chGetAll,  \* callers queued in chGetAll
  call,      \* each caller's call
  dead       \* has a send on a closed channel ended the process?

\* History variables.
VARIABLES
  begun,     \* the sum of all Inc begun, for each key
  acked      \* the sum of those that have returned

ctrVars == <<ctr, loop, chGet, chGetAll, call, dead, begun, acked>>

Zero == [k \in CtrKeys |-> 0]
Counts == [CtrKeys -> Nat]

\* A caller is idle, sending, waiting for a reply or done; low is what had
\* been acknowledged when a read began, high what had begun when it returned.
NoCall == [op |-> "none", pc |-> "idle", key |-> CHOOSE k \in CtrKeys : TRUE,
           n |-> 0, got |-> Zero, low |-> Zero, high |-> Zero]

Sending(p, op) == call[p].pc = "send" /\ call[p].op = op

CtrTypeOK ==
  /\ ctr \in [CtrKeys -> 0..(2^Width - 1)]
  /\ loop \in {"quit", "inc", "read", "ended"}
  /\ chGet \in Seq(Callers) /\ Len(chGet) <= GetDepth
  /\ chGetAll \in Seq(Callers) /\ Len(chGetAll) <= GetDepth
  /\ \A p \in Callers : call[p].pc \in {"idle", "send", "wait", "done"}
  /\ dead \in BOOLEAN

CtrInit ==
  /\ ctr = Zero
  /\ loop = "quit"
  /\ chGet = <<>> /\ chGetAll = <<>>
  /\ call = [p \in Callers |-> NoCall]
  /\ dead = FALSE
  /\ begun = Zero /\ acked = Zero

-----------------------------------------------------------------------------
Goes(p, pc) == call' = [call EXCEPT ![p].pc = pc]
CallBegins(p, op, k, n) ==
  /\ call[p].pc = "idle"
  /\ call' = [call EXCEPT ![p] = [op |-> op, pc |-> "send", key |-> k, n |-> n,
                                  got |-> Zero, low |-> acked, high |-> Zero]]
  /\ UNCHANGED <<ctr, loop, chGet, chGetAll, dead, acked>>

CtrInc(p, k, n) ==
  /\ CallBegins(p, "inc", k, n)
  /\ begun' = [begun EXCEPT ![k] = @ + n]
CtrGet(p, k) == CallBegins(p, "get", k, 0) /\ UNCHANGED begun
CtrGetAll(p) == CallBegins(p, "getall", NoCall.key, 0) /\ UNCHANGED begun
CtrClose(p) == CallBegins(p, "close", NoCall.key, 0) /\ UNCHANGED begun

\* A read's request enters its channel if there is room.
QueueGet(p) ==
  /\ loop # "ended" /\ Sending(p, "get") /\ Len(chGet) < GetDepth
  /\ chGet' = Append(chGet, p)
  /\ Goes(p, "wait")
  /\ UNCHANGED <<ctr, loop, chGetAll, dead, begun, acked>>

QueueGetAll(p) ==
  /\ loop # "ended" /\ Sending(p, "getall") /\ Len(chGetAll) < GetDepth
  /\ chGetAll' = Append(chGetAll, p)
  /\ Goes(p, "wait")
  /\ UNCHANGED <<ctr, loop, chGet, dead, begun, acked>>

\* close() closes all channels but chQuit: whoever sends there panics.
SendPanics(p) ==
  /\ loop = "ended"
  /\ Sending(p, "inc") \/ Sending(p, "get") \/ Sending(p, "getall")
  /\ dead' = TRUE
  /\ UNCHANGED <<ctr, loop, chGet, chGetAll, call, begun, acked>>

\* First select: a Close is served, which ends the loop, or none is there.
LoopQuit ==
  /\ loop = "quit"
  /\ \/ \E p \in Callers :
          Sending(p, "close") /\ Goes(p, "done") /\ loop' = "ended"
     \/ /\ \A p \in Callers : ~Sending(p, "close")
        /\ loop' = "inc"
        /\ UNCHANGED call
  /\ UNCHANGED <<ctr, chGet, chGetAll, dead, begun, acked>>

\* Mutant: the counter becomes the amount.
Added_Set(v, n) == n % 2^Width

\* c.ctr[inc.key] += inc.value: "may overflow"
Added(v, n) == (v + n) % 2^Width

\* Second select: an Inc is applied and the loop begins again, or none waits.
LoopInc ==
  /\ loop = "inc"
  /\ \/ \E p \in Callers :
          LET k == call[p].key
              n == call[p].n
          IN
          /\ Sending(p, "inc")
          /\ ctr' = [ctr EXCEPT ![k] = Added(@, n)]
          /\ acked' = [acked EXCEPT ![k] = @ + n]
          /\ Goes(p, "done")
          /\ loop' = "quit"
     \/ /\ \A p \in Callers : ~Sending(p, "inc")
        /\ loop' = "read"
        /\ UNCHANGED <<ctr, acked, call>>
  /\ UNCHANGED <<chGet, chGetAll, dead, begun>>

Replied(p, got) ==
  call' = [call EXCEPT ![p].pc = "done", ![p].got = got, ![p].high = begun]

\* Mutant: a GetAll is taken from its channel and not answered.
LoopRead_DropsGetAll ==
  /\ loop = "read"
  /\ \/ chGet # <<>> /\ Replied(Head(chGet), ctr) /\ chGet' = Tail(chGet)
          /\ UNCHANGED chGetAll
     \/ chGetAll # <<>> /\ chGetAll' = Tail(chGetAll)
          /\ UNCHANGED <<chGet, call>>
     \/ chGet \o chGetAll = <<>> /\ UNCHANGED <<chGet, chGetAll, call>>
  /\ loop' = "quit"
  /\ UNCHANGED <<ctr, dead, begun, acked>>

\* Third select: one queued read is answered, of one counter (here: all, of
\* which a Get's caller looks at its own) or with a copy of the map.
LoopRead ==
  /\ loop = "read"
  /\ \/ chGet # <<>> /\ Replied(Head(chGet), ctr) /\ chGet' = Tail(chGet)
          /\ UNCHANGED chGetAll
     \/ chGetAll # <<>> /\ Replied(Head(chGetAll), ctr)
          /\ chGetAll' = Tail(chGetAll) /\ UNCHANGED chGet
     \/ chGet \o chGetAll = <<>> /\ UNCHANGED <<chGet, chGetAll, call>>
  /\ loop' = "quit"
  /\ UNCHANGED <<ctr, dead, begun, acked>>

-----------------------------------------------------------------------------
CallStep(p) == QueueGet(p) \/ QueueGetAll(p) \/ SendPanics(p)
LoopStep == LoopQuit \/ LoopInc \/ LoopRead

CtrNext ==
  /\ ~dead
  /\ \/ \E p \in Callers, k \in CtrKeys :
          CtrGet(p, k) \/ \E n \in Amounts : CtrInc(p, k, n)
     \/ \E p \in Callers : CtrGetAll(p) \/ CtrClose(p) \/ CallStep(p)
     \/ LoopStep

CtrSpec == CtrInit /\ [][CtrNext]_ctrVars

-----------------------------------------------------------------------------
\* What a read returns lies, modulo the counter's width, between the sum of
\* the Incs that had returned when it was called and the sum of those begun
\* when it returned: it misses none of the first, and adds nothing else than
\* what is under way (counters.go:95-126).
Reads(p) == IF call[p].op = "get" THEN {call[p].key} ELSE CtrKeys
ReadsAreCurrent ==
  \A p \in Callers :
    call[p].op \in {"get", "getall"} /\ call[p].pc = "done" =>
      \A k \in Reads(p) : \E n \in call[p].low[k]..call[p].high[k] :
        n % 2^Width = call[p].got[k]

\* Every call returns, unless someone closes the counters (or has ended the
\* process by a call after that): reads wait while there are Incs, which the
\* code means to prefer, and there are finitely many of them; the loop comes
\* round to each channel (counters.go:86-127).  The first Close returns too.
CallsReturnOrClosed ==
  \A p \in Callers :
    call[p].pc = "send" ~> call[p].pc = "done" \/ loop = "ended"
=============================================================================
