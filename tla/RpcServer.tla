----------------------------- MODULE RpcServer ------------------------------
(***************************************************************************)
(* The RPC server of afindd from the start of its listener to its end      *)
(* (api/rpc_server.go, api/server.go, cmd/afindd/afindd.go).  Serve looks  *)
(* at the quit channel between two Accepts.  Close is Quit, which starts a *)
(* goroutine that puts a token into that channel and itself takes one out, *)
(* and then the listener's Close.  Serve closes its own server when it     *)
(* leaves, the goroutine that main started it in does so once more, and    *)
(* others that hold the server may at any time.                            *)
(***************************************************************************)
EXTENDS Naturals, FiniteSets

CONSTANTS
  Closers,      \* others that call Close, once each
  ServeClose,   \* the Close deferred by Serve
  MainClose,    \* the Close deferred by main's goroutine
  StartDelay,   \* after an error of Accept (3 ms in the code)
  MaxDelay      \* and at most (5 s)

ASSUME RpcServerAssumption ==
  /\ ServeClose # MainClose /\ {ServeClose, MainClose} \cap Closers = {}
  /\ IsFiniteSet(Closers)
  /\ StartDelay \in Nat \ {0} /\ MaxDelay \in Nat /\ StartDelay <= MaxDelay

VARIABLES
  serving,    \* where Serve is
  delay,      \* its delay after a temporary error
  listener,   \* is the listener open?
  quit,       \* tokens in the quit channel, whose capacity is one
  senders,    \* goroutines started by Quit that are still to send
  closing,    \* where each Close is
  took        \* history: did Serve take a token?

srvVars == <<serving, delay, listener, quit, senders, closing, took>>

AllClosers == Closers \cup {ServeClose, MainClose}
InLoop == {"select", "accept", "sleep"}

SrvTypeOK ==
  /\ serving \in InLoop \cup {"start", "down", "leaving", "ended"}
  /\ delay \in StartDelay..MaxDelay
  /\ listener \in BOOLEAN
  /\ quit \in 0..1
  /\ senders \in 0..Cardinality(AllClosers)
  /\ closing \in [AllClosers -> {"idle", "take", "close", "done"}]
  /\ took \in BOOLEAN

SrvInit ==
  /\ serving = "start"
  /\ delay = StartDelay
  /\ listener = FALSE
  /\ quit = 0
  /\ senders = 0
  /\ closing = [c \in AllClosers |-> "idle"]
  /\ took = FALSE

-----------------------------------------------------------------------------
\* main binds the address; without it the daemon only logs the failure and
\* goes on without a server.
Listen ==
  /\ serving = "start"
  /\ \/ serving' = "select" /\ listener' = TRUE
     \/ serving' = "down" /\ UNCHANGED listener
  /\ UNCHANGED <<delay, quit, senders, closing, took>>

\* Serve: a token is taken if there is one.
ServeQuits ==
  /\ serving = "select" /\ quit > 0
  /\ quit' = quit - 1
  /\ took' = TRUE
  /\ serving' = "leaving"
  /\ UNCHANGED <<delay, listener, senders, closing>>

ServeAccepts ==
  /\ serving = "select" /\ quit = 0
  /\ serving' = "accept"
  /\ UNCHANGED <<delay, listener, quit, senders, closing, took>>

\* Accept returns a connection, which a goroutine of its own serves ...
Accepted ==
  /\ serving = "accept" /\ listener
  /\ serving' = "select"
  /\ delay' = StartDelay
  /\ UNCHANGED <<listener, quit, senders, closing, took>>

Backoff(d) == IF 2 * d > MaxDelay THEN MaxDelay ELSE 2 * d

\* ... or a temporary error ...
AcceptFails ==
  /\ serving = "accept" /\ listener
  /\ delay' = Backoff(delay)
  /\ serving' = "sleep"
  /\ UNCHANGED <<listener, quit, senders, closing, took>>

SleepEnds ==
  /\ serving = "sleep"
  /\ serving' = "select"
  /\ UNCHANGED <<delay, listener, quit, senders, closing, took>>

\* ... or another, as it does once the listener is closed.
AcceptBreaks ==
  /\ serving = "accept"
  /\ serving' = "leaving"
  /\ UNCHANGED <<delay, listener, quit, senders, closing, took>>

\* Close begins: Serve's when it leaves its loop, main's when Serve is done.
MayClose(c) ==
  CASE c = ServeClose -> serving = "leaving"
    [] c = MainClose -> serving = "leaving" /\ closing[ServeClose] = "done"
    [] OTHER -> serving \notin {"start", "down"}

QuitBegins(c) ==
  /\ closing[c] = "idle" /\ MayClose(c)
  /\ senders' = senders + 1
  /\ closing' = [closing EXCEPT ![c] = "take"]
  /\ UNCHANGED <<serving, delay, listener, quit, took>>

\* Mutant: a send that does not wait loses the token when there is one.
QuitSends_Drops ==
  /\ senders > 0
  /\ quit' = 1
  /\ senders' = senders - 1
  /\ UNCHANGED <<serving, delay, listener, closing, took>>

QuitSends ==
  /\ senders > 0 /\ quit < 1
  /\ quit' = quit + 1
  /\ senders' = senders - 1
  /\ UNCHANGED <<serving, delay, listener, closing, took>>

\* Mutant: Quit waits for a reader, which must be Serve.
QuitTakes_ServeOnly(c) ==
  /\ closing[c] = "take" /\ took
  /\ closing' = [closing EXCEPT ![c] = "close"]
  /\ UNCHANGED <<serving, delay, listener, quit, senders, took>>

\* <-base.quit: any token will do.
QuitTakes(c) ==
  /\ closing[c] = "take" /\ quit > 0
  /\ quit' = quit - 1
  /\ closing' = [closing EXCEPT ![c] = "close"]
  /\ UNCHANGED <<serving, delay, listener, senders, took>>

\* Mutant: the listener is left open.
ListenerCloses_NoClose(c) ==
  /\ closing[c] = "close"
  /\ closing' = [closing EXCEPT ![c] = "done"]
  /\ serving' = IF c = MainClose THEN "ended" ELSE serving
  /\ UNCHANGED <<listener, delay, quit, senders, took>>

\* s.l.Close(); main's goroutine ends with its own Close.
ListenerCloses(c) ==
  /\ closing[c] = "close"
  /\ listener' = FALSE
  /\ closing' = [closing EXCEPT ![c] = "done"]
  /\ serving' = IF c = MainClose THEN "ended" ELSE serving
  /\ UNCHANGED <<delay, quit, senders, took>>

-----------------------------------------------------------------------------
ServeStep == ServeQuits \/ ServeAccepts \/ SleepEnds
CloseStep(c) == QuitTakes(c) \/ ListenerCloses(c)
Deferred == QuitBegins(ServeClose) \/ QuitBegins(MainClose)
ClosedAccept == AcceptBreaks /\ ~listener

SrvNext ==
  \/ Listen \/ ServeStep \/ Accepted \/ AcceptFails \/ AcceptBreaks
  \/ QuitSends
  \/ \E c \in AllClosers : QuitBegins(c) \/ CloseStep(c)

SrvSpec == SrvInit /\ [][SrvNext]_srvVars

-----------------------------------------------------------------------------
\* The calls of Quit that wait for a token.
Waiting == {c \in AllClosers : closing[c] = "take"}

\* For every Quit that waits there is a token that is still to be sent or is
\* in the channel, except for the one that Serve took: however many Closes
\* overlap, one of them at most lacks its token (server.go:28-33,
\* rpc_server.go:53-55).
TokensAddUp ==
  Cardinality(Waiting) = senders + quit + (IF took THEN 1 ELSE 0)

\* A Close stops the server: once one has returned Serve leaves its loop,
\* whoever took which token (rpc_server.go:28-31, 47-74).
CloseStopsServe ==
  \A c \in AllClosers : closing[c] = "done" ~> serving \notin InLoop

\* Of all the calls of Close at most one never returns, and only if Serve took
\* a token that was meant for a Quit (server.go:28-33).
AtMostOneCloseHangs ==
  <>[](Cardinality({c \in AllClosers : closing[c] \in {"take", "close"}})
         <= IF took THEN 1 ELSE 0)
=============================================================================
