------------------------------ MODULE Process ------------------------------
(***************************************************************************)
(* One adapter process from start to exit: main, the goroutine that waits  *)
(* for a signal, the HTTP server with a handler goroutine per request, the *)
(* work pool with a goroutine per task, and the Redis connections that     *)
(* handlers and workers share while Redis hangs and recovers.              *)
(***************************************************************************)
EXTENDS Naturals, FiniteSets

CONSTANTS
  Requests,  \* the POST /scan requests that clients may send
  MaxActive, \* of the Redis connection pool
  Timeouts   \* of the Redis connections

ASSUME ProcessAssumption ==
  /\ IsFiniteSet(Requests)
  /\ MaxActive \in Nat \ {0}
  /\ Timeouts \in BOOLEAN

VARIABLES
  main,       \* "starting", "waiting", "exited" (run returned) or "killed"
  signal,     \* where the signal goroutine stands
  listener,   \* "unopened", "open" or "closed"
  handler,    \* where each request stands, from its connection to its answer
  dispatcher, stop, caller, task,  \* the work pool
  at, free, redis, redisPool       \* the connection pool

workVars == <<dispatcher, stop, caller, task>>
redisVars == <<at, free, redis, redisPool>>
vars == <<main, signal, listener, handler, dispatcher, stop, caller, task, at, free, redis, redisPool>>

Pool == INSTANCE WorkPool WITH Tasks <- Requests

\* The goroutines that call the store: of a request, its handler and its worker.
Callers == Requests \X {"handler", "worker"}

Redis == INSTANCE RedisPool WITH pool <- redisPool

\* The steps of the signal goroutine: Notify, receive, and then one step for
\* each of apiServer.Shutdown (close the listener, wait for the handlers),
\* workPool.Shutdown and pool.Close.
SignalState == {"starting", "trapping", "server", "draining", "pool", "redis", "complete"}

\* Where the handler of a request that has been read stands.
Busy == {"creating", "submitting", "failing"}

\* Connections that Shutdown of the HTTP server waits for: those with a handler,
\* and those that have been accepted and have not sent their request.
Active == Busy \cup {"connected"}

TypeOK ==
  /\ main \in {"starting", "waiting", "exited", "killed"}
  /\ signal \in SignalState
  /\ listener \in {"unopened", "open", "closed"}
  /\ handler \in [Requests -> Active \cup {"none", "dropped", "accepted", "rejected"}]
  /\ Pool!TypeOK
  /\ Redis!TypeOK

Init ==
  /\ main = "starting"
  /\ signal = "starting"
  /\ listener = "unopened"
  /\ handler = [r \in Requests |-> "none"]
  /\ Pool!Init
  /\ Redis!Init

Alive == main \in {"starting", "waiting"}

-----------------------------------------------------------------------------
(***************************************************************************)
(* main.                                                                   *)
(***************************************************************************)

StartPool ==
  /\ main = "starting"
  /\ Pool!Start
  /\ main' = "waiting"
  /\ UNCHANGED <<signal, listener, handler, redisVars>>

\* The server goroutine of ListenAndServe; after Shutdown it is refused.
Listen ==
  /\ main = "waiting"
  /\ listener = "unopened"
  /\ listener' = "open"
  /\ UNCHANGED <<main, signal, handler, workVars, redisVars>>

\* The port cannot be bound, or Accept fails for good: log.Fatalf.
ListenFails ==
  /\ main = "waiting"
  /\ listener \in {"unopened", "open"}
  /\ main' = "killed"
  /\ UNCHANGED <<signal, listener, handler, workVars, redisVars>>

\* A handler of GET /metadata that finds a NULL in Clair's database: log.Fatal.
MetadataFatal ==
  /\ Alive
  /\ listener = "open" \/ signal = "draining"
  /\ main' = "killed"
  /\ UNCHANGED <<signal, listener, handler, workVars, redisVars>>

\* Mutant: main returns when the server stops listening.
ReturnWhenClosed ==
  /\ main = "waiting"
  /\ listener = "closed"
  /\ main' = "exited"
  /\ UNCHANGED <<signal, listener, handler, workVars, redisVars>>

\* run returns when shutdownComplete is closed; goroutines end with it.
Return ==
  /\ main = "waiting"
  /\ signal = "complete"
  /\ main' = "exited"
  /\ UNCHANGED <<signal, listener, handler, workVars, redisVars>>

-----------------------------------------------------------------------------
(***************************************************************************)
(* The signal goroutine.                                                   *)
(***************************************************************************)

\* Mutants: another order of the three shutdowns; shutdownComplete is not closed.
ThenPoolFirst(step) ==
  CASE step = "trapping" -> "pool"
    [] step = "pool"     -> "server"
    [] step = "server"   -> "draining"
    [] step = "draining" -> "redis"
    [] step = "redis"    -> "complete"

ThenRedisFirst(step) ==
  CASE step = "trapping" -> "redis"
    [] step = "redis"    -> "server"
    [] step = "server"   -> "draining"
    [] step = "draining" -> "pool"
    [] step = "pool"     -> "complete"

ThenStopsShort(step) ==
  CASE step = "trapping" -> "server"
    [] step = "server"   -> "draining"
    [] step = "draining" -> "pool"
    [] step = "pool"     -> "redis"
    [] step = "redis"    -> "returned"

\* What follows a step of the goroutine.
Then(step) ==
  CASE step = "trapping" -> "server"
    [] step = "server"   -> "draining"
    [] step = "draining" -> "pool"
    [] step = "pool"     -> "redis"
    [] step = "redis"    -> "complete"

\* signal.Notify; a signal that comes before it ends the process.
Notify ==
  /\ Alive
  /\ signal = "starting"
  /\ signal' = "trapping"
  /\ UNCHANGED <<main, listener, handler, workVars, redisVars>>

SignalBeforeNotify ==
  /\ Alive
  /\ signal = "starting"
  /\ main' = "killed"
  /\ UNCHANGED <<signal, listener, handler, workVars, redisVars>>

\* The first signal. Later ones are never received.
Trap ==
  /\ Alive
  /\ signal = "trapping"
  /\ signal' = Then(signal)
  /\ UNCHANGED <<main, listener, handler, workVars, redisVars>>

CloseListener ==
  /\ Alive
  /\ signal = "server"
  /\ listener' = "closed"
  /\ signal' = Then(signal)
  /\ UNCHANGED <<main, handler, workVars, redisVars>>

\* Mutant: a connection that has sent nothing yet does not keep Shutdown waiting.
DrainedOfHandlers ==
  /\ Alive
  /\ signal = "draining"
  /\ \A r \in Requests : handler[r] \notin Busy
  /\ signal' = Then(signal)
  /\ UNCHANGED <<main, listener, handler, workVars, redisVars>>

Drained ==
  /\ Alive
  /\ signal = "draining"
  /\ \A r \in Requests : handler[r] \notin Active
  /\ signal' = Then(signal)
  /\ UNCHANGED <<main, listener, handler, workVars, redisVars>>

ShutdownPool ==
  /\ Alive
  /\ signal = "pool"
  /\ Pool!Shutdown
  /\ signal' = Then(signal)
  /\ UNCHANGED <<main, listener, handler, redisVars>>

CloseRedis ==
  /\ Alive
  /\ signal = "redis"
  /\ Redis!Close
  /\ signal' = Then(signal)
  /\ UNCHANGED <<main, listener, handler, workVars>>

-----------------------------------------------------------------------------
(***************************************************************************)
(* The connection and the handler of a POST /scan request.                 *)
(***************************************************************************)

\* A connection is accepted; nothing has been read from it.
Connect(r) ==
  /\ Alive
  /\ listener = "open"
  /\ handler[r] = "none"
  /\ handler' = [handler EXCEPT ![r] = "connected"]
  /\ UNCHANGED <<main, signal, listener, workVars, redisVars>>

\* It ends without a request: the client goes away, the read timeout fires, or
\* Shutdown has found it silent for five seconds (at once if it served one before).
Drop(r) ==
  /\ Alive
  /\ handler[r] = "connected"
  /\ handler' = [handler EXCEPT ![r] = "dropped"]
  /\ UNCHANGED <<main, signal, listener, workVars, redisVars>>

\* The request is read, also while the server drains: AcceptScanRequest and
\* Enqueue, up to store.Create.
Serve(r) ==
  /\ Alive
  /\ handler[r] = "connected"
  /\ handler' = [handler EXCEPT ![r] = "creating"]
  /\ Redis!Create(<<r, "handler">>)
  /\ UNCHANGED <<main, signal, listener, workVars>>

Submit(r) ==
  /\ Alive
  /\ handler[r] = "submitting"
  /\ Pool!Run(r)
  /\ UNCHANGED <<main, signal, listener, handler, redisVars>>

\* 202 with the identifier of the job, or 500.
Answer(r) ==
  /\ Alive
  /\ \/ /\ handler[r] = "submitting" /\ caller[r] = "returned"
        /\ handler' = [handler EXCEPT ![r] = "accepted"]
     \/ /\ handler[r] = "failing"
        /\ handler' = [handler EXCEPT ![r] = "rejected"]
  /\ UNCHANGED <<main, signal, listener, workVars, redisVars>>

-----------------------------------------------------------------------------
(***************************************************************************)
(* The goroutines of the work pool.                                        *)
(***************************************************************************)

Receive(r) ==
  Alive /\ Pool!Receive(r) /\ UNCHANGED <<main, signal, listener, handler, redisVars>>

StopDispatcher == Alive /\ Pool!Stop /\ UNCHANGED <<main, signal, listener, handler, redisVars>>

\* A worker updates its record, before, between and after the steps of its scan.
Update(r) ==
  /\ Alive
  /\ task[r] = "running"
  /\ Redis!Update(<<r, "worker">>)
  /\ UNCHANGED <<main, signal, listener, handler, workVars>>

TaskReturns(r) ==
  /\ Alive
  /\ at[<<r, "worker">>] = "idle"
  /\ Pool!TaskReturns(r)
  /\ UNCHANGED <<main, signal, listener, handler, redisVars>>

\* A worker panics on a record that has expired, or in the scan.
Panic(r) ==
  /\ Alive
  /\ task[r] = "running"
  /\ main' = "killed"
  /\ UNCHANGED <<signal, listener, handler, workVars, redisVars>>

-----------------------------------------------------------------------------
(***************************************************************************)
(* The calls of the store.                                                 *)
(***************************************************************************)

Acquire(c) ==
  Alive /\ Redis!Acquire(c) /\ UNCHANGED <<main, signal, listener, handler, workVars>>

\* A handler goes on as its call of Create did; a worker may call again.
Returns(c, outcomes) ==
  /\ handler' \in IF c[2] = "worker" THEN {handler}
                  ELSE {[handler EXCEPT ![c[1]] = next] : next \in outcomes}
  /\ UNCHANGED <<main, signal, listener, workVars>>

Reply(c) == Alive /\ Redis!Reply(c) /\ Returns(c, {"submitting", "failing"})

Fail(c) == Alive /\ (Redis!TimeOut(c) \/ Redis!Refuse(c)) /\ Returns(c, {"failing"})

RedisChanges ==
  Alive /\ (Redis!Hang \/ Redis!Recover) /\ UNCHANGED <<main, signal, listener, handler, workVars>>

-----------------------------------------------------------------------------
Main == StartPool \/ Listen \/ Return

Signal == Notify \/ CloseListener \/ Drained \/ ShutdownPool \/ CloseRedis

Next ==
  \/ Main \/ ListenFails \/ MetadataFatal
  \/ Signal \/ SignalBeforeNotify \/ Trap
  \/ StopDispatcher \/ RedisChanges
  \/ \E r \in Requests :
       Connect(r) \/ Drop(r) \/ Serve(r) \/ Submit(r) \/ Answer(r) \/ Receive(r) \/ Update(r) \/ TaskReturns(r) \/ Panic(r)
  \/ \E c \in Callers : Acquire(c) \/ Reply(c) \/ Fail(c)

\* Goroutines that can run do. Those that wait for a connection are served in
\* the order they came (the pool waits on a Go channel), so one that keeps finding
\* the pool exhausted gets its turn. Deadlines fire, and a Redis that is up time and
\* again replies. A draining server closes silent connections. Nothing is promised
\* of a scan, of a client or of a signal.
Fairness ==
  /\ WF_vars(Main) /\ WF_vars(Signal) /\ WF_vars(StopDispatcher)
  /\ \A r \in Requests : WF_vars(Submit(r)) /\ WF_vars(Answer(r)) /\ WF_vars(Receive(r))
  /\ \A r \in Requests : WF_vars(signal = "draining" /\ Drop(r))
  /\ \A c \in Callers : SF_vars(Acquire(c)) /\ SF_vars(Reply(c)) /\ WF_vars(Fail(c))

Spec == Init /\ [][Next]_vars /\ Fairness

-----------------------------------------------------------------------------
(***************************************************************************)
(* Properties.                                                             *)
(***************************************************************************)

\* main.go:87-89: what a handler needs outlives it. One that is blocked in
\* pool.Run has a dispatcher to receive its task, and one that is still to create
\* its record has a connection pool: each is stopped only after the last handler
\* has answered, also that of a request that came on a connection accepted before
\* the listener closed.
HandlersKeepTheirPools ==
  \A r \in Requests :
    /\ caller[r] = "blocked" => dispatcher # "stopped"
    /\ handler[r] = "creating" => redisPool = "open"

\* What a client sees of the process, for the refinement of RequestService.
Phase ==
  CASE main = "killed" -> "killed"
    [] main = "exited" -> "over"
    [] Alive /\ listener = "closed" -> "closing"
    [] Alive /\ listener # "closed" -> "serving"

Request(r) == IF handler[r] \in Busy THEN "pending" ELSE handler[r]

Service ==
  INSTANCE RequestService WITH phase <- Phase, request <- [r \in Requests |-> Request(r)], scan <- task

\* Requests and their scans fare as RequestService promises: an orderly exit
\* cuts off no request and no connection that may still send one, and a 202 is only
\* answered of a scan that a goroutine has taken on, however the signal and the two
\* pools come in between.
ImplementsRequestService == Service!Spec

\* A trapped signal ends the process: no handler, no worker and no channel
\* keeps it from exiting, whatever the scans do and although Redis hangs while
\* the workers have all the connections that the handlers wait for.
ShutdownCompletes ==
  signal = "server" ~> ~Alive

\* A request that has been read is answered, unless the process is killed, no
\* matter when the signal comes.
RequestsAreAnswered ==
  \A r \in Requests : handler[r] = "creating" ~> handler[r] \in {"accepted", "rejected"} \/ main = "killed"

\* No connection is lost to the pool or handed out twice, on any path through
\* a call of the store.
ConnectionsAreConserved ==
  free + Cardinality({c \in Callers : at[c] \in Redis!Holding}) = MaxActive

\* An update returns even when Redis hangs and more goroutines want a
\* connection than there are: none keeps one while it waits for another.
UpdatesReturn ==
  \A c \in Callers : at[c] = "wantGet" ~> at[c] = "idle" \/ ~Alive

\* README.md:81: SCANNER_STORE_REDIS_POOL_READ_TIMEOUT is "The timeout for
\* reading a single Redis command reply": no goroutine waits for ever for one.
RepliesTimeOut ==
  \A c \in Callers : at[c] = "get" ~> at[c] # "get" \/ ~Alive
=============================================================================
