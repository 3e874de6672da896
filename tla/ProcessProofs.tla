--------------------------- MODULE ProcessProofs ---------------------------
(***************************************************************************)
(* Theorems about Process for any finite set of requests, any size of the  *)
(* connection pool, and connections with and without timeouts.             *)
(***************************************************************************)
EXTENDS Process, FiniteSetTheorems, TLAPS

(***************************************************************************)
(* The connections.                                                        *)
(***************************************************************************)

Held == {c \in Callers : at[c] \in Redis!Holding}

Conserved == IsFiniteSet(Held) /\ free + Cardinality(Held) = MaxActive

\* The step of one goroutine moves it into the set of those that hold a
\* connection, or out of it, or neither.
LEMMA HeldStep ==
  ASSUME Redis!TypeOK, NEW c \in Callers, NEW place, at' = [at EXCEPT ![c] = place]
  PROVE  Held' = IF place \in Redis!Holding THEN Held \cup {c} ELSE Held \ {c}
BY DEF Held, Redis!TypeOK

LEMMA AcquireKeeps ==
  ASSUME Redis!TypeOK, Conserved, NEW c \in Callers, Redis!Acquire(c)
  PROVE  Redis!TypeOK' /\ Conserved'
<1>1. PICK place \in {"get", "set"} : at' = [at EXCEPT ![c] = place]
  BY DEF Redis!Acquire
<1>2. c \notin Held /\ free' = free - 1 /\ free \in Nat /\ free > 0
      /\ UNCHANGED <<redis, redisPool>>
  BY DEF Redis!Acquire, Held, Redis!TypeOK, Redis!Waiting, Redis!Holding
<1>3. Held' = Held \cup {c}
  BY <1>1, HeldStep DEF Redis!Holding
<1>4. Conserved'
  <2>1. IsFiniteSet(Held') /\ Cardinality(Held') = Cardinality(Held) + 1
    BY <1>2, <1>3, FS_AddElement DEF Conserved
  <2>2. Cardinality(Held) \in Nat /\ MaxActive \in Nat
    BY FS_CardinalityType, ProcessAssumption DEF Conserved, ProcessAssumption
  <2> QED BY <1>2, <2>1, <2>2 DEF Conserved
<1>5. free' \in 0..MaxActive
  BY <1>2, ProcessAssumption DEF Redis!TypeOK, ProcessAssumption
<1> QED BY <1>1, <1>2, <1>4, <1>5 DEF Redis!TypeOK, Redis!Holding

\* Whoever gives a connection back stops using it.
LEMMA ReleaseKeeps ==
  ASSUME Redis!TypeOK, Conserved, NEW c \in Callers, at[c] \in Redis!Holding,
         NEW place \in {"idle", "wantSet"}, at' = [at EXCEPT ![c] = place],
         free' = free + 1, UNCHANGED <<redis, redisPool>>
  PROVE  Redis!TypeOK' /\ Conserved'
<1>1. Held' = Held \ {c} /\ c \in Held
  BY HeldStep DEF Redis!Holding, Held
<1>2. IsFiniteSet(Held') /\ Cardinality(Held') = Cardinality(Held) - 1
  BY <1>1, FS_RemoveElement DEF Conserved
<1>3. Cardinality(Held) \in Nat /\ Cardinality(Held') \in Nat /\ MaxActive \in Nat /\ free \in Nat
  BY <1>2, FS_CardinalityType, ProcessAssumption DEF Conserved, ProcessAssumption, Redis!TypeOK
<1>4. Conserved' /\ free' \in 0..MaxActive
  BY <1>2, <1>3 DEF Conserved
<1> QED BY <1>4 DEF Redis!TypeOK, Redis!Waiting, Redis!Holding

\* Whoever begins to wait, or gives up waiting, holds nothing.
LEMMA WaitKeeps ==
  ASSUME Redis!TypeOK, Conserved, NEW c \in Callers, at[c] \notin Redis!Holding,
         NEW place \in {"idle", "wantGet", "wantSet"}, at' = [at EXCEPT ![c] = place],
         UNCHANGED <<free, redis, redisPool>>
  PROVE  Redis!TypeOK' /\ Conserved'
<1>1. Held' = Held
  BY HeldStep DEF Redis!Holding, Held
<1>2. Conserved'
  BY <1>1 DEF Conserved
<1> QED BY <1>2 DEF Redis!TypeOK, Redis!Waiting

LEMMA RestKeeps ==
  ASSUME Redis!TypeOK, Conserved, UNCHANGED <<at, free>>,
         redis' \in {"up", "hung"}, redisPool' \in {"open", "closed"}
  PROVE  Redis!TypeOK' /\ Conserved'
BY DEF Conserved, Held, Redis!TypeOK

-----------------------------------------------------------------------------
(***************************************************************************)
(* The order of the shutdown: each part goes down after what relies on it, *)
(* and only handlers that are not there any more rely on nothing.          *)
(***************************************************************************)

Quiet == \A r \in Requests : handler[r] \notin Active

ShutdownOrder ==
  /\ signal \in {"draining", "pool", "redis", "complete"} => listener = "closed"
  /\ signal \in {"pool", "redis", "complete"} => Quiet
  /\ stop => signal \in {"redis", "complete"}
  /\ dispatcher = "stopped" => stop
  /\ redisPool = "closed" => signal = "complete"
  /\ main = "exited" => signal = "complete"

\* Where a handler stands in the pools is where it stands.
HandlersInPools ==
  \A r \in Requests :
    /\ caller[r] = "blocked" => handler[r] = "submitting"
    /\ at[<<r, "handler">>] \in {"idle", "wantSet", "set"}
    /\ at[<<r, "handler">>] # "idle" => handler[r] = "creating"

Inv == TypeOK /\ Conserved /\ ShutdownOrder /\ HandlersInPools

LEMMA InitInv == Init => Inv
<1> SUFFICES ASSUME Init PROVE Inv
  OBVIOUS
<1>1. TypeOK
  <2>1. Pool!TypeOK
    BY ZenonT(30) DEF Init, Pool!Init, Pool!TypeOK
  <2>2. Redis!TypeOK
    BY ProcessAssumption DEF Init, Redis!Init, Redis!TypeOK, ProcessAssumption
  <2> QED BY <2>1, <2>2 DEF Init, TypeOK, SignalState
<1>2. Held = {}
  BY DEF Init, Redis!Init, Redis!Holding, Held
<1>3. Conserved
  BY <1>2, FS_EmptySet, ProcessAssumption DEF Conserved, Init, Redis!Init, ProcessAssumption
<1>4. ShutdownOrder
  BY DEF Init, ShutdownOrder, Quiet, Active, Busy, Pool!Init, Redis!Init
<1>5. HandlersInPools
  BY DEF Init, HandlersInPools, Pool!Init, Redis!Init, Callers
<1> QED BY <1>1, <1>3, <1>4, <1>5 DEF Inv

-----------------------------------------------------------------------------
\* Steps that leave the connections alone.
LEMMA StillConnections ==
  ASSUME Inv, UNCHANGED redisVars
  PROVE  Redis!TypeOK' /\ Conserved'
BY RestKeeps DEF Inv, TypeOK, redisVars, Redis!TypeOK

LEMMA MainStep ==
  ASSUME Inv, Main \/ ListenFails \/ MetadataFatal
  PROVE  Inv'
<1>1. Redis!TypeOK' /\ Conserved' /\ UNCHANGED redisVars
  BY StillConnections DEF Main, StartPool, Listen, ListenFails, MetadataFatal, Return
<1> USE DEF Inv
<1>2. CASE StartPool
  BY <1>1, <1>2 DEF StartPool, Pool!Start, Pool!TypeOK, TypeOK, ShutdownOrder, Quiet,
     HandlersInPools, redisVars
<1>3. CASE Listen
  BY <1>1, <1>3 DEF Listen, Pool!TypeOK, TypeOK, ShutdownOrder, Quiet, HandlersInPools,
     redisVars, workVars
<1>4. CASE ListenFails \/ MetadataFatal \/ Return
  BY <1>1, <1>4 DEF ListenFails, MetadataFatal, Return, Pool!TypeOK, TypeOK, ShutdownOrder, Quiet,
     HandlersInPools, redisVars, workVars
<1> QED BY <1>2, <1>3, <1>4 DEF Main

LEMMA SignalStep ==
  ASSUME Inv, Signal \/ SignalBeforeNotify \/ Trap \/ StopDispatcher
  PROVE  Inv'
<1> USE DEF Inv
<1>1. Redis!TypeOK' /\ Conserved'
  <2>1. CASE CloseRedis
    BY <2>1, RestKeeps DEF CloseRedis, Redis!Close, TypeOK, Redis!TypeOK
  <2>2. CASE ~CloseRedis
    BY <2>2, StillConnections DEF Signal, Notify, SignalBeforeNotify, Trap, CloseListener,
       Drained, ShutdownPool, StopDispatcher
  <2> QED BY <2>1, <2>2
<1>2. \/ signal \in {"starting", "complete"}
      \/ /\ Then(signal) \in SignalState
         /\ signal = "trapping" => Then(signal) = "server"
         /\ signal = "server" => Then(signal) = "draining"
         /\ signal = "draining" => Then(signal) = "pool"
         /\ signal = "pool" => Then(signal) = "redis"
         /\ signal = "redis" => Then(signal) = "complete"
  BY DEF TypeOK, SignalState, Then
<1> USE DEF TypeOK, ShutdownOrder, Quiet, HandlersInPools
<1>3. CASE Notify \/ SignalBeforeNotify
  BY <1>1, <1>3 DEF Notify, SignalBeforeNotify, redisVars, workVars, SignalState, Pool!TypeOK, Alive
<1>4. CASE Trap \/ CloseListener
  BY <1>1, <1>2, <1>4 DEF Trap, CloseListener, redisVars, workVars, Pool!TypeOK, Alive
<1>5. CASE Drained
  BY <1>1, <1>2, <1>5 DEF Drained, redisVars, workVars, Pool!TypeOK, Alive
<1>6. CASE ShutdownPool
  BY <1>1, <1>2, <1>6 DEF ShutdownPool, Pool!Shutdown, redisVars, Pool!TypeOK, Alive
<1>7. CASE CloseRedis
  BY <1>1, <1>2, <1>7 DEF CloseRedis, Redis!Close, workVars, Pool!TypeOK, Alive
<1>8. CASE StopDispatcher
  BY <1>1, <1>8 DEF StopDispatcher, Pool!Stop, redisVars, Pool!TypeOK, Alive
<1> QED BY <1>3, <1>4, <1>5, <1>6, <1>7, <1>8 DEF Signal

\* A request is connected, read, submitted and answered, or never comes.
LEMMA HandlerStep ==
  ASSUME Inv, NEW r \in Requests, Connect(r) \/ Drop(r) \/ Serve(r) \/ Submit(r) \/ Answer(r)
  PROVE  Inv'
<1> USE DEF Inv
<1> DEFINE c == <<r, "handler">>
<1>0. c \in Callers /\ \A q \in Requests : q # r => <<q, "handler">> # c
  BY DEF Callers
<1>1. CASE Serve(r)
  <2>1. at[c] = "idle" /\ at' = [at EXCEPT ![c] = "wantSet"] /\ UNCHANGED <<free, redis, redisPool>>
    BY <1>1 DEF Serve, Redis!Create, Redis!Call
  <2>2. Redis!TypeOK' /\ Conserved'
    BY <1>0, <2>1, WaitKeeps DEF TypeOK, Redis!Holding
  <2>3. TypeOK'
    BY <1>1, <2>2 DEF Serve, TypeOK, Pool!TypeOK, workVars, Active, Busy
  <2>4. ShutdownOrder'
    BY <1>1, <2>1 DEF Serve, ShutdownOrder, Quiet, Active, workVars
  <2>5. HandlersInPools'
    <3>1. at' \in [Callers -> {"idle"} \cup Redis!Waiting \cup Redis!Holding]
          /\ at'[c] = "wantSet" /\ \A q \in Requests : q # r => at'[<<q, "handler">>] = at[<<q, "handler">>]
      BY <1>0, <2>1 DEF TypeOK, Redis!TypeOK, Redis!Waiting, Callers
    <3>2. handler[r] = "connected" /\ handler' = [handler EXCEPT ![r] = "creating"] /\ caller' = caller
      BY <1>1 DEF Serve, workVars
    <3> QED BY <3>1, <3>2 DEF HandlersInPools, TypeOK
  <2> QED BY <2>2, <2>3, <2>4, <2>5
<1>2. CASE Submit(r)
  <2>1. Redis!TypeOK' /\ Conserved'
    BY <1>2, StillConnections DEF Submit
  <2> QED BY <1>2, <2>1 DEF Submit, Pool!Run, redisVars, TypeOK, Pool!TypeOK, ShutdownOrder, Quiet,
          HandlersInPools
<1>3. CASE Answer(r)
  <2>1. Redis!TypeOK' /\ Conserved'
    BY <1>3, StillConnections DEF Answer
  <2>2. HandlersInPools'
    BY <1>3 DEF Answer, redisVars, workVars, TypeOK, Pool!TypeOK, HandlersInPools
  <2> QED BY <1>3, <2>1, <2>2 DEF Answer, redisVars, workVars, TypeOK, Pool!TypeOK, ShutdownOrder,
          Quiet, Active, Busy
<1>4. CASE Connect(r) \/ Drop(r)
  <2>1. Redis!TypeOK' /\ Conserved'
    BY <1>4, StillConnections DEF Connect, Drop
  <2>2. PICK place \in {"connected", "dropped"} : handler' = [handler EXCEPT ![r] = place]
    BY <1>4 DEF Connect, Drop
  <2>3. handler[r] \in {"none", "connected"} /\ UNCHANGED <<main, signal, listener, workVars, redisVars>>
    BY <1>4 DEF Connect, Drop
  <2>4. HandlersInPools'
    BY <2>2, <2>3 DEF redisVars, workVars, TypeOK, HandlersInPools
  <2>5. TypeOK'
    BY <2>1, <2>2, <2>3 DEF workVars, TypeOK, Pool!TypeOK, Active
  <2>6. ShutdownOrder'
    <3>1. CASE Connect(r)
      BY <2>3, <3>1 DEF Connect, workVars, redisVars, ShutdownOrder
    <3>2. CASE Drop(r)
      BY <2>3, <3>2 DEF Drop, workVars, redisVars, TypeOK, ShutdownOrder, Quiet, Active, Busy
    <3> QED BY <1>4, <3>1, <3>2
  <2> QED BY <2>1, <2>4, <2>5, <2>6
<1> QED BY <1>1, <1>2, <1>3, <1>4

\* A worker starts, updates its record, ends or panics.
LEMMA WorkerStep ==
  ASSUME Inv, NEW r \in Requests, Receive(r) \/ Update(r) \/ TaskReturns(r) \/ Panic(r)
  PROVE  Inv'
<1> USE DEF Inv
<1>1. CASE Update(r)
  <2> DEFINE c == <<r, "worker">>
  <2>1. c \in Callers /\ \A q \in Requests : <<q, "handler">> # c
    BY DEF Callers
  <2>2. at[c] = "idle" /\ at' = [at EXCEPT ![c] = "wantGet"] /\ UNCHANGED <<free, redis, redisPool>>
    BY <1>1 DEF Update, Redis!Update, Redis!Call
  <2>3. Redis!TypeOK' /\ Conserved'
    BY <2>1, <2>2, WaitKeeps DEF TypeOK, Redis!Holding
  <2>4. HandlersInPools'
    BY <1>1, <2>1, <2>2 DEF Update, HandlersInPools, workVars, TypeOK, Redis!TypeOK, Callers
  <2> QED BY <1>1, <2>2, <2>3, <2>4 DEF Update, TypeOK, Pool!TypeOK, workVars, ShutdownOrder, Quiet
<1>2. CASE Receive(r) \/ TaskReturns(r) \/ Panic(r)
  <2>1. Redis!TypeOK' /\ Conserved'
    BY <1>2, StillConnections DEF Receive, TaskReturns, Panic
  <2>2. Pool!TypeOK'
    BY <1>2 DEF Receive, TaskReturns, Panic, Pool!Receive, Pool!TaskReturns, TypeOK, Pool!TypeOK, workVars
  <2> QED BY <1>2, <2>1, <2>2 DEF Receive, TaskReturns, Panic, Pool!Receive, Pool!TaskReturns, redisVars,
          workVars, TypeOK, Pool!TypeOK, ShutdownOrder, Quiet, HandlersInPools
<1> QED BY <1>1, <1>2

\* Where a call leaves its goroutine, and a handler with it.
LEMMA CallStep ==
  ASSUME Inv, NEW c \in Callers, Acquire(c) \/ Reply(c) \/ Fail(c)
  PROVE  Inv'
<1> USE DEF Inv
<1>1. PICK place \in {"idle", "wantSet", "get", "set"} : at' = [at EXCEPT ![c] = place]
  BY DEF Acquire, Reply, Fail, Redis!Acquire, Redis!Reply, Redis!TimeOut, Redis!Refuse
<1>2. UNCHANGED <<main, signal, listener, workVars, redisPool>>
  BY DEF Acquire, Reply, Fail, Returns, Redis!Acquire, Redis!Reply, Redis!TimeOut, Redis!Refuse
<1>3. Redis!TypeOK' /\ Conserved'
  <2>1. CASE Acquire(c)
    BY <2>1, AcquireKeeps DEF Acquire, TypeOK
  <2>2. CASE Reply(c)
    BY <2>2, ReleaseKeeps DEF Reply, Redis!Reply, Redis!Holding, TypeOK
  <2>3. CASE Fail(c) /\ Redis!TimeOut(c)
    BY <2>3, ReleaseKeeps DEF Redis!TimeOut, TypeOK
  <2>4. CASE Fail(c) /\ Redis!Refuse(c)
    BY <2>4, WaitKeeps DEF Redis!Refuse, Redis!Waiting, Redis!Holding, TypeOK
  <2> QED BY <2>1, <2>2, <2>3, <2>4 DEF Fail
<1>4. PICK r \in Requests : c = <<r, "handler">> \/ c = <<r, "worker">>
  BY DEF Callers
<1>5. \A q \in Requests : <<q, "handler">> \in Callers
                          /\ (<<q, "handler">> # c => at'[<<q, "handler">>] = at[<<q, "handler">>])
  BY <1>1 DEF TypeOK, Redis!TypeOK, Callers
<1>6. CASE handler' = handler /\ (c = <<r, "worker">> \/ Acquire(c))
  <2>1. HandlersInPools'
    <3>1. CASE c = <<r, "worker">>
      <4>1. \A q \in Requests : <<q, "handler">> # c
        BY <3>1
      <4> QED BY <1>2, <1>5, <1>6, <4>1 DEF HandlersInPools, workVars
    <3>2. CASE c = <<r, "handler">> /\ Acquire(c)
      <4>1. at[c] \in Redis!Waiting /\ at'[c] = IF at[c] = "wantGet" THEN "get" ELSE "set"
        BY <3>2 DEF Acquire, Redis!Acquire, TypeOK, Redis!TypeOK
      <4>2. at[c] = "wantSet" /\ at'[c] = "set"
        BY <3>2, <4>1 DEF HandlersInPools, Redis!Waiting
      <4>3. ASSUME NEW q \in Requests PROVE HandlersInPools!(q)'
        BY <1>2, <1>5, <1>6, <3>2, <4>2 DEF HandlersInPools, workVars
      <4> QED BY <4>3 DEF HandlersInPools
    <3> QED BY <1>4, <1>6, <3>1, <3>2
  <2> QED BY <1>2, <1>3, <1>6, <2>1 DEF TypeOK, Pool!TypeOK, workVars, ShutdownOrder, Quiet
<1>7. CASE c = <<r, "handler">> /\ ~Acquire(c)
  <2>1. at[c] \in {"wantSet", "set"} /\ handler[r] = "creating"
    BY <1>7 DEF Reply, Fail, Redis!Reply, Redis!TimeOut, Redis!Refuse, Redis!Waiting, Redis!Holding,
       HandlersInPools
  <2>2. at' = [at EXCEPT ![c] = "idle"]
    BY <1>7, <2>1 DEF Reply, Fail, Redis!Reply, Redis!TimeOut, Redis!Refuse
  <2>3. PICK next \in {"submitting", "failing"} : handler' = [handler EXCEPT ![r] = next]
    BY <1>7 DEF Reply, Fail, Returns
  <2>4. HandlersInPools'
    <3>1. ASSUME NEW q \in Requests PROVE HandlersInPools!(q)'
      <4>1. CASE q = r
        BY <1>2, <1>5, <1>7, <2>1, <2>2, <2>3, <4>1 DEF HandlersInPools, workVars, TypeOK, Redis!TypeOK
      <4>2. CASE q # r
        BY <1>2, <1>5, <1>7, <2>3, <4>2 DEF HandlersInPools, workVars, TypeOK
      <4> QED BY <4>1, <4>2
    <3> QED BY <3>1 DEF HandlersInPools
  <2>5. ShutdownOrder'
    BY <1>2, <2>1 DEF ShutdownOrder, Quiet, Active, Busy, workVars
  <2>6. TypeOK'
    BY <1>2, <1>3, <2>3 DEF TypeOK, Pool!TypeOK, workVars, Active, Busy
  <2> QED BY <1>3, <2>4, <2>5, <2>6
<1>8. \/ handler' = handler /\ (c = <<r, "worker">> \/ Acquire(c))
      \/ c = <<r, "handler">> /\ ~Acquire(c)
  <2>1. CASE Acquire(c)
    BY <2>1 DEF Acquire
  <2>2. CASE ~Acquire(c)
    BY <1>4, <2>2 DEF Reply, Fail, Returns
  <2> QED BY <2>1, <2>2
<1> QED BY <1>6, <1>7, <1>8

LEMMA InvHolds == Spec => []Inv
<1>1. ASSUME Inv, [Next]_vars PROVE Inv'
  <2>1. CASE RedisChanges
    <3>1. Redis!TypeOK' /\ Conserved'
      BY <1>1, <2>1, RestKeeps DEF RedisChanges, Redis!Hang, Redis!Recover, Inv, TypeOK, Redis!TypeOK
    <3> QED BY <1>1, <2>1, <3>1 DEF RedisChanges, Redis!Hang, Redis!Recover, Inv, TypeOK, Pool!TypeOK,
            ShutdownOrder, Quiet, HandlersInPools, workVars
  <2>2. CASE UNCHANGED vars
    <3>1. Redis!TypeOK' /\ Conserved'
      BY <1>1, <2>2, StillConnections DEF vars, redisVars
    <3> QED BY <1>1, <2>2, <3>1 DEF vars, Inv, TypeOK, Pool!TypeOK, ShutdownOrder, Quiet, HandlersInPools
  <2> QED BY <1>1, <2>1, <2>2, MainStep, SignalStep, HandlerStep, WorkerStep, CallStep DEF Next
<1> QED BY <1>1, InitInv, PTL DEF Spec

-----------------------------------------------------------------------------
\* Type correctness of the process and of both pools.
THEOREM TypeCorrect == Spec => []TypeOK
<1>1. Inv => TypeOK
  BY DEF Inv
<1> QED BY <1>1, InvHolds, PTL

\* No path through the calls of the store loses a connection or hands it out
\* twice: replies, deadlines, and the closing of the pool while they are out.
THEOREM NoConnectionIsLost == Spec => []ConnectionsAreConserved
<1>1. Inv => ConnectionsAreConserved
  BY DEF Inv, Conserved, Held, ConnectionsAreConserved
<1> QED BY <1>1, InvHolds, PTL

\* The dispatcher and the connection pool go down after the handlers.
THEOREM PoolsOutliveHandlers == Spec => []HandlersKeepTheirPools
<1>1. ASSUME Inv PROVE HandlersKeepTheirPools
  <2> SUFFICES ASSUME NEW r \in Requests
               PROVE  /\ caller[r] = "blocked" => dispatcher # "stopped"
                      /\ handler[r] = "creating" => redisPool = "open"
    BY DEF HandlersKeepTheirPools
  <2>1. dispatcher = "stopped" \/ redisPool # "open" => handler[r] \notin Busy
    BY <1>1 DEF Inv, ShutdownOrder, Quiet, Active, TypeOK, Redis!TypeOK
  <2> QED BY <1>1, <2>1 DEF Inv, HandlersInPools, Busy
<1> QED BY <1>1, InvHolds, PTL

-----------------------------------------------------------------------------
(***************************************************************************)
(* What the clients see. A task stands with the dispatcher where its call  *)
(* of Run stands, and only a handler that has its record calls Run.        *)
(***************************************************************************)

Handed ==
  \A r \in Requests :
    /\ task[r] = "none" <=> caller[r] # "returned"
    /\ caller[r] # "none" => handler[r] \in {"submitting", "accepted"}

\* A step of the store moves the handler of its call on, from creating its record.
LEMMA CallMovesHandler ==
  ASSUME Inv, NEW c \in Callers, Reply(c) \/ Fail(c)
  PROVE  /\ UNCHANGED <<main, signal, listener, workVars>>
         /\ \/ handler' = handler
            \/ \E r \in Requests, next \in {"submitting", "failing"} :
                 handler[r] = "creating" /\ handler' = [handler EXCEPT ![r] = next]
<1>1. PICK r \in Requests : c = <<r, "handler">> \/ c = <<r, "worker">>
  BY DEF Callers
<1>2. UNCHANGED <<main, signal, listener, workVars>>
  BY DEF Reply, Fail, Returns
<1>3. CASE c = <<r, "worker">>
  BY <1>2, <1>3 DEF Reply, Fail, Returns
<1>4. CASE c = <<r, "handler">>
  <2>1. at[c] # "idle"
    BY DEF Reply, Fail, Redis!Reply, Redis!TimeOut, Redis!Refuse, Redis!Waiting, Redis!Holding
  <2>2. handler[r] = "creating"
    BY <1>4, <2>1 DEF Inv, HandlersInPools
  <2>3. PICK next \in {"submitting", "failing"} : handler' = [handler EXCEPT ![r] = next]
    BY <1>4 DEF Reply, Fail, Returns
  <2> QED BY <1>2, <2>2, <2>3
<1> QED BY <1>1, <1>3, <1>4

LEMMA HandedHolds == Spec => []Handed
<1>1. Init => Handed
  BY DEF Init, Pool!Init, Handed
<1>2. ASSUME Inv, Handed, [Next]_vars PROVE Handed'
  <2> USE <1>2 DEF Inv, TypeOK, Pool!TypeOK
  <2>1. CASE UNCHANGED <<handler, caller, task>>
    BY <2>1 DEF Handed
  <2>2. ASSUME NEW r \in Requests, Connect(r) \/ Drop(r) \/ Serve(r) PROVE Handed'
    BY <2>2 DEF Connect, Drop, Serve, workVars, Handed
  <2>3. ASSUME NEW r \in Requests, Submit(r) PROVE Handed'
    BY <2>3 DEF Submit, Pool!Run, Handed
  <2>4. ASSUME NEW r \in Requests, Answer(r) PROVE Handed'
    BY <2>4 DEF Answer, workVars, Handed
  <2>5. ASSUME NEW r \in Requests, Receive(r) \/ TaskReturns(r) PROVE Handed'
    BY <2>5 DEF Receive, TaskReturns, Pool!Receive, Pool!TaskReturns, Handed
  <2>6. ASSUME NEW c \in Callers, Reply(c) \/ Fail(c) PROVE Handed'
    BY <2>6, CallMovesHandler DEF workVars, Handed
  <2>7. CASE Main \/ ListenFails \/ MetadataFatal \/ Signal \/ SignalBeforeNotify \/ Trap \/ StopDispatcher \/ RedisChanges
             \/ UNCHANGED vars
    BY <2>1, <2>7 DEF Main, StartPool, Listen, ListenFails, MetadataFatal, Return, Signal, Notify, SignalBeforeNotify,
       Trap, CloseListener, Drained, ShutdownPool, CloseRedis, StopDispatcher, RedisChanges, workVars,
       Pool!Start, Pool!Shutdown, Pool!Stop, vars
  <2>8. ASSUME NEW r \in Requests, Update(r) \/ Panic(r) PROVE Handed'
    BY <2>1, <2>8 DEF Update, Panic, workVars
  <2>9. ASSUME NEW c \in Callers, Acquire(c) PROVE Handed'
    BY <2>1, <2>9 DEF Acquire, workVars
  <2> QED BY <2>2, <2>3, <2>4, <2>5, <2>6, <2>7, <2>8, <2>9 DEF Next
<1> QED BY <1>1, <1>2, InvHolds, PTL DEF Spec

ServiceStep == [Service!Next]_(Service!serviceVars)

\* Steps that clients do not see.
LEMMA Unseen ==
  ASSUME Phase' = Phase, UNCHANGED <<handler, task>>
  PROVE  ServiceStep
<1>1. [r \in Requests |-> Request(r)]' = [r \in Requests |-> Request(r)]
  BY DEF Request
<1> QED BY <1>1 DEF ServiceStep, Service!serviceVars

\* A step of one request changes what is seen of that request only.
LEMMA RequestStep ==
  ASSUME TypeOK, NEW r \in Requests, NEW place, handler' = [handler EXCEPT ![r] = place]
  PROVE  [q \in Requests |-> Request(q)]' =
           [[q \in Requests |-> Request(q)] EXCEPT ![r] = IF place \in Busy THEN "pending" ELSE place]
BY DEF TypeOK, Request

LEMMA Simulates ==
  ASSUME Inv, Handed, [Next]_vars
  PROVE  ServiceStep
<1> USE DEF Inv
<1> DEFINE request == [q \in Requests |-> Request(q)]
<1>1. CASE UNCHANGED <<main, listener, handler, task>>
  BY <1>1, Unseen DEF Phase, Alive
<1>2. CASE StartPool \/ Listen
  <2>1. Phase' = Phase
    BY <1>2 DEF StartPool, Listen, Phase, Alive
  <2> QED BY <1>2, <2>1, Unseen DEF StartPool, Pool!Start, Listen, workVars
<1>3. CASE ListenFails \/ MetadataFatal \/ SignalBeforeNotify \/ \E r \in Requests : Panic(r)
  <2>1. Phase \in {"serving", "closing"} /\ Phase' = "killed" /\ UNCHANGED <<handler, task>>
    BY <1>3 DEF ListenFails, MetadataFatal, SignalBeforeNotify, Panic, workVars, Phase, Alive
  <2>2. request' = request
    BY <2>1 DEF Request
  <2> QED BY <2>1, <2>2 DEF ServiceStep, Service!Next, Service!Kill, Service!Alive
<1>4. CASE Return
  <2>1. Phase = "closing" /\ Phase' = "over" /\ UNCHANGED <<handler, task>> /\ Quiet
    BY <1>4 DEF Return, ShutdownOrder, workVars, Phase, Alive
  <2>2. request' = request /\ \A r \in Requests : request[r] \notin {"connected", "pending"}
    BY <2>1 DEF Request, Quiet, TypeOK, Active, Busy
  <2> QED BY <2>1, <2>2 DEF ServiceStep, Service!Next, Service!Exit
<1>5. CASE CloseListener
  <2>1. UNCHANGED <<main, handler, task>>
    BY <1>5 DEF CloseListener, workVars
  <2>2. CASE listener = "closed"
    BY <1>1, <1>5, <2>1, <2>2 DEF CloseListener
  <2>3. CASE listener # "closed"
    <3>1. Phase = "serving" /\ Phase' = "closing"
      BY <1>5, <2>3 DEF CloseListener, Phase, Alive
    <3>2. request' = request
      BY <2>1 DEF Request
    <3> QED BY <2>1, <3>1, <3>2 DEF ServiceStep, Service!Next, Service!Close
  <2> QED BY <2>2, <2>3
<1>6. ASSUME NEW r \in Requests, Serve(r) PROVE ServiceStep
  <2>1. Phase \in {"serving", "closing"} /\ Phase' = Phase /\ UNCHANGED task
    BY <1>6 DEF Serve, Phase, Alive, workVars
  <2>2. request[r] = "connected"
    BY <1>6 DEF Serve, Request, Busy
  <2>3. request' = [request EXCEPT ![r] = "pending"]
    BY <1>6, RequestStep DEF Serve, Busy
  <2> QED BY <2>1, <2>2, <2>3 DEF ServiceStep, Service!Next, Service!Read, Service!Alive
<1>7. ASSUME NEW r \in Requests, Answer(r) PROVE ServiceStep
  <2>1. Phase \in {"serving", "closing"} /\ Phase' = Phase /\ UNCHANGED task
    BY <1>7 DEF Answer, Phase, Alive, workVars
  <2>2. request[r] = "pending"
    BY <1>7 DEF Answer, Request, Busy
  <2>3. request' = [request EXCEPT ![r] = IF task[r] = "none" THEN "rejected" ELSE "accepted"]
    <3>1. CASE handler[r] = "submitting" /\ caller[r] = "returned"
      BY <1>7, <3>1, RequestStep DEF Answer, Handed, Busy
    <3>2. CASE handler[r] = "failing"
      <4>1. task[r] = "none"
        BY <3>2 DEF Handed
      <4> QED BY <1>7, <3>2, <4>1, RequestStep DEF Answer, Busy
    <3> QED BY <1>7, <3>1, <3>2 DEF Answer
  <2> QED BY <2>1, <2>2, <2>3 DEF ServiceStep, Service!Next, Service!Answer, Service!Alive
<1>8. ASSUME NEW r \in Requests, Receive(r) \/ TaskReturns(r) PROVE ServiceStep
  <2>1. Phase \in {"serving", "closing"} /\ Phase' = Phase /\ UNCHANGED handler
    BY <1>8 DEF Receive, TaskReturns, Phase, Alive
  <2>2. request' = request
    BY <2>1 DEF Request
  <2>3. CASE Receive(r)
    <3>1. task[r] = "none" /\ task' = [task EXCEPT ![r] = "running"] /\ handler[r] = "submitting"
      BY <2>3 DEF Receive, Pool!Receive, Handed, HandlersInPools
    <3>2. request[r] = "pending"
      BY <3>1 DEF Request, Busy
    <3> QED BY <2>1, <2>2, <3>1, <3>2 DEF ServiceStep, Service!Next, Service!Begin, Service!Alive
  <2>4. CASE TaskReturns(r)
    <3>1. task[r] = "running" /\ task' = [task EXCEPT ![r] = "done"]
      BY <2>4 DEF TaskReturns, Pool!TaskReturns
    <3> QED BY <2>1, <2>2, <3>1 DEF ServiceStep, Service!Next, Service!End, Service!Alive
  <2> QED BY <1>8, <2>3, <2>4
<1>9. ASSUME NEW c \in Callers, Reply(c) \/ Fail(c) PROVE ServiceStep
  <2>1. UNCHANGED <<main, listener, task>>
    BY <1>9, CallMovesHandler DEF workVars
  <2>2. Phase' = Phase
    BY <2>1 DEF Phase, Alive
  <2>3. request' = request
    BY <1>9, CallMovesHandler DEF Request, Busy, TypeOK
  <2> QED BY <2>1, <2>2, <2>3 DEF ServiceStep, Service!serviceVars
<1>10. CASE Notify \/ Trap \/ Drained \/ ShutdownPool \/ CloseRedis \/ StopDispatcher
            \/ RedisChanges \/ UNCHANGED vars
  BY <1>1, <1>10 DEF Notify, Trap, Drained, ShutdownPool, CloseRedis, StopDispatcher,
     RedisChanges, workVars, Pool!Shutdown, Pool!Stop, vars
<1>11. ASSUME NEW r \in Requests, Submit(r) \/ Update(r) PROVE ServiceStep
  BY <1>1, <1>11 DEF Submit, Update, workVars, Pool!Run
<1>12. ASSUME NEW c \in Callers, Acquire(c) PROVE ServiceStep
  BY <1>1, <1>12 DEF Acquire, workVars
<1>13. ASSUME NEW r \in Requests, Connect(r) PROVE ServiceStep
  <2>1. Phase = "serving" /\ Phase' = Phase /\ UNCHANGED task
    BY <1>13 DEF Connect, Phase, Alive, workVars
  <2>2. request[r] = "none"
    BY <1>13 DEF Connect, Request, Busy
  <2>3. request' = [request EXCEPT ![r] = "connected"]
    BY <1>13, RequestStep DEF Connect, Busy
  <2> QED BY <2>1, <2>2, <2>3 DEF ServiceStep, Service!Next, Service!Connect
<1>14. ASSUME NEW r \in Requests, Drop(r) PROVE ServiceStep
  <2>1. Phase \in {"serving", "closing"} /\ Phase' = Phase /\ UNCHANGED task
    BY <1>14 DEF Drop, Phase, Alive, workVars
  <2>2. request[r] = "connected"
    BY <1>14 DEF Drop, Request, Busy
  <2>3. request' = [request EXCEPT ![r] = "dropped"]
    BY <1>14, RequestStep DEF Drop, Busy
  <2> QED BY <2>1, <2>2, <2>3 DEF ServiceStep, Service!Next, Service!Drop, Service!Alive
<1> QED BY <1>2, <1>3, <1>4, <1>5, <1>6, <1>7, <1>8, <1>9, <1>10, <1>11, <1>12,
       <1>13, <1>14 DEF Next, Main, Signal

\* Whatever the order of the signal, the requests, the pools and the faults of
\* Redis: an orderly exit cuts off no request, also none that was read while the
\* server drained, and leaves no connection on which one may still come; and a
\* request is answered with 202 exactly if a goroutine has taken its scan on.
THEOREM RequestServiceIsImplemented == Spec => ImplementsRequestService
<1>1. Init => Service!Init
  BY DEF Init, Pool!Init, Service!Init, Phase, Alive, Request, Busy
<1>2. Inv /\ Handed /\ [Next]_vars => [Service!Next]_(Service!serviceVars)
  BY Simulates DEF ServiceStep
<1> QED BY <1>1, <1>2, InvHolds, HandedHolds, PTL DEF Spec, ImplementsRequestService, Service!Spec
=============================================================================
