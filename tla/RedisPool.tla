----------------------------- MODULE RedisPool -----------------------------
(***************************************************************************)
(* The bounded pool of Redis connections and the goroutines that share it. *)
(* A goroutine makes a GET and a SET (UpdateStatus, UpdateReport) or a SET *)
(* (Create), each on a connection taken from the pool and given back. The  *)
(* pool blocks when MaxActive connections are in use (Wait is true).       *)
(***************************************************************************)
EXTENDS Naturals

CONSTANTS
  Callers,   \* goroutines that call the store
  MaxActive, \* SCANNER_STORE_REDIS_POOL_MAX_ACTIVE
  Timeouts   \* whether connections are dialed with timeouts: the Sentinel
             \* pool does, the standalone pool does not

VARIABLES
  at,     \* where each goroutine stands
  free,   \* connections the pool may still hand out
  redis,  \* "up" or "hung": a hung Redis accepts commands and never replies
  pool    \* "open" or "closed"

\* Waiting for a connection, and waiting for a reply while holding one.
Waiting == {"wantGet", "wantSet"}
Holding == {"get", "set"}

TypeOK ==
  /\ at \in [Callers -> {"idle"} \cup Waiting \cup Holding]
  /\ free \in 0..MaxActive
  /\ redis \in {"up", "hung"}
  /\ pool \in {"open", "closed"}

Init ==
  /\ at = [c \in Callers |-> "idle"]
  /\ free = MaxActive
  /\ redis = "up"
  /\ pool = "open"

\* A goroutine enters a call of the store.
Call(c, first) ==
  /\ at[c] = "idle"
  /\ at' = [at EXCEPT ![c] = first]
  /\ UNCHANGED <<free, redis, pool>>

Create(c) == Call(c, "wantSet")

Update(c) == Call(c, "wantGet")

\* pool.Get.
Acquire(c) ==
  /\ pool = "open"
  /\ at[c] \in Waiting
  /\ free > 0
  /\ free' = free - 1
  /\ at' = [at EXCEPT ![c] = IF @ = "wantGet" THEN "get" ELSE "set"]
  /\ UNCHANGED <<redis, pool>>

\* A closed pool wakes those who wait, and has an error for everybody.
Refuse(c) ==
  /\ pool = "closed"
  /\ at[c] \in Waiting
  /\ at' = [at EXCEPT ![c] = "idle"]
  /\ UNCHANGED <<free, redis, pool>>

\* Mutant: update asks for its connection before Get has returned its own.
ReplyKeepsConn(c) ==
  /\ redis = "up"
  /\ \/ /\ at[c] = "get"
        /\ at' = [at EXCEPT ![c] = "wantSet"]
        /\ UNCHANGED free
     \/ /\ at[c] = "set"
        /\ at' = [at EXCEPT ![c] = "idle"]
        /\ free' = free + 2
  /\ UNCHANGED <<redis, pool>>

\* The reply arrives and the deferred close gives the connection back. After
\* the GET the goroutine goes on to the SET, or returns the error it got.
Reply(c) ==
  /\ redis = "up"
  /\ \/ at[c] = "get" /\ \E next \in {"wantSet", "idle"} : at' = [at EXCEPT ![c] = next]
     \/ at[c] = "set" /\ at' = [at EXCEPT ![c] = "idle"]
  /\ free' = free + 1
  /\ UNCHANGED <<redis, pool>>

\* Mutant: an error path without the deferred close.
TimeOutLeaks(c) ==
  /\ Timeouts
  /\ at[c] \in Holding
  /\ at' = [at EXCEPT ![c] = "idle"]
  /\ UNCHANGED <<free, redis, pool>>

\* The read or write deadline of the connection passes: the call fails, and
\* the pool closes the connection instead of keeping it.
TimeOut(c) ==
  /\ Timeouts
  /\ at[c] \in Holding
  /\ at' = [at EXCEPT ![c] = "idle"]
  /\ free' = free + 1
  /\ UNCHANGED <<redis, pool>>

Hang ==
  /\ redis = "up"
  /\ redis' = "hung"
  /\ UNCHANGED <<at, free, pool>>

Recover ==
  /\ redis = "hung"
  /\ redis' = "up"
  /\ UNCHANGED <<at, free, pool>>

\* Connections in use are closed when they are given back.
Close ==
  /\ pool' = "closed"
  /\ UNCHANGED <<at, free, redis>>
=============================================================================
