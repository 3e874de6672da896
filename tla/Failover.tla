------------------------------ MODULE Failover ------------------------------
(***************************************************************************)
(* ScanJobs against a Redis under Sentinel: two servers, one of which      *)
(* replicates the other asynchronously until Sentinel promotes it. A       *)
(* connection that was idle for less than a minute is borrowed without a   *)
(* check of its role, so for a while any call of a worker or handler may   *)
(* reach the demoted server, which still answers; what it then accepts is  *)
(* gone when it comes back as a replica. A command that its caller has     *)
(* given up is executed late by the server it was sent to, or never.       *)
(***************************************************************************)
EXTENDS ScanJobs

VARIABLES
  other,          \* the records of the second server
  otherVolatile,  \* the jobs whose key carries a TTL there
  otherInflight,  \* commands given up by their caller that it may yet execute
  role,           \* whether that server is a "replica" or was "demoted"
  exposed         \* jobs whose worker was saving or marking a report during a failover

second == <<other, otherVolatile, otherInflight, role>>
allVars == <<vars, second, exposed>>

\* The same code, talking to the second server.
Demoted ==
  INSTANCE ScanJobs WITH store <- other, volatile <- otherVolatile, inflight <- otherInflight

FailoverInit ==
  /\ Init
  /\ other = store
  /\ otherVolatile = {}
  /\ otherInflight = {}
  /\ role = "replica"
  /\ exposed = {}

\* Commands are replicated in their order: the replica has the records as they
\* were at some earlier time.
Replicate ==
  /\ role = "replica"
  /\ other' = store
  /\ otherVolatile' = volatile
  /\ UNCHANGED <<vars, otherInflight, role>>

\* Sentinel promotes the replica; MasterAddr names it from now on. What was sent
\* to the old master stays with it.
Promote ==
  /\ role = "replica"
  /\ store' = other /\ volatile' = otherVolatile /\ inflight' = otherInflight
  /\ other' = store /\ otherVolatile' = volatile /\ otherInflight' = inflight
  /\ role' = "demoted"
  /\ UNCHANGED <<up, handler, worker, scanJob>>

\* The demoted server comes back as a replica of the new master. Its clients are
\* cut off, and it takes no writes.
Rejoin ==
  /\ role = "demoted"
  /\ role' = "replica"
  /\ other' = store /\ otherVolatile' = volatile /\ otherInflight' = {}
  /\ UNCHANGED vars

\* A call on a connection to the master, dialed anew or still idle from before.
CallMaster == Next /\ UNCHANGED second

\* A call on a connection to the demoted server.
CallDemoted(j) ==
  /\ role = "demoted"
  /\ \/ Demoted!EnqueueCreate(j)
     \/ Demoted!ReadRecord(j)
     \/ Demoted!ReadExpired(j)
     \/ Demoted!WriteRecord(j)
     \/ Demoted!Expire(j)
  /\ UNCHANGED <<store, volatile, inflight, role>>

ExecuteDemoted ==
  /\ role = "demoted"
  /\ \E cmd \in otherInflight : Demoted!ExecuteLate(cmd)
  /\ UNCHANGED <<store, volatile, inflight, role>>

Saving == {"SaveReport", "MarkFinished"}

FailoverNext ==
  /\ \/ CallMaster
     \/ Replicate \/ Promote \/ Rejoin \/ ExecuteDemoted
     \/ \E j \in Jobs : CallDemoted(j)
  /\ exposed' = exposed \cup {j \in Jobs : role' = "demoted" /\ worker'[j] \in Saving}

\* As in ExpirySpec, only the expiry of the keys of the master is promised.
FailoverSpec ==
  /\ FailoverInit /\ [][FailoverNext]_allVars
  /\ \A j \in Jobs : WF_allVars(Expire(j) /\ UNCHANGED <<second, exposed>>)

-----------------------------------------------------------------------------
\* A failover can make a record say Finished without a report, when the report
\* went to one server and the mark to the other; it does so only to a job that
\* was between the two. Whatever became of the other jobs' records, none that
\* says Finished lacks its own report, on either server, also when a command is
\* executed after its caller gave it up.
ReportLostOnlyInFailover ==
  \A j \in Jobs \ exposed :
    /\ store[j] # Nil /\ store[j].status = "Finished" => Own(j, store[j])
    /\ other[j] # Nil /\ other[j].status = "Finished" => Own(j, other[j])

\* Polling ends once the failovers do, also of a job whose record a failover
\* brought back, or threw back to Running after its worker had ended: what is
\* promoted has its TTL, too.
PollingEndsAfterFailovers == <>[](role = "replica") => PollingEnds
=============================================================================
