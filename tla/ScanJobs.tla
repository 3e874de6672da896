------------------------------ MODULE ScanJobs ------------------------------
(***************************************************************************)
(* The life of a scan job: POST /scan creates a record in Redis and hands  *)
(* the job to a worker goroutine; the worker drives the record through     *)
(* Pending, Running, Finished or Failed with read-modify-write calls; GET  *)
(* /scan/{id}/report answers from whatever record Redis holds; Redis       *)
(* forgets the record when its TTL runs out; a replica that panics or is   *)
(* killed takes every handler and worker it runs with it.                  *)
(*                                                                         *)
(* A job stands for one POST: its identifier is the fresh UUID of that     *)
(* call, so the artifact it names and the replica that received it are     *)
(* constants of the job.                                                   *)
(***************************************************************************)

CONSTANTS
  Jobs,        \* the identifiers Enqueue draws, one for each accepted POST
  Artifacts,   \* the artifacts that Harbor asks to scan
  Replicas,    \* the adapter processes sharing one Redis
  ArtifactOf,  \* the artifact named by the request of a job
  HostOf,      \* the replica that received the request of a job
  Nil,         \* Go's nil: no record, no copy of a record, no report
  Faults       \* what may go wrong outside the adapter, among FaultKinds

(***************************************************************************)
(* "error":     a Redis call fails and was not executed.                   *)
(* "ambiguous": a Redis call fails although it was executed (the reply is  *)
(*              lost).                                                     *)
(* "late":      a Redis call fails by timeout or reset while its command   *)
(*              is still on the way; Redis executes it at any later time,  *)
(*              or never.                                                  *)
(* "crash":     a replica is killed or exits.                              *)
(***************************************************************************)
FaultKinds == {"error", "ambiguous", "late", "crash"}

Status == {"Pending", "Running", "Finished", "Failed"}

\* The persisted record. Its error text is not modelled; its report is
\* identified by the artifact that was scanned to produce it.
ScanJob == [status : Status, report : Artifacts \cup {Nil}]

\* The SET commands of the store: "NX" writes only a key that is absent, "XX"
\* only one that is present; ex says whether the key gets a TTL.
Command == [job : Jobs, value : ScanJob, cond : {"NX", "XX"}, ex : BOOLEAN]

ASSUME ScanJobsAssumption ==
  /\ ArtifactOf \in [Jobs -> Artifacts]
  /\ HostOf \in [Jobs -> Replicas]
  /\ Faults \subseteq FaultKinds
  /\ Nil \notin ScanJob
  /\ Nil \notin Artifacts

VARIABLES
  store,     \* the records in Redis, Nil for a key that does not exist
  volatile,  \* the jobs whose key carries a TTL
  inflight,  \* commands given up by their caller that Redis may yet execute
  up,        \* the replicas that are running
  handler,   \* the progress of the handler of each POST
  worker,    \* the progress of the worker goroutine of each job
  scanJob    \* the copy a worker holds between the GET and the SET of a call

redis == <<store, volatile, inflight>>
vars == <<store, volatile, inflight, up, handler, worker, scanJob>>

HandlerState == {"idle", "submitting", "replying", "accepted", "rejected", "lost"}

\* The store calls a worker makes: UpdateStatus(Running), UpdateReport,
\* UpdateStatus(Finished) and UpdateStatus(Failed).
Calls == {"MarkRunning", "SaveReport", "MarkFinished", "MarkFailed"}

WorkerState == Calls \cup {"none", "Scan", "done", "lost"}

\* A worker goroutine that has been spawned and has not ended.
ActiveWorker == Calls \cup {"Scan"}

TypeOK ==
  /\ store \in [Jobs -> ScanJob \cup {Nil}]
  /\ volatile \subseteq Jobs
  /\ inflight \subseteq Command
  /\ up \subseteq Replicas
  /\ handler \in [Jobs -> HandlerState]
  /\ worker \in [Jobs -> WorkerState]
  /\ scanJob \in [Jobs -> ScanJob \cup {Nil}]

Init ==
  /\ store = [j \in Jobs |-> Nil]
  /\ volatile = {}
  /\ inflight = {}
  /\ up = Replicas
  /\ handler = [j \in Jobs |-> "idle"]
  /\ worker = [j \in Jobs |-> "none"]
  /\ scanJob = [j \in Jobs |-> Nil]

-----------------------------------------------------------------------------
(***************************************************************************)
(* Redis.                                                                  *)
(***************************************************************************)

\* What the store sends for Create and for update.
CreateCommand(j) ==
  [job |-> j, value |-> [status |-> "Pending", report |-> Nil], cond |-> "NX", ex |-> TRUE]

\* Mutants: update forgets the condition, or the TTL.
UpdateWithoutXX(j, rec) ==
  [job |-> j, value |-> rec, cond |-> "none", ex |-> TRUE]

UpdateWithoutEX(j, rec) ==
  [job |-> j, value |-> rec, cond |-> "XX", ex |-> FALSE]

UpdateCommand(j, rec) ==
  [job |-> j, value |-> rec, cond |-> "XX", ex |-> TRUE]

\* Redis executes a SET. A condition that does not hold makes the reply nil,
\* which redigo's Do does not report as an error.
Applies(cmd) ==
  /\ cmd.cond = "NX" => store[cmd.job] = Nil
  /\ cmd.cond = "XX" => store[cmd.job] # Nil

Execute(cmd) ==
  IF Applies(cmd)
  THEN /\ store' = [store EXCEPT ![cmd.job] = cmd.value]
       /\ volatile' = IF cmd.ex THEN volatile \cup {cmd.job} ELSE volatile \ {cmd.job}
  ELSE UNCHANGED <<store, volatile>>

\* conn.Do("SET", ...): the outcomes of one call.
Do(cmd, failed) ==
  \/ ~failed /\ Execute(cmd) /\ UNCHANGED inflight
  \/ failed /\ "error" \in Faults /\ UNCHANGED redis
  \/ failed /\ "ambiguous" \in Faults /\ Execute(cmd) /\ UNCHANGED inflight
  \/ failed /\ "late" \in Faults /\ inflight' = inflight \cup {cmd} /\ UNCHANGED <<store, volatile>>

\* conn.Do("GET", ...) may return an error when any Redis call may.
ReadMayFail == Faults \cap {"error", "ambiguous", "late"} # {}

Expire(j) ==
  /\ store[j] # Nil
  /\ j \in volatile
  /\ store' = [store EXCEPT ![j] = Nil]
  /\ volatile' = volatile \ {j}
  /\ UNCHANGED <<inflight, up, handler, worker, scanJob>>

ExecuteLate(cmd) ==
  /\ cmd \in inflight
  /\ inflight' = inflight \ {cmd}
  /\ Execute(cmd)
  /\ UNCHANGED <<up, handler, worker, scanJob>>

-----------------------------------------------------------------------------
(***************************************************************************)
(* The life of a replica. Nothing recovers goroutines or records: a new    *)
(* process starts with no jobs.                                            *)
(***************************************************************************)

\* The process ends: its handlers and workers vanish where they stand.
Die(r) ==
  /\ up' = up \ {r}
  /\ handler' = [j \in Jobs |->
       IF HostOf[j] = r /\ handler[j] \in {"submitting", "replying"} THEN "lost" ELSE handler[j]]
  /\ worker' = [j \in Jobs |->
       IF HostOf[j] = r /\ worker[j] \in ActiveWorker THEN "lost" ELSE worker[j]]
  /\ scanJob' = [j \in Jobs |-> IF HostOf[j] = r THEN Nil ELSE scanJob[j]]

Crash(r) ==
  /\ "crash" \in Faults
  /\ r \in up
  /\ Die(r)
  /\ UNCHANGED redis

Restart(r) ==
  /\ r \notin up
  /\ up' = up \cup {r}
  /\ UNCHANGED <<store, volatile, inflight, handler, worker, scanJob>>

-----------------------------------------------------------------------------
(***************************************************************************)
(* POST /scan: AcceptScanRequest and Enqueue. Requests that fail           *)
(* validation are answered without touching any state and are not jobs.    *)
(***************************************************************************)

\* Create the Pending record; an error is answered with 500.
EnqueueCreate(j) ==
  /\ handler[j] = "idle"
  /\ HostOf[j] \in up
  /\ \E failed \in BOOLEAN :
       /\ Do(CreateCommand(j), failed)
       /\ handler' = [handler EXCEPT ![j] = IF failed THEN "rejected" ELSE "submitting"]
  /\ UNCHANGED <<up, worker, scanJob>>

\* pool.Run: the dispatcher takes the task and spawns its goroutine.
EnqueueRun(j) ==
  /\ handler[j] = "submitting"
  /\ handler' = [handler EXCEPT ![j] = "replying"]
  /\ worker' = [worker EXCEPT ![j] = "MarkRunning"]
  /\ UNCHANGED <<store, volatile, inflight, up, scanJob>>

\* Answer 202 with the job's identifier; only now can a client poll for it.
Accept(j) ==
  /\ handler[j] = "replying"
  /\ handler' = [handler EXCEPT ![j] = "accepted"]
  /\ UNCHANGED <<store, volatile, inflight, up, worker, scanJob>>

-----------------------------------------------------------------------------
(***************************************************************************)
(* The worker goroutine: Task and scan.                                    *)
(***************************************************************************)

\* Mutants: the status is written before the report; marking a record Failed is
\* tried until it succeeds; a failed scan is only logged; a failed UpdateReport is only logged;
\* the failed path writes a status that GetScanReport does not know.
OnSuccessReportLast(step) ==
  CASE step = "MarkRunning"  -> "Scan"
    [] step = "Scan"         -> "MarkFinished"
    [] step = "MarkFinished" -> "SaveReport"
    [] step = "SaveReport"   -> "done"
    [] step = "MarkFailed"   -> "done"

OnErrorRetries(step) == "MarkFailed"

OnErrorOnlyLogs(step) ==
  IF step \in {"Scan", "MarkFailed"} THEN "done" ELSE "MarkFailed"

OnErrorCarriesOn(step) ==
  CASE step = "MarkFailed" -> "done"
    [] step = "SaveReport" -> "MarkFinished"
    [] OTHER -> "MarkFailed"

ModifyUnknown(call, j, rec) ==
  CASE call = "SaveReport"   -> [rec EXCEPT !.report = ArtifactOf[j]]
    [] call = "MarkRunning"  -> [rec EXCEPT !.status = "Running"]
    [] call = "MarkFinished" -> [rec EXCEPT !.status = "Finished"]
    [] call = "MarkFailed"   -> [rec EXCEPT !.status = "Unknown"]

\* Where the worker goes when a step of it succeeds, and when it fails.
OnSuccess(step) ==
  CASE step = "MarkRunning"  -> "Scan"
    [] step = "Scan"         -> "SaveReport"
    [] step = "SaveReport"   -> "MarkFinished"
    [] step = "MarkFinished" -> "done"
    [] step = "MarkFailed"   -> "done"

OnError(step) ==
  IF step = "MarkFailed" THEN "done" ELSE "MarkFailed"

\* What a call changes in the copy it read.
Modify(call, j, rec) ==
  CASE call = "MarkRunning"  -> [rec EXCEPT !.status = "Running"]
    [] call = "SaveReport"   -> [rec EXCEPT !.report = ArtifactOf[j]]
    [] call = "MarkFinished" -> [rec EXCEPT !.status = "Finished"]
    [] call = "MarkFailed"   -> [rec EXCEPT !.status = "Failed"]

\* The first half of UpdateStatus and UpdateReport: read the record into a
\* private copy and modify it.
ReadRecord(j) ==
  /\ worker[j] \in Calls
  /\ scanJob[j] = Nil
  /\ store[j] # Nil
  /\ scanJob' = [scanJob EXCEPT ![j] = Modify(worker[j], j, store[j])]
  /\ UNCHANGED <<store, volatile, inflight, up, handler, worker>>

ReadFails(j) ==
  /\ worker[j] \in Calls
  /\ scanJob[j] = Nil
  /\ ReadMayFail
  /\ worker' = [worker EXCEPT ![j] = OnError(worker[j])]
  /\ UNCHANGED <<store, volatile, inflight, up, handler, scanJob>>

\* The record has expired: Get returns nil, nil and the caller dereferences
\* it. Nothing recovers the panic, so the process ends.
ReadExpired(j) ==
  /\ worker[j] \in Calls
  /\ scanJob[j] = Nil
  /\ store[j] = Nil
  /\ Die(HostOf[j])
  /\ UNCHANGED redis

\* The second half: write the copy back.
WriteRecord(j) ==
  /\ worker[j] \in Calls
  /\ scanJob[j] # Nil
  /\ \E failed \in BOOLEAN :
       /\ Do(UpdateCommand(j, scanJob[j]), failed)
       /\ worker' = [worker EXCEPT ![j] =
                       IF failed THEN OnError(worker[j]) ELSE OnSuccess(worker[j])]
  /\ scanJob' = [scanJob EXCEPT ![j] = Nil]
  /\ UNCHANGED <<up, handler>>

\* adapter.Scan returns a report or an error, or panics.
Scan(j) ==
  /\ worker[j] = "Scan"
  /\ \/ /\ \E next \in {OnSuccess("Scan"), OnError("Scan")} :
             worker' = [worker EXCEPT ![j] = next]
        /\ UNCHANGED <<up, handler, scanJob>>
     \/ Die(HostOf[j])
  /\ UNCHANGED redis

-----------------------------------------------------------------------------
(***************************************************************************)
(* GET /scan/{id}/report: the answer is a function of the record it reads. *)
(***************************************************************************)
GetScanReport(j) ==
  CASE store[j] = Nil -> [code |-> 404]
    [] store[j] # Nil /\ store[j].status \in {"Pending", "Running"} -> [code |-> 302]
    [] store[j] # Nil /\ store[j].status = "Failed" -> [code |-> 500]
    [] store[j] # Nil /\ store[j].status = "Finished" ->
         [code |-> 200, report |-> store[j].report]

-----------------------------------------------------------------------------
Handler(j) == EnqueueCreate(j) \/ EnqueueRun(j) \/ Accept(j)

Worker(j) == ReadRecord(j) \/ ReadFails(j) \/ ReadExpired(j) \/ WriteRecord(j) \/ Scan(j)

Next ==
  \/ \E j \in Jobs : Handler(j) \/ Worker(j) \/ Expire(j)
  \/ \E r \in Replicas : Crash(r) \/ Restart(r)
  \/ \E cmd \in inflight : ExecuteLate(cmd)

Spec == Init /\ [][Next]_vars

\* Goroutines that can run do, and Clair, the registry and Redis answer.
WorkerSpec ==
  Spec /\ \A j \in Jobs : WF_vars(EnqueueRun(j)) /\ WF_vars(Accept(j)) /\ WF_vars(Worker(j))

\* Nothing but the expiry of keys is promised: a worker may hang for ever.
ExpirySpec == Spec /\ \A j \in Jobs : WF_vars(Expire(j))
-----------------------------------------------------------------------------
(***************************************************************************)
(* The inductive invariant behind FinishedHasReport, FinishedNeverReopens  *)
(* and ExpiredStaysGone, by parts.                                         *)
(***************************************************************************)

Closed == {"Finished", "Failed"}

Own(j, rec) == rec.report = ArtifactOf[j]

\* Every Finished record, wherever it is (in Redis, on its way there, in a
\* worker's copy), has the report of its own job.
ReportsInPlace ==
  /\ \A j \in Jobs : store[j] # Nil /\ store[j].status = "Finished" => Own(j, store[j])
  /\ \A cmd \in inflight : cmd.value.status = "Finished" => Own(cmd.job, cmd.value)
  /\ \A j \in Jobs : scanJob[j] # Nil /\ scanJob[j].status = "Finished" => Own(j, scanJob[j])

\* From a successful UpdateReport until the record is marked, the report is in
\* the record (if it has not expired) and in the worker's copy.
ReportBeforeMark ==
  \A j \in Jobs :
    /\ worker[j] = "MarkFinished" => store[j] = Nil \/ Own(j, store[j])
    /\ worker[j] \in {"SaveReport", "MarkFinished"} => scanJob[j] = Nil \/ Own(j, scanJob[j])

\* The copy a worker is about to write back has the status it wants to set.
CopyIsMarked ==
  \A j \in Jobs :
    scanJob[j] # Nil =>
      /\ worker[j] \in Calls
      /\ worker[j] = "MarkFinished" => scanJob[j].status = "Finished"
      /\ worker[j] = "MarkFailed" => scanJob[j].status = "Failed"
      /\ worker[j] \in {"MarkRunning", "SaveReport"} => scanJob[j].status \notin Closed

\* A write is given up only on the way to failure, and a creation only for a
\* request that is rejected: on the way to success nothing is in flight.
LateWritesAreAbandoned ==
  \A cmd \in inflight :
    /\ cmd.cond = "NX" =>
         handler[cmd.job] = "rejected" /\ worker[cmd.job] = "none" /\ cmd.value.status = "Pending"
    /\ cmd.cond = "XX" => worker[cmd.job] \in {"MarkFailed", "done", "lost"}

\* A job without a worker has not been submitted, and has nothing to mark.
WorkerNeedsSubmit ==
  \A j \in Jobs :
    /\ handler[j] \in {"idle", "submitting", "rejected"} => worker[j] = "none"
    /\ handler[j] = "idle" => store[j] = Nil

\* A worker that is not on its way out has a record that is still open.
OpenWhileWorking ==
  \A j \in Jobs :
    store[j] # Nil /\ store[j].status \in Closed => worker[j] \in {"MarkFailed", "done", "lost"}

\* Once a record says Finished, or a command that says so is on its way,
\* nothing in flight reopens it.
NothingReopens ==
  \A j \in Jobs :
    \/ store[j] # Nil /\ store[j].status = "Finished"
    \/ \E cmd \in inflight : cmd.job = j /\ cmd.value.status = "Finished"
    => \A cmd \in inflight : cmd.job = j => cmd.value.status \in Closed

RecordInv ==
  /\ ReportsInPlace
  /\ ReportBeforeMark
  /\ CopyIsMarked
  /\ LateWritesAreAbandoned
  /\ WorkerNeedsSubmit
  /\ OpenWhileWorking
  /\ NothingReopens

-----------------------------------------------------------------------------
(***************************************************************************)
(* Properties.                                                             *)
(***************************************************************************)

\* A record that says Finished holds the report of the job's own artifact, so
\* no 200 carries an empty report or another job's: the worker saves the
\* report before it marks the record, and no late write undoes the first.
FinishedHasReport ==
  \A j \in Jobs :
    store[j] # Nil /\ store[j].status = "Finished" => store[j].report = ArtifactOf[j]

\* A client that could fetch a report is never told to wait again (302): no
\* write that Redis executes late reopens a record marked Finished.
FinishedNeverReopens ==
  [][\A j \in Jobs : GetScanReport(j).code = 200 => GetScanReport(j)'.code # 302]_vars

\* Once the record of a job with a worker has expired it stays gone: every
\* write of the worker, executed in time or late, is conditional on the key.
ExpiredStaysGone ==
  [][\A j \in Jobs : worker[j] # "none" /\ store[j] = Nil => store'[j] = Nil]_vars

\* worker.go:20-25: whatever fails, a worker ends with its record still Pending
\* or Running only in the call that was to mark it Failed: no path of Task or
\* scan walks away from an open record before it has tried that.
AbandonedOnlyAtLast ==
  [][\A j \in Jobs :
       worker[j] \in ActiveWorker /\ worker'[j] = "done" /\ GetScanReport(j)'.code = 302
       => worker[j] = "MarkFailed"]_vars

\* Polling ends: whatever fails, and even when a scan hangs for ever, the
\* answers to polls of a job are 302 only up to some point, because every
\* write gives the key a TTL.
PollingEnds ==
  \A j \in Jobs : <>[](GetScanReport(j).code # 302)

\* While the goroutines run and Clair, the registry and Redis answer, an accepted
\* job gets a report or a failure before its record expires, or its worker dies
\* with its process, or it has ended all the same (AbandonedOnlyAtLast says when):
\* no path from the 202 to the record's last change loses the job or runs for ever.
ScanGetsVerdict ==
  \A j \in Jobs :
    handler[j] = "accepted" ~>
      GetScanReport(j).code \in {200, 500, 404} \/ worker[j] \in {"lost", "done"}

\* The client's view of a job, for the refinement of ScanService.
OutcomeOf(j) ==
  IF store[j] = Nil
  THEN [phase |-> IF handler[j] \in {"idle", "rejected"} THEN "none" ELSE "forgotten",
        report |-> Nil]
  ELSE [phase |-> CASE store[j].status \in {"Pending", "Running"} -> "open"
                    [] store[j].status = "Finished" -> "reported"
                    [] store[j].status = "Failed" -> "failed",
        report |-> IF store[j].status = "Finished" THEN store[j].report ELSE Nil]

Service == INSTANCE ScanService WITH outcome <- [j \in Jobs |-> OutcomeOf(j)]

\* When a failed Redis call is one that was not executed, the records behave
\* as ScanService promises: one verdict for each job, its own report, never
\* taken back.
ImplementsScanService == Service!Spec
=============================================================================
