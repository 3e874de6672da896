--------------------------- MODULE FailoverProofs ---------------------------
(***************************************************************************)
(* What survives a failover, for any sets of jobs, artifacts and replicas  *)
(* and any choice of faults.                                               *)
(***************************************************************************)
EXTENDS Failover, TLAPS

Fin(rec) == rec # Nil /\ rec.status = "Finished"

\* The commands that were given up and may yet be executed, by either server.
Late == inflight \cup otherInflight

Records ==
  /\ store \in [Jobs -> ScanJob \cup {Nil}]
  /\ other \in [Jobs -> ScanJob \cup {Nil}]
  /\ scanJob \in [Jobs -> ScanJob \cup {Nil}]
  /\ worker \in [Jobs -> WorkerState]
  /\ handler \in [Jobs -> HandlerState]
  /\ role \in {"replica", "demoted"}
  /\ Late \subseteq Command

\* The copy a worker is about to write has the status of its call.
Copies ==
  \A j \in Jobs :
    /\ handler[j] \in {"idle", "submitting", "rejected"} => worker[j] = "none"
    /\ scanJob[j] # Nil => worker[j] \in Calls
    /\ scanJob[j] # Nil /\ worker[j] = "MarkRunning" => scanJob[j].status = "Running"
    /\ scanJob[j] # Nil /\ worker[j] = "MarkFailed" => scanJob[j].status = "Failed"

\* What is executed late comes from a handler that rejected its request, or from
\* a worker that is on its way out: never from one that is saving its report.
GivenUp ==
  \A cmd \in Late :
    /\ cmd.cond = "NX" => handler[cmd.job] = "rejected" /\ cmd.value.status = "Pending"
    /\ cmd.cond = "XX" => worker[cmd.job] \in {"MarkFailed", "done", "lost"}

\* A job that was never saving its report during a failover has saved it where
\* it marks it.
Safe(j) ==
  /\ role = "demoted" => worker[j] \notin Saving
  /\ Fin(store[j]) => Own(j, store[j])
  /\ Fin(other[j]) => Own(j, other[j])
  /\ \A cmd \in Late : cmd.job = j /\ cmd.value.status = "Finished" => Own(j, cmd.value)
  /\ worker[j] \in Saving /\ scanJob[j] # Nil => Own(j, scanJob[j])
  /\ worker[j] = "MarkFinished" => store[j] = Nil \/ Own(j, store[j])

Inv == Records /\ Copies /\ GivenUp /\ \A j \in Jobs \ exposed : Safe(j)

Exposing ==
  exposed' = exposed \cup {j \in Jobs : role' = "demoted" /\ worker'[j] \in Saving}

\* A step that leaves nothing behind that may be executed late.
Quiet == Late' \subseteq Late

LEMMA InitInv == FailoverInit => Inv
BY DEF FailoverInit, Init, Inv, Records, Copies, GivenUp, Safe, Late, Fin, Saving, HandlerState,
   WorkerState

\* Who is not exposed after a step was not before it.
LEMMA Unexposed ==
  ASSUME Inv, Exposing, NEW j \in Jobs \ exposed'
  PROVE  j \in Jobs /\ Safe(j) /\ (role' = "demoted" => worker'[j] \notin Saving)
BY DEF Inv, Exposing

-----------------------------------------------------------------------------
(***************************************************************************)
(* The calls of the store, on the master and on the demoted server.        *)
(***************************************************************************)

Pending == [status |-> "Pending", report |-> Nil]

LEMMA NextStep ==
  /\ OnSuccess("MarkRunning") = "Scan"
  /\ OnSuccess("Scan") = "SaveReport"
  /\ OnSuccess("SaveReport") = "MarkFinished"
  /\ OnSuccess("MarkFinished") = "done"
  /\ OnSuccess("MarkFailed") = "done"
  /\ OnError("MarkFailed") = "done"
  /\ \A step : step # "MarkFailed" => OnError(step) = "MarkFailed"
BY DEF OnSuccess, OnError

\* What a creation does, on whatever server.
Created(j, server, serverNext, failed) ==
  /\ handler[j] = "idle"
  /\ handler' = [handler EXCEPT ![j] = IF failed THEN "rejected" ELSE "submitting"]
  /\ serverNext = server \/ serverNext = [server EXCEPT ![j] = Pending]
  /\ \A cmd \in Late' : cmd \in Late \/ (failed /\ cmd = CreateCommand(j))
  /\ UNCHANGED <<worker, scanJob>>

LEMMA MasterCreates ==
  ASSUME NEW j \in Jobs, EnqueueCreate(j), UNCHANGED otherInflight
  PROVE  \E failed \in BOOLEAN : Created(j, store, store', failed)
<1>1. PICK failed \in BOOLEAN :
        /\ Do(CreateCommand(j), failed)
        /\ handler' = [handler EXCEPT ![j] = IF failed THEN "rejected" ELSE "submitting"]
  BY DEF EnqueueCreate
<1>2. \/ inflight' = inflight
      \/ failed /\ inflight' = inflight \cup {CreateCommand(j)}
  BY <1>1 DEF Do, redis
<1>3. store' = store \/ store' = [store EXCEPT ![j] = Pending]
  BY <1>1 DEF Do, Execute, CreateCommand, redis, Pending
<1> QED BY <1>1, <1>2, <1>3 DEF EnqueueCreate, Created, Late

LEMMA DemotedCreates ==
  ASSUME NEW j \in Jobs, Demoted!EnqueueCreate(j), UNCHANGED inflight
  PROVE  \E failed \in BOOLEAN : Created(j, other, other', failed)
<1>1. PICK failed \in BOOLEAN :
        /\ Demoted!Do(Demoted!CreateCommand(j), failed)
        /\ handler' = [handler EXCEPT ![j] = IF failed THEN "rejected" ELSE "submitting"]
  BY DEF Demoted!EnqueueCreate
<1>2. \/ otherInflight' = otherInflight
      \/ failed /\ otherInflight' = otherInflight \cup {CreateCommand(j)}
  BY <1>1 DEF Demoted!Do, Demoted!redis, Demoted!CreateCommand, CreateCommand
<1>3. other' = other \/ other' = [other EXCEPT ![j] = Pending]
  BY <1>1 DEF Demoted!Do, Demoted!Execute, Demoted!CreateCommand, Demoted!redis, Pending
<1> QED BY <1>1, <1>2, <1>3 DEF Demoted!EnqueueCreate, Created, Late

\* What a read does.
ReadFrom(j, server) ==
  /\ worker[j] \in Calls /\ scanJob[j] = Nil /\ server[j] # Nil
  /\ scanJob' = [scanJob EXCEPT ![j] = Modify(worker[j], j, server[j])]
  /\ UNCHANGED <<worker, handler>>

LEMMA MasterReads ==
  ASSUME NEW j \in Jobs, ReadRecord(j)
  PROVE  ReadFrom(j, store) /\ UNCHANGED <<store, inflight>>
BY DEF ReadRecord, ReadFrom

LEMMA DemotedReads ==
  ASSUME NEW j \in Jobs, Demoted!ReadRecord(j)
  PROVE  ReadFrom(j, other) /\ UNCHANGED <<other, otherInflight>>
BY DEF Demoted!ReadRecord, ReadFrom, Demoted!Modify, Modify, Demoted!Calls, Calls

\* What a write does.
Written(j, server, serverNext, failed) ==
  /\ worker[j] \in Calls /\ scanJob[j] # Nil
  /\ \/ serverNext = server /\ (failed \/ server[j] = Nil)
     \/ serverNext = [server EXCEPT ![j] = scanJob[j]]
  /\ worker' = [worker EXCEPT ![j] = IF failed THEN OnError(worker[j]) ELSE OnSuccess(worker[j])]
  /\ scanJob' = [scanJob EXCEPT ![j] = Nil]
  /\ \A cmd \in Late' : cmd \in Late \/ (failed /\ cmd = UpdateCommand(j, scanJob[j]))
  /\ UNCHANGED handler

LEMMA MasterWrites ==
  ASSUME NEW j \in Jobs, WriteRecord(j), UNCHANGED otherInflight
  PROVE  \E failed \in BOOLEAN : Written(j, store, store', failed)
<1>1. PICK failed \in BOOLEAN :
        /\ Do(UpdateCommand(j, scanJob[j]), failed)
        /\ worker' = [worker EXCEPT ![j] = IF failed THEN OnError(worker[j]) ELSE OnSuccess(worker[j])]
  BY DEF WriteRecord
<1>2. \/ store' = store /\ (failed \/ store[j] = Nil)
      \/ store' = [store EXCEPT ![j] = scanJob[j]]
  BY <1>1 DEF Do, Execute, Applies, UpdateCommand, redis
<1>3. \/ inflight' = inflight
      \/ failed /\ inflight' = inflight \cup {UpdateCommand(j, scanJob[j])}
  BY <1>1 DEF Do, redis
<1> QED BY <1>1, <1>2, <1>3 DEF WriteRecord, Written, Late

LEMMA DemotedWrites ==
  ASSUME NEW j \in Jobs, Demoted!WriteRecord(j), UNCHANGED inflight
  PROVE  \E failed \in BOOLEAN : Written(j, other, other', failed)
<1>1. PICK failed \in BOOLEAN :
        /\ Demoted!Do(Demoted!UpdateCommand(j, scanJob[j]), failed)
        /\ worker' = [worker EXCEPT ![j] = IF failed THEN OnError(worker[j]) ELSE OnSuccess(worker[j])]
  BY DEF Demoted!WriteRecord, Demoted!OnError, Demoted!OnSuccess, OnError, OnSuccess
<1>2. \/ other' = other /\ (failed \/ other[j] = Nil)
      \/ other' = [other EXCEPT ![j] = scanJob[j]]
  BY <1>1 DEF Demoted!Do, Demoted!Execute, Demoted!Applies, Demoted!UpdateCommand, Demoted!redis
<1>3. \/ otherInflight' = otherInflight
      \/ failed /\ otherInflight' = otherInflight \cup {UpdateCommand(j, scanJob[j])}
  BY <1>1 DEF Demoted!Do, Demoted!redis, Demoted!UpdateCommand, UpdateCommand
<1> QED BY <1>1, <1>2, <1>3 DEF Demoted!WriteRecord, Written, Demoted!Calls, Calls, Late

-----------------------------------------------------------------------------
(***************************************************************************)
(* Each kind of step keeps the invariant.                                  *)
(***************************************************************************)

LEMMA CreateKeeps ==
  ASSUME Inv, Exposing, role' = role, NEW j \in Jobs, NEW failed \in BOOLEAN,
         \/ Created(j, store, store', failed) /\ other' = other
         \/ Created(j, other, other', failed) /\ store' = store
  PROVE  Inv'
<1>0. Pending \in ScanJob /\ ~Fin(Pending)
  BY DEF Pending, ScanJob, Status, Fin
<1>1. /\ handler[j] = "idle" /\ worker[j] = "none"
      /\ worker' = worker /\ scanJob' = scanJob
  BY DEF Created, Inv, Copies
<1>2. /\ store' = store \/ store' = [store EXCEPT ![j] = Pending]
      /\ other' = other \/ other' = [other EXCEPT ![j] = Pending]
  BY DEF Created
<1>3. handler' = [handler EXCEPT ![j] = IF failed THEN "rejected" ELSE "submitting"]
  BY DEF Created
<1>4. /\ CreateCommand(j) \in Command /\ CreateCommand(j).job = j
      /\ CreateCommand(j).cond = "NX" /\ CreateCommand(j).value.status = "Pending"
  BY DEF CreateCommand, Command, ScanJob, Status
<1>5. \A cmd \in Late' : cmd \in Late \/ (failed /\ cmd = CreateCommand(j))
  BY DEF Created
<1> HIDE DEF Pending
<1>6. Records'
  <2>1. Late' \subseteq Command
    BY <1>4, <1>5 DEF Inv, Records
  <2> QED BY <1>0, <1>1, <1>2, <1>3, <2>1 DEF Inv, Records, HandlerState
<1>7. Copies'
  BY <1>1, <1>3 DEF Inv, Records, Copies
<1>8. GivenUp'
  <2> SUFFICES ASSUME NEW cmd \in Late'
               PROVE  /\ cmd.cond = "NX" => handler'[cmd.job] = "rejected" /\ cmd.value.status = "Pending"
                      /\ cmd.cond = "XX" => worker'[cmd.job] \in {"MarkFailed", "done", "lost"}
    BY DEF GivenUp
  <2>1. CASE cmd \in Late
    <3>1. cmd.job \in Jobs
      BY <2>1 DEF Inv, Records, Command
    <3> QED BY <1>1, <1>3, <2>1, <3>1 DEF Inv, Records, GivenUp
  <2>2. CASE failed /\ cmd = CreateCommand(j)
    BY <1>3, <1>4, <2>2 DEF Inv, Records
  <2> QED BY <1>5, <2>1, <2>2
<1>9. ASSUME NEW k \in Jobs \ exposed' PROVE Safe(k)'
  <2>1. k \in Jobs /\ Safe(k)
    BY Unexposed
  <2>2. \A cmd \in Late' : cmd.job = k /\ cmd.value.status = "Finished" => Own(k, cmd.value)
    BY <1>4, <1>5, <2>1 DEF Safe
  <2>3. /\ Fin(store'[k]) => Own(k, store'[k])
        /\ Fin(other'[k]) => Own(k, other'[k])
    BY <1>0, <1>2, <2>1 DEF Inv, Records, Safe
  <2>4. worker'[k] = "MarkFinished" => store'[k] = Nil \/ Own(k, store'[k])
    BY <1>1, <1>2, <2>1 DEF Inv, Records, Safe
  <2> QED BY <1>1, <2>1, <2>2, <2>3, <2>4 DEF Safe, Own, Fin
<1> QED BY <1>6, <1>7, <1>8, <1>9 DEF Inv

LEMMA ModifyRecord ==
  ASSUME NEW call \in Calls, NEW j \in Jobs, NEW rec \in ScanJob
  PROVE  /\ Modify(call, j, rec) \in ScanJob
         /\ call = "MarkRunning" => Modify(call, j, rec).status = "Running"
         /\ call = "SaveReport" => Own(j, Modify(call, j, rec))
         /\ call = "MarkFinished" => Modify(call, j, rec).report = rec.report
         /\ call = "MarkFailed" => Modify(call, j, rec).status = "Failed"
<1>1. /\ call = "MarkRunning" => Modify(call, j, rec) = [rec EXCEPT !.status = "Running"]
      /\ call = "SaveReport" => Modify(call, j, rec) = [rec EXCEPT !.report = ArtifactOf[j]]
      /\ call = "MarkFinished" => Modify(call, j, rec) = [rec EXCEPT !.status = "Finished"]
      /\ call = "MarkFailed" => Modify(call, j, rec) = [rec EXCEPT !.status = "Failed"]
  BY DEF Modify, Calls
<1>2. ArtifactOf[j] \in Artifacts
  BY ScanJobsAssumption DEF ScanJobsAssumption
<1> QED BY <1>1, <1>2 DEF Calls, ScanJob, Status, Own

\* A worker that is saving its report, and is not exposed, reads the master.
LEMMA ReadKeeps ==
  ASSUME Inv, Exposing, role' = role, NEW j \in Jobs, UNCHANGED <<store, other>>, Quiet,
         ReadFrom(j, store) \/ (role = "demoted" /\ ReadFrom(j, other))
  PROVE  Inv'
<1> DEFINE copy == scanJob'[j]
<1>1. PICK rec \in ScanJob :
        /\ rec = store[j] \/ role = "demoted"
        /\ scanJob' = [scanJob EXCEPT ![j] = Modify(worker[j], j, rec)]
  BY DEF ReadFrom, Inv, Records
<1>2. worker[j] \in Calls /\ UNCHANGED <<worker, handler>>
  BY DEF ReadFrom
<1>3. copy = Modify(worker[j], j, rec) /\ \A k \in Jobs : k # j => scanJob'[k] = scanJob[k]
  BY <1>1 DEF Inv, Records
<1>4. /\ copy \in ScanJob
      /\ worker[j] = "MarkRunning" => copy.status = "Running"
      /\ worker[j] = "SaveReport" => Own(j, copy)
      /\ worker[j] = "MarkFinished" => copy.report = rec.report
      /\ worker[j] = "MarkFailed" => copy.status = "Failed"
  BY <1>2, <1>3, ModifyRecord
<1>5. Records'
  BY <1>1, <1>2, <1>3, <1>4 DEF Inv, Records, Quiet
<1> HIDE DEF copy
<1>6. Copies'
  BY <1>2, <1>3, <1>4 DEF Inv, Copies, copy
<1>7. ASSUME NEW k \in Jobs \ exposed' PROVE Safe(k)'
  <2>1. k \in Jobs /\ Safe(k)
    BY Unexposed
  <2>2. CASE k # j
    BY <1>2, <1>3, <2>1, <2>2 DEF Safe, Own, Quiet
  <2>3. CASE k = j /\ worker[j] \in Saving
    <3>1. rec = store[j] /\ role # "demoted" /\ rec # Nil
      BY <1>1, <2>1, <2>3, ScanJobsAssumption DEF Safe, ScanJobsAssumption
    <3>2. Own(j, copy)
      BY <1>4, <2>1, <2>3, <3>1 DEF Safe, Saving, Own
    <3> QED BY <1>2, <2>1, <2>3, <3>2 DEF Safe, Own, Quiet, copy
  <2>4. CASE k = j /\ worker[j] \notin Saving
    BY <1>2, <2>1, <2>4 DEF Safe, Own, Quiet
  <2> QED BY <2>2, <2>3, <2>4
<1>8. GivenUp'
  BY <1>2 DEF Inv, GivenUp, Quiet
<1> QED BY <1>5, <1>6, <1>7, <1>8 DEF Inv

\* A worker that is saving its report, and is not exposed, writes to the master.
LEMMA WriteKeeps ==
  ASSUME Inv, Exposing, role' = role, NEW j \in Jobs, NEW failed \in BOOLEAN,
         \/ Written(j, store, store', failed) /\ other' = other
         \/ role = "demoted" /\ Written(j, other, other', failed) /\ store' = store
  PROVE  Inv'
<1>1. /\ worker[j] \in Calls /\ scanJob[j] # Nil /\ scanJob[j] \in ScanJob
      /\ worker' = [worker EXCEPT ![j] = IF failed THEN OnError(worker[j]) ELSE OnSuccess(worker[j])]
      /\ scanJob' = [scanJob EXCEPT ![j] = Nil]
      /\ handler' = handler
  BY DEF Written, Inv, Records
<1>2. /\ store' = store \/ store' = [store EXCEPT ![j] = scanJob[j]]
      /\ other' = other \/ other' = [other EXCEPT ![j] = scanJob[j]]
      /\ role # "demoted" /\ ~failed => store[j] = Nil \/ store' = [store EXCEPT ![j] = scanJob[j]]
  BY DEF Written
<1>3. /\ worker'[j] \in {"Scan", "MarkFinished", "MarkFailed", "done"}
      /\ worker'[j] = "MarkFinished" => worker[j] = "SaveReport" /\ ~failed
      /\ \A k \in Jobs : k # j => worker'[k] = worker[k] /\ scanJob'[k] = scanJob[k]
      /\ scanJob'[j] = Nil
  BY <1>1, NextStep DEF Inv, Records, Calls
<1>4. /\ UpdateCommand(j, scanJob[j]) \in Command /\ UpdateCommand(j, scanJob[j]).job = j
      /\ UpdateCommand(j, scanJob[j]).cond = "XX"
      /\ UpdateCommand(j, scanJob[j]).value = scanJob[j]
  BY <1>1 DEF UpdateCommand, Command
<1>5. \A cmd \in Late' : cmd \in Late \/ (failed /\ cmd = UpdateCommand(j, scanJob[j]))
  BY DEF Written
<1>6. Records'
  <2>1. worker' \in [Jobs -> WorkerState]
    BY <1>1, <1>3 DEF Inv, Records, WorkerState, Calls
  <2>2. Late' \subseteq Command
    BY <1>4, <1>5 DEF Inv, Records
  <2> QED BY <1>1, <1>2, <2>1, <2>2 DEF Inv, Records
<1>7. Copies'
  <2>1. handler[j] \notin {"idle", "submitting", "rejected"}
    BY <1>1 DEF Inv, Copies, Calls
  <2> QED BY <1>1, <1>3, <2>1 DEF Inv, Copies
<1>8. GivenUp'
  <2>1. failed => worker'[j] \in {"MarkFailed", "done"}
    BY <1>1, NextStep DEF Inv, Records
  <2> SUFFICES ASSUME NEW cmd \in Late'
               PROVE  /\ cmd.cond = "NX" => handler'[cmd.job] = "rejected" /\ cmd.value.status = "Pending"
                      /\ cmd.cond = "XX" => worker'[cmd.job] \in {"MarkFailed", "done", "lost"}
    BY DEF GivenUp
  <2>2. CASE cmd \in Late
    <3>1. cmd.job \in Jobs
      BY <2>2 DEF Inv, Records, Command
    <3>2. worker[j] \in {"MarkFailed", "done", "lost"} => worker'[j] = "done"
      BY <1>1, NextStep DEF Calls, Inv, Records
    <3> QED BY <1>1, <1>3, <2>2, <3>1, <3>2 DEF Inv, GivenUp
  <2>3. CASE failed /\ cmd = UpdateCommand(j, scanJob[j])
    BY <1>3, <1>4, <2>1, <2>3
  <2> QED BY <1>5, <2>2, <2>3
<1>9. ASSUME NEW k \in Jobs \ exposed' PROVE Safe(k)'
  <2>1. k \in Jobs /\ Safe(k) /\ (role' = "demoted" => worker'[k] \notin Saving)
    BY Unexposed
  <2>2. CASE k # j
    <3>1. store'[k] = store[k] /\ other'[k] = other[k]
      BY <1>2, <2>1, <2>2 DEF Inv, Records
    <3>2. \A cmd \in Late' : cmd.job = k /\ cmd.value.status = "Finished" => Own(k, cmd.value)
      BY <1>4, <1>5, <2>1, <2>2 DEF Safe
    <3> QED BY <1>3, <2>1, <2>2, <3>1, <3>2 DEF Safe, Own, Fin
  <2>3. CASE k = j
    <3>1. Fin(scanJob[j]) => Own(j, scanJob[j])
      BY <1>1, <2>1, <2>3 DEF Inv, Copies, Safe, Fin, Calls, Saving
    <3>2. (Fin(store'[j]) => Own(j, store'[j])) /\ (Fin(other'[j]) => Own(j, other'[j]))
      BY <1>2, <2>1, <2>3, <3>1 DEF Inv, Records, Safe
    <3>3. worker'[j] = "MarkFinished" => store'[j] = Nil \/ Own(j, store'[j])
      <4> SUFFICES ASSUME worker'[j] = "MarkFinished" PROVE store'[j] = Nil \/ Own(j, store'[j])
        OBVIOUS
      <4>1. worker[j] = "SaveReport" /\ ~failed /\ role # "demoted"
        BY <1>3, <2>1, <2>3 DEF Safe, Saving
      <4>2. Own(j, scanJob[j])
        BY <1>1, <2>1, <2>3, <4>1 DEF Safe, Saving
      <4> QED BY <1>2, <4>1, <4>2 DEF Inv, Records
    <3>4. \A cmd \in Late' : cmd.job = j /\ cmd.value.status = "Finished" => Own(j, cmd.value)
      BY <1>1, <1>4, <1>5, <2>1, <2>3, <3>1, ScanJobsAssumption DEF Safe, Fin, ScanJobsAssumption
    <3> QED BY <1>3, <2>1, <2>3, <3>2, <3>3, <3>4 DEF Safe, Own, Fin
  <2> QED BY <2>2, <2>3
<1> QED BY <1>6, <1>7, <1>8, <1>9 DEF Inv

LEMMA ExpireKeeps ==
  ASSUME Inv, Exposing, NEW j \in Jobs, UNCHANGED <<role, handler, worker, scanJob>>, Quiet,
         \/ store' = [store EXCEPT ![j] = Nil] /\ other' = other
         \/ other' = [other EXCEPT ![j] = Nil] /\ store' = store
  PROVE  Inv'
<1>1. Records' /\ Copies' /\ GivenUp'
  BY DEF Inv, Records, Copies, GivenUp, Quiet, Command
<1>2. ASSUME NEW k \in Jobs \ exposed' PROVE Safe(k)'
  <2>1. k \in Jobs /\ Safe(k)
    BY Unexposed
  <2> QED BY <2>1 DEF Inv, Records, Quiet, Safe, Own, Fin
<1> QED BY <1>1, <1>2 DEF Inv

\* A step in which a worker goes on, or ends, without a copy.
LEMMA MoveKeeps ==
  ASSUME Inv, Exposing, NEW j \in Jobs, UNCHANGED <<store, other, role, scanJob>>, Quiet,
         scanJob[j] = Nil,
         NEW h \in HandlerState, handler' = [handler EXCEPT ![j] = h],
         NEW w \in WorkerState, worker' = [worker EXCEPT ![j] = w],
         h \in {"idle", "submitting", "rejected"} => w = "none",
         handler[j] = "rejected" => h = "rejected",
         worker[j] \in {"MarkFailed", "done", "lost"} => w \in {"MarkFailed", "done", "lost"},
         w # "MarkFinished" \/ worker[j] = "MarkFinished"
  PROVE  Inv'
<1>1. Records' /\ Copies' /\ GivenUp'
  BY DEF Inv, Records, Copies, GivenUp, Quiet, Command
<1>2. ASSUME NEW k \in Jobs \ exposed' PROVE Safe(k)'
  <2>1. k \in Jobs /\ Safe(k) /\ (role' = "demoted" => worker'[k] \notin Saving)
    BY Unexposed
  <2>2. CASE k = j
    BY <2>1, <2>2 DEF Inv, Records, Quiet, Safe, Own, Fin, Saving
  <2>3. CASE k # j
    BY <2>1, <2>3 DEF Inv, Records, Quiet, Safe, Own, Fin, Saving
  <2> QED BY <2>2, <2>3
<1> QED BY <1>1, <1>2 DEF Inv

LEMMA DieKeeps ==
  ASSUME Inv, Exposing, NEW r \in Replicas, Die(r), UNCHANGED <<store, other, role>>, Quiet
  PROVE  Inv'
<1>1. \A j \in Jobs :
        /\ worker'[j] = worker[j] \/ (worker[j] \in ActiveWorker /\ worker'[j] = "lost")
        /\ handler'[j] = handler[j] \/ handler'[j] = "lost"
        /\ scanJob'[j] = Nil \/ (scanJob'[j] = scanJob[j] /\ worker'[j] = worker[j])
  BY DEF Die
<1>2. Records'
  BY DEF Die, Inv, Records, Quiet, HandlerState, WorkerState
<1>3. Copies'
  BY <1>1 DEF Inv, Copies, ActiveWorker, Calls
<1>4. ASSUME NEW k \in Jobs \ exposed' PROVE Safe(k)'
  <2>1. k \in Jobs /\ Safe(k)
    BY Unexposed
  <2> QED BY <1>1, <2>1 DEF Quiet, Safe, Own, Fin, Saving
<1>5. GivenUp'
  <2>1. \A j \in Jobs :
          /\ handler[j] = "rejected" => handler'[j] = "rejected"
          /\ worker[j] \in {"MarkFailed", "done", "lost"} => worker'[j] \in {"MarkFailed", "done", "lost"}
    BY DEF Die, ActiveWorker, Calls
  <2> QED BY <2>1 DEF Inv, Records, GivenUp, Quiet, Command
<1> QED BY <1>2, <1>3, <1>4, <1>5 DEF Inv

\* Replication, promotion and the return of the demoted server.
LEMMA ServersKeep ==
  ASSUME Inv, Exposing, UNCHANGED <<handler, worker, scanJob>>, Quiet,
         \/ store' = store /\ other' = store /\ role' = "replica"
         \/ store' = other /\ other' = store /\ role' = "demoted"
  PROVE  Inv'
<1>1. Records' /\ Copies' /\ GivenUp'
  BY DEF Inv, Records, Copies, GivenUp, Quiet, Command
<1>2. ASSUME NEW k \in Jobs \ exposed' PROVE Safe(k)'
  <2>1. k \in Jobs /\ Safe(k) /\ (role' = "demoted" => worker'[k] \notin Saving)
    BY Unexposed
  <2> QED BY <2>1 DEF Quiet, Safe, Own, Fin, Saving
<1> QED BY <1>1, <1>2 DEF Inv

\* A command that was given up is executed, by whatever server.
LEMMA LateKeeps ==
  ASSUME Inv, Exposing, UNCHANGED <<role, handler, worker, scanJob>>, Quiet, NEW cmd \in Late,
         \/ store' \in {store, [store EXCEPT ![cmd.job] = cmd.value]} /\ other' = other
         \/ other' \in {other, [other EXCEPT ![cmd.job] = cmd.value]} /\ store' = store
  PROVE  Inv'
<1> DEFINE j == cmd.job
<1>1. j \in Jobs /\ cmd.value \in ScanJob /\ cmd.cond \in {"NX", "XX"}
  BY DEF Inv, Records, Command
<1>2. worker[j] \notin Saving
  BY <1>1 DEF Inv, GivenUp, Copies, Saving
<1>3. Records' /\ Copies' /\ GivenUp'
  BY <1>1 DEF Inv, Records, Copies, GivenUp, Quiet
<1>4. ASSUME NEW k \in Jobs \ exposed' PROVE Safe(k)'
  <2>1. k \in Jobs /\ Safe(k)
    BY Unexposed
  <2>2. /\ Fin(store'[k]) => Own(k, store'[k])
        /\ Fin(other'[k]) => Own(k, other'[k])
    BY <1>1, <2>1 DEF Inv, Records, Safe, Fin
  <2>3. worker[k] = "MarkFinished" => store'[k] = store[k]
    BY <1>1, <1>2, <2>1 DEF Inv, Records, Saving
  <2> QED BY <2>1, <2>2, <2>3 DEF Quiet, Safe, Own, Fin
<1> QED BY <1>3, <1>4 DEF Inv

LEMMA StutterKeeps ==
  ASSUME Inv, exposed \subseteq exposed',
         UNCHANGED <<store, other, role, handler, worker, scanJob>>, Quiet
  PROVE  Inv'
BY DEF Inv, Records, Copies, GivenUp, Quiet, Safe, Own, Fin

-----------------------------------------------------------------------------
LEMMA InvNext == ASSUME Inv, [FailoverNext]_allVars PROVE Inv'
<1>1. CASE UNCHANGED allVars
  BY <1>1, StutterKeeps DEF allVars, vars, second, Quiet, Late
<1>2. CASE FailoverNext
  <2>1. Exposing
    BY <1>2 DEF FailoverNext, Exposing
  <2>2. CASE Replicate \/ Promote \/ Rejoin
    BY <2>1, <2>2, ServersKeep DEF Replicate, Promote, Rejoin, vars, Quiet, Late
  <2>3. ASSUME NEW j \in Jobs, CallDemoted(j) PROVE Inv'
    <3>1. role = "demoted" /\ role' = role /\ UNCHANGED <<store, inflight>>
      BY <2>3 DEF CallDemoted
    <3>7. otherInflight' = otherInflight => Quiet
      BY <3>1 DEF Quiet, Late
    <3>2. CASE Demoted!EnqueueCreate(j)
      BY <2>1, <3>1, <3>2, CreateKeeps, DemotedCreates
    <3>3. CASE Demoted!ReadRecord(j)
      BY <2>1, <3>7, <3>1, <3>3, ReadKeeps, DemotedReads
    <3>4. CASE Demoted!ReadExpired(j)
      <4>1. Die(HostOf[j]) /\ UNCHANGED <<other, otherInflight>>
        BY <3>4 DEF Demoted!ReadExpired, Demoted!Die, Demoted!ActiveWorker, Demoted!Calls, Demoted!redis,
           Die, ActiveWorker, Calls
      <4> QED BY <2>1, <3>7, <3>1, <4>1, DieKeeps, ScanJobsAssumption DEF ScanJobsAssumption
    <3>5. CASE Demoted!WriteRecord(j)
      BY <2>1, <3>1, <3>5, WriteKeeps, DemotedWrites
    <3>6. CASE Demoted!Expire(j)
      BY <2>1, <3>7, <3>1, <3>6, ExpireKeeps DEF Demoted!Expire
    <3> QED BY <2>3, <3>2, <3>3, <3>4, <3>5, <3>6 DEF CallDemoted
  <2>4. CASE ExecuteDemoted
    <3>1. PICK cmd \in otherInflight : Demoted!ExecuteLate(cmd)
      BY <2>4 DEF ExecuteDemoted
    <3>2. /\ cmd \in Late /\ Quiet
          /\ UNCHANGED <<store, role, handler, worker, scanJob>>
      BY <2>4, <3>1 DEF ExecuteDemoted, Demoted!ExecuteLate, Quiet, Late
    <3>3. other' \in {other, [other EXCEPT ![cmd.job] = cmd.value]}
      BY <3>1 DEF Demoted!ExecuteLate, Demoted!Execute
    <3> QED BY <2>1, <3>2, <3>3, LateKeeps
  <2>5. CASE CallMaster
    <3>1. UNCHANGED <<role, other, otherInflight>>
      BY <2>5 DEF CallMaster, second
    <3>14. inflight' = inflight => Quiet
      BY <3>1 DEF Quiet, Late
    <3>2. ASSUME NEW j \in Jobs, EnqueueCreate(j) PROVE Inv'
      BY <2>1, <3>1, <3>2, CreateKeeps, MasterCreates
    <3>3. ASSUME NEW j \in Jobs, EnqueueRun(j) \/ Accept(j) PROVE Inv'
      <4>1. handler[j] = "submitting" => scanJob[j] = Nil /\ worker[j] = "none"
        BY DEF Inv, Copies, Calls
      <4>2. CASE EnqueueRun(j)
        BY <2>1, <3>14, <3>1, <4>1, <4>2, MoveKeeps DEF EnqueueRun, HandlerState, WorkerState, Calls
      <4>3. CASE Accept(j)
        <5>1. handler[j] = "replying" /\ handler' = [handler EXCEPT ![j] = "accepted"]
              /\ UNCHANGED <<store, inflight, worker, scanJob>>
          BY <4>3 DEF Accept
        <5>2. Records' /\ Copies' /\ GivenUp'
          BY <3>14, <3>1, <5>1 DEF Inv, Records, Copies, GivenUp, HandlerState, Quiet
        <5>3. ASSUME NEW k \in Jobs \ exposed' PROVE Safe(k)'
          BY <2>1, <3>14, <3>1, <5>1, Unexposed DEF Safe, Own, Fin, Quiet
        <5> QED BY <5>2, <5>3 DEF Inv
      <4> QED BY <3>3, <4>2, <4>3
    <3>4. ASSUME NEW j \in Jobs, ReadRecord(j) PROVE Inv'
      BY <2>1, <3>14, <3>1, <3>4, ReadKeeps, MasterReads
    <3>5. ASSUME NEW j \in Jobs, ReadFails(j) PROVE Inv'
      <4>1. /\ handler' = [handler EXCEPT ![j] = handler[j]] /\ handler[j] \in HandlerState
            /\ handler[j] \notin {"idle", "submitting", "rejected"}
            /\ UNCHANGED <<store, inflight, scanJob>> /\ scanJob[j] = Nil
        BY <3>5 DEF ReadFails, Inv, Records, Copies, Calls
      <4>2. OnError(worker[j]) \in {"MarkFailed", "done"}
            /\ worker' = [worker EXCEPT ![j] = OnError(worker[j])]
        BY <3>5, NextStep DEF ReadFails
      <4> QED BY <2>1, <3>14, <3>1, <4>1, <4>2, MoveKeeps DEF WorkerState, Calls
    <3>6. ASSUME NEW r \in Replicas, Die(r), UNCHANGED redis PROVE Inv'
      BY <2>1, <3>14, <3>1, <3>6, DieKeeps DEF redis
    <3>7. ASSUME NEW j \in Jobs, ReadExpired(j) PROVE Inv'
      BY <3>6, <3>7, ScanJobsAssumption DEF ReadExpired, ScanJobsAssumption
    <3>8. ASSUME NEW j \in Jobs, WriteRecord(j) PROVE Inv'
      BY <2>1, <3>1, <3>8, WriteKeeps, MasterWrites
    <3>9. ASSUME NEW j \in Jobs, Scan(j) PROVE Inv'
      <4>1. CASE Die(HostOf[j])
        BY <3>6, <3>9, <4>1, ScanJobsAssumption DEF Scan, ScanJobsAssumption
      <4>2. CASE ~Die(HostOf[j])
        <5>1. /\ handler' = [handler EXCEPT ![j] = handler[j]] /\ handler[j] \in HandlerState
              /\ handler[j] \notin {"idle", "submitting", "rejected"}
              /\ UNCHANGED <<store, inflight, scanJob>> /\ scanJob[j] = Nil
              /\ worker[j] = "Scan"
          BY <3>9, <4>2 DEF Scan, redis, Inv, Records, Copies, Calls
        <5>2. PICK w \in {"SaveReport", "MarkFailed"} : worker' = [worker EXCEPT ![j] = w]
          BY <3>9, <4>2, NextStep DEF Scan
        <5> QED BY <2>1, <3>14, <3>1, <5>1, <5>2, MoveKeeps DEF WorkerState, Calls
      <4> QED BY <4>1, <4>2
    <3>10. ASSUME NEW j \in Jobs, Expire(j) PROVE Inv'
      BY <2>1, <3>14, <3>1, <3>10, ExpireKeeps DEF Expire
    <3>11. ASSUME NEW r \in Replicas, Crash(r) PROVE Inv'
      BY <3>6, <3>11 DEF Crash
    <3>12. ASSUME NEW r \in Replicas, Restart(r) PROVE Inv'
      BY <2>1, <3>14, <3>1, <3>12, StutterKeeps DEF Restart, Exposing
    <3>13. ASSUME NEW cmd \in inflight, ExecuteLate(cmd) PROVE Inv'
      <4>1. cmd \in Late /\ Quiet /\ UNCHANGED <<handler, worker, scanJob>>
        BY <3>1, <3>13 DEF ExecuteLate, Quiet, Late
      <4>2. store' \in {store, [store EXCEPT ![cmd.job] = cmd.value]}
        BY <3>13 DEF ExecuteLate, Execute
      <4> QED BY <2>1, <3>1, <4>1, <4>2, LateKeeps
    <3> QED BY <2>5, <3>2, <3>3, <3>4, <3>5, <3>7, <3>8, <3>9, <3>10, <3>11, <3>12, <3>13
            DEF CallMaster, Next, Handler, Worker
  <2> QED BY <1>2, <2>2, <2>3, <2>4, <2>5 DEF FailoverNext
<1> QED BY <1>1, <1>2

\* A record that says Finished lacks its report only if a failover came between
\* the two calls that save and mark it, whatever else fails, is lost or is executed
\* late, and in however many failovers.
THEOREM OnlyFailoversLoseReports == FailoverSpec => []ReportLostOnlyInFailover
<1>1. Inv => ReportLostOnlyInFailover
  BY DEF Inv, Safe, Fin, ReportLostOnlyInFailover
<1> QED BY <1>1, InitInv, InvNext, PTL DEF FailoverSpec
=============================================================================
