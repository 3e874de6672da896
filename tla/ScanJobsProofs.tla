--------------------------- MODULE ScanJobsProofs ---------------------------
(***************************************************************************)
(* Theorems about ScanJobs for any sets of jobs, artifacts and replicas    *)
(* and any choice of faults.                                               *)
(***************************************************************************)
EXTENDS ScanJobs, TLAPS

\* A call's change of a record is a record, and sets what the call is for.
LEMMA ModifyRecord ==
  ASSUME NEW call \in Calls, NEW j \in Jobs, NEW rec \in ScanJob
  PROVE  /\ Modify(call, j, rec) \in ScanJob
         /\ call = "MarkRunning" => Modify(call, j, rec) = [rec EXCEPT !.status = "Running"]
         /\ call = "SaveReport" => Modify(call, j, rec) = [rec EXCEPT !.report = ArtifactOf[j]]
         /\ call = "MarkFinished" => Modify(call, j, rec) = [rec EXCEPT !.status = "Finished"]
         /\ call = "MarkFailed" => Modify(call, j, rec) = [rec EXCEPT !.status = "Failed"]
BY ScanJobsAssumption DEF ScanJobsAssumption, Modify, Calls, ScanJob, Status

\* Where a worker goes next.
LEMMA NextStep ==
  /\ OnSuccess("MarkRunning") = "Scan"
  /\ OnSuccess("Scan") = "SaveReport"
  /\ OnSuccess("SaveReport") = "MarkFinished"
  /\ OnSuccess("MarkFinished") = "done"
  /\ OnSuccess("MarkFailed") = "done"
  /\ OnError("MarkFailed") = "done"
  /\ \A step : step # "MarkFailed" => OnError(step) = "MarkFailed"
BY DEF OnSuccess, OnError

\* The commands of the store are commands.
LEMMA StoreCommands ==
  ASSUME NEW j \in Jobs, NEW rec \in ScanJob
  PROVE  CreateCommand(j) \in Command /\ UpdateCommand(j, rec) \in Command
BY DEF CreateCommand, UpdateCommand, Command, ScanJob, Status

\* What one SET may do to Redis and to the commands in flight.
LEMMA DoEffect ==
  ASSUME NEW cmd \in Command, NEW failed \in BOOLEAN, Do(cmd, failed)
  PROVE  /\ inflight' = inflight \/ (failed /\ inflight' = inflight \cup {cmd} /\ store' = store)
         /\ store' = store \/ (Applies(cmd) /\ store' = [store EXCEPT ![cmd.job] = cmd.value])
         /\ ~failed /\ Applies(cmd) => store' = [store EXCEPT ![cmd.job] = cmd.value]
         /\ volatile' \in {volatile, volatile \cup {cmd.job}, volatile \ {cmd.job}}
BY DEF Do, Execute, redis

LEMMA ExecuteEffect ==
  ASSUME NEW cmd \in Command, Execute(cmd)
  PROVE  /\ store' = store \/ (Applies(cmd) /\ store' = [store EXCEPT ![cmd.job] = cmd.value])
         /\ volatile' \in {volatile, volatile \cup {cmd.job}, volatile \ {cmd.job}}
BY DEF Execute

-----------------------------------------------------------------------------
LEMMA TypeInit == Init => TypeOK
BY DEF Init, TypeOK, HandlerState, WorkerState

LEMMA TypeNext == TypeOK /\ [Next]_vars => TypeOK'
<1> SUFFICES ASSUME TypeOK, [Next]_vars PROVE TypeOK'
  OBVIOUS
<1> USE DEF TypeOK
<1>1. ASSUME NEW j \in Jobs, EnqueueCreate(j) PROVE TypeOK'
  <2>1. PICK failed \in BOOLEAN : Do(CreateCommand(j), failed)
    BY <1>1 DEF EnqueueCreate
  <2>2. [status |-> "Pending", report |-> Nil] \in ScanJob
    BY DEF ScanJob, Status
  <2>3. CreateCommand(j) \in Command /\ CreateCommand(j).job = j /\ CreateCommand(j).value \in ScanJob
    BY <2>2, StoreCommands DEF CreateCommand
  <2>4. store' \in [Jobs -> ScanJob \cup {Nil}] /\ volatile' \subseteq Jobs /\ inflight' \subseteq Command
    BY <2>1, <2>3, DoEffect
  <2> QED BY <1>1, <2>4 DEF EnqueueCreate, HandlerState
<1>2. ASSUME NEW j \in Jobs, EnqueueRun(j) PROVE TypeOK'
  BY <1>2 DEF EnqueueRun, HandlerState, WorkerState, Calls
<1>3. ASSUME NEW j \in Jobs, Accept(j) PROVE TypeOK'
  BY <1>3 DEF Accept, HandlerState
<1>4. ASSUME NEW j \in Jobs, ReadRecord(j) PROVE TypeOK'
  BY <1>4, ModifyRecord DEF ReadRecord
<1>5. ASSUME NEW j \in Jobs, ReadFails(j) PROVE TypeOK'
  BY <1>5 DEF ReadFails, WorkerState, Calls, OnError
<1>6. ASSUME NEW r \in Replicas, Die(r), UNCHANGED redis PROVE TypeOK'
  BY <1>6 DEF Die, redis, HandlerState, WorkerState
<1>7. ASSUME NEW j \in Jobs, ReadExpired(j) PROVE TypeOK'
  BY <1>6, <1>7, ScanJobsAssumption DEF ReadExpired, ScanJobsAssumption
<1>8. ASSUME NEW j \in Jobs, WriteRecord(j) PROVE TypeOK'
  <2>1. scanJob[j] \in ScanJob /\ worker[j] \in Calls
    BY <1>8 DEF WriteRecord
  <2>2. PICK failed \in BOOLEAN :
          /\ Do(UpdateCommand(j, scanJob[j]), failed)
          /\ worker' = [worker EXCEPT ![j] =
                          IF failed THEN OnError(worker[j]) ELSE OnSuccess(worker[j])]
    BY <1>8 DEF WriteRecord
  <2>3. /\ UpdateCommand(j, scanJob[j]) \in Command
        /\ UpdateCommand(j, scanJob[j]).job = j
        /\ UpdateCommand(j, scanJob[j]).value = scanJob[j]
    BY <2>1, StoreCommands DEF UpdateCommand
  <2>4. store' \in [Jobs -> ScanJob \cup {Nil}] /\ volatile' \subseteq Jobs /\ inflight' \subseteq Command
    BY <2>1, <2>2, <2>3, DoEffect
  <2>5. worker' \in [Jobs -> WorkerState]
    BY <2>1, <2>2, NextStep DEF Calls, WorkerState
  <2> QED BY <1>8, <2>4, <2>5 DEF WriteRecord
<1>9. ASSUME NEW j \in Jobs, Scan(j) PROVE TypeOK'
  <2>1. CASE Die(HostOf[j])
    BY <1>6, <1>9, <2>1, ScanJobsAssumption DEF Scan, ScanJobsAssumption
  <2>2. CASE ~Die(HostOf[j])
    BY <1>9, <2>2, NextStep DEF Scan, redis, WorkerState, Calls
  <2> QED BY <2>1, <2>2
<1>10. ASSUME NEW j \in Jobs, Expire(j) PROVE TypeOK'
  BY <1>10 DEF Expire
<1>11. ASSUME NEW r \in Replicas, Crash(r) PROVE TypeOK'
  BY <1>6, <1>11 DEF Crash
<1>12. ASSUME NEW r \in Replicas, Restart(r) PROVE TypeOK'
  BY <1>12 DEF Restart
<1>13. ASSUME NEW cmd \in inflight, ExecuteLate(cmd) PROVE TypeOK'
  <2>1. cmd \in Command /\ cmd.job \in Jobs /\ cmd.value \in ScanJob
    BY DEF Command
  <2> QED BY <1>13, <2>1, ExecuteEffect DEF ExecuteLate
<1>14. CASE UNCHANGED vars
  BY <1>14 DEF vars
<1> QED
  BY <1>1, <1>2, <1>3, <1>4, <1>5, <1>7, <1>8, <1>9, <1>10, <1>11, <1>12, <1>13, <1>14
  DEF Next, Handler, Worker

\* Type correctness: every variable keeps its type under every step of the
\* handlers, workers, replicas and Redis.
THEOREM TypeCorrect == Spec => []TypeOK
BY TypeInit, TypeNext, PTL DEF Spec

-----------------------------------------------------------------------------
LEMMA RecordInit == Init => RecordInv
BY DEF Init, RecordInv, ReportsInPlace, ReportBeforeMark, CopyIsMarked, LateWritesAreAbandoned,
       WorkerNeedsSubmit, OpenWhileWorking, NothingReopens, Own, Closed

\* The death of a replica disturbs nothing: what it forgets are copies, and a
\* lost worker writes no more.
LEMMA DieKeepsInv ==
  ASSUME TypeOK, RecordInv, NEW r \in Replicas, Die(r), UNCHANGED redis
  PROVE  RecordInv'
<1>1. \A j \in Jobs : worker'[j] = worker[j] \/ (worker[j] \in ActiveWorker /\ worker'[j] = "lost")
  BY DEF Die
<1>2. \A j \in Jobs : handler'[j] = handler[j]
                      \/ (handler[j] \in {"submitting", "replying"} /\ handler'[j] = "lost")
  BY DEF Die
<1>3. \A j \in Jobs : scanJob'[j] = Nil \/ (scanJob'[j] = scanJob[j] /\ worker'[j] = worker[j])
  BY DEF Die
<1>4. store' = store /\ inflight' = inflight /\ \A cmd \in inflight : cmd.job \in Jobs
  BY DEF redis, TypeOK, Command
<1> USE DEF RecordInv
<1>5. ReportsInPlace'
  BY <1>3, <1>4 DEF ReportsInPlace, Own
<1>6. ReportBeforeMark'
  BY <1>1, <1>3, <1>4 DEF ReportBeforeMark, Own
<1>7. CopyIsMarked'
  BY <1>3 DEF CopyIsMarked
<1>8. LateWritesAreAbandoned'
  BY <1>1, <1>2, <1>4 DEF LateWritesAreAbandoned, ActiveWorker, Calls
<1>9. WorkerNeedsSubmit'
  BY <1>1, <1>2, <1>4 DEF WorkerNeedsSubmit, ActiveWorker, Calls
<1>10. OpenWhileWorking'
  BY <1>1, <1>4 DEF OpenWhileWorking
<1>11. NothingReopens'
  BY <1>4 DEF NothingReopens
<1> QED BY <1>5, <1>6, <1>7, <1>8, <1>9, <1>10, <1>11

LEMMA EnqueueCreateKeepsInv ==
  ASSUME TypeOK, RecordInv, NEW j \in Jobs, EnqueueCreate(j)
  PROVE  RecordInv'
<1> DEFINE cmd == CreateCommand(j)
<1>1. PICK failed \in BOOLEAN :
        /\ Do(cmd, failed)
        /\ handler' = [handler EXCEPT ![j] = IF failed THEN "rejected" ELSE "submitting"]
  BY DEF EnqueueCreate
<1>2. /\ cmd \in Command /\ cmd.job = j /\ cmd.cond = "NX"
      /\ cmd.value = [status |-> "Pending", report |-> Nil]
  BY DEF CreateCommand, Command, ScanJob, Status
<1>3. handler[j] = "idle" /\ worker' = worker /\ scanJob' = scanJob /\ worker[j] = "none"
  BY DEF EnqueueCreate, RecordInv, WorkerNeedsSubmit
<1>4. /\ inflight' = inflight \/ (failed /\ inflight' = inflight \cup {cmd})
      /\ store' = store \/ store' = [store EXCEPT ![j] = cmd.value]
  BY <1>1, <1>2, DoEffect
<1>5. \A c \in inflight : c.job \in Jobs /\ c.job # j /\ c.cond \in {"NX", "XX"}
  BY <1>3 DEF RecordInv, LateWritesAreAbandoned, TypeOK, Command
<1> HIDE DEF cmd
<1> USE DEF RecordInv, TypeOK
<1>6. ReportsInPlace'
  BY <1>2, <1>3, <1>4 DEF ReportsInPlace, Own
<1>7. ReportBeforeMark'
  BY <1>2, <1>3, <1>4 DEF ReportBeforeMark, Own
<1>8. CopyIsMarked'
  BY <1>3 DEF CopyIsMarked
<1>9. LateWritesAreAbandoned'
  BY <1>1, <1>2, <1>3, <1>4, <1>5 DEF LateWritesAreAbandoned
<1>10. WorkerNeedsSubmit'
  BY <1>1, <1>2, <1>3, <1>4 DEF WorkerNeedsSubmit
<1>11. OpenWhileWorking'
  BY <1>2, <1>3, <1>4 DEF OpenWhileWorking, Closed
<1>12. NothingReopens'
  BY <1>2, <1>3, <1>4, <1>5 DEF NothingReopens, Closed, OpenWhileWorking
<1> QED BY <1>6, <1>7, <1>8, <1>9, <1>10, <1>11, <1>12

LEMMA ReadRecordKeepsInv ==
  ASSUME TypeOK, RecordInv, NEW j \in Jobs, ReadRecord(j)
  PROVE  RecordInv'
<1> DEFINE copy == Modify(worker[j], j, store[j])
<1>1. worker[j] \in Calls /\ store[j] # Nil /\ store[j] \in ScanJob
  BY DEF ReadRecord, TypeOK
<1>2. scanJob' = [scanJob EXCEPT ![j] = copy]
      /\ UNCHANGED <<store, volatile, inflight, up, handler, worker>>
  BY DEF ReadRecord
<1>3. worker[j] \in {"MarkRunning", "SaveReport", "MarkFinished"} => store[j].status \notin Closed
  BY <1>1 DEF RecordInv, OpenWhileWorking
<1>4. /\ copy \in ScanJob
      /\ worker[j] = "MarkRunning" => copy.status = "Running"
      /\ worker[j] = "SaveReport" => copy.status = store[j].status /\ Own(j, copy)
      /\ worker[j] = "MarkFinished" => copy.status = "Finished" /\ copy.report = store[j].report
      /\ worker[j] = "MarkFailed" => copy.status = "Failed"
  BY <1>1, ModifyRecord DEF ScanJob, Own
<1> HIDE DEF copy
<1> USE DEF RecordInv, TypeOK
<1>5. worker[j] = "MarkFinished" => Own(j, copy)
  BY <1>1, <1>4 DEF ReportBeforeMark, Own
<1>6. ReportsInPlace'
  BY <1>1, <1>2, <1>3, <1>4, <1>5 DEF ReportsInPlace, Own, Calls, Closed
<1>7. ReportBeforeMark'
  BY <1>2, <1>4, <1>5 DEF ReportBeforeMark, Own
<1>8. CopyIsMarked'
  BY <1>1, <1>2, <1>3, <1>4 DEF CopyIsMarked, Closed
<1>9. LateWritesAreAbandoned' /\ WorkerNeedsSubmit' /\ OpenWhileWorking' /\ NothingReopens'
  BY <1>2 DEF LateWritesAreAbandoned, WorkerNeedsSubmit, OpenWhileWorking, NothingReopens
<1> QED BY <1>6, <1>7, <1>8, <1>9

LEMMA WriteRecordKeepsInv ==
  ASSUME TypeOK, RecordInv, NEW j \in Jobs, WriteRecord(j)
  PROVE  RecordInv'
<1> DEFINE cmd == UpdateCommand(j, scanJob[j])
<1>1. worker[j] \in Calls /\ scanJob[j] # Nil /\ scanJob[j] \in ScanJob
  BY DEF WriteRecord, TypeOK
<1>2. PICK failed \in BOOLEAN :
        /\ Do(cmd, failed)
        /\ worker' = [worker EXCEPT ![j] =
                        IF failed THEN OnError(worker[j]) ELSE OnSuccess(worker[j])]
  BY DEF WriteRecord
<1>3. cmd \in Command /\ cmd.job = j /\ cmd.cond = "XX" /\ cmd.value = scanJob[j]
  BY <1>1 DEF UpdateCommand, Command
<1>4. handler' = handler /\ scanJob' = [scanJob EXCEPT ![j] = Nil]
  BY DEF WriteRecord
<1>5. /\ inflight' = inflight \/ (failed /\ inflight' = inflight \cup {cmd} /\ store' = store)
      /\ store' = store \/ store' = [store EXCEPT ![j] = scanJob[j]]
      /\ ~failed => store[j] = Nil \/ store' = [store EXCEPT ![j] = scanJob[j]]
      /\ store[j] = Nil => store'[j] = Nil
  BY <1>2, <1>3, DoEffect DEF Applies, TypeOK
<1>6. /\ worker[j] = "MarkFailed" => worker'[j] = "done"
      /\ worker[j] = "MarkFinished" => worker'[j] \in {"MarkFailed", "done"}
      /\ worker[j] = "MarkRunning" => worker'[j] \in {"MarkFailed", "Scan"}
      /\ worker[j] = "SaveReport" => worker'[j] = IF failed THEN "MarkFailed" ELSE "MarkFinished"
      /\ failed => worker'[j] \in {"MarkFailed", "done"}
      /\ \A k \in Jobs \ {j} : worker'[k] = worker[k]
  BY <1>1, <1>2, NextStep DEF TypeOK, Calls
<1>7. \A c \in inflight : c.job \in Jobs /\ c.cond \in {"NX", "XX"}
  BY DEF TypeOK, Command
<1>8. \A c \in inflight : c.job = j => worker[j] = "MarkFailed"
  BY <1>1, <1>7 DEF RecordInv, LateWritesAreAbandoned, Calls
<1>9. /\ worker[j] = "MarkFinished" => scanJob[j].status = "Finished" /\ Own(j, scanJob[j])
      /\ worker[j] = "MarkFailed" => scanJob[j].status = "Failed"
      /\ worker[j] = "SaveReport" => Own(j, scanJob[j]) /\ scanJob[j].status \notin Closed
      /\ worker[j] = "MarkRunning" => scanJob[j].status \notin Closed
  BY <1>1 DEF RecordInv, CopyIsMarked, ReportBeforeMark
<1> HIDE DEF cmd
<1> USE DEF RecordInv, TypeOK
<1>10. ReportsInPlace'
  <2>1. scanJob[j].status = "Finished" => Own(j, scanJob[j])
    BY <1>1 DEF ReportsInPlace
  <2> QED BY <1>3, <1>4, <1>5, <2>1 DEF ReportsInPlace, Own
<1>11. ReportBeforeMark'
  BY <1>1, <1>4, <1>5, <1>6, <1>9 DEF ReportBeforeMark, Own, Calls
<1>12. CopyIsMarked'
  BY <1>4, <1>6 DEF CopyIsMarked
<1>13. LateWritesAreAbandoned'
  <2>1. handler[j] # "rejected" /\ worker[j] # "none"
    BY <1>1 DEF WorkerNeedsSubmit, Calls
  <2> QED BY <1>3, <1>4, <1>5, <1>6, <1>7, <1>8, <2>1 DEF LateWritesAreAbandoned
<1>14. WorkerNeedsSubmit'
  BY <1>1, <1>4, <1>5, <1>6 DEF WorkerNeedsSubmit, Calls
<1>15. OpenWhileWorking'
  BY <1>1, <1>5, <1>6, <1>9 DEF OpenWhileWorking, Calls, Closed
<1>16. NothingReopens'
  <2>1. \A k \in Jobs \ {j} : store'[k] = store[k]
    BY <1>5
  <2>2. ASSUME NEW k \in Jobs, k # j PROVE NothingReopens!(k)'
    BY <1>3, <1>5, <2>1, <2>2 DEF NothingReopens
  <2>3. NothingReopens!(j)'
    <3>1. CASE worker[j] = "MarkFailed"
      BY <1>3, <1>5, <1>9, <3>1 DEF NothingReopens, Closed
    <3>2. CASE worker[j] # "MarkFailed"
      <4>1. \A c \in inflight' : c.job = j => c = cmd /\ store' = store
        BY <1>5, <1>8, <3>2
      <4>2. store[j] # Nil => store[j].status # "Finished"  \/ worker[j] \notin {"MarkRunning", "SaveReport"}
        BY DEF OpenWhileWorking, Closed
      <4> QED BY <1>1, <1>3, <1>9, <3>2, <4>1, <4>2 DEF NothingReopens, Closed, Calls
    <3> QED BY <3>1, <3>2
  <2> QED BY <2>2, <2>3 DEF NothingReopens
<1> QED BY <1>10, <1>11, <1>12, <1>13, <1>14, <1>15, <1>16

LEMMA ExecuteLateKeepsInv ==
  ASSUME TypeOK, RecordInv, NEW cmd \in inflight, ExecuteLate(cmd)
  PROVE  RecordInv'
<1> DEFINE k == cmd.job
<1>1. cmd \in Command /\ k \in Jobs /\ cmd.value \in ScanJob /\ cmd.cond \in {"NX", "XX"}
  BY DEF TypeOK, Command
<1>2. store' = store \/ (Applies(cmd) /\ store' = [store EXCEPT ![k] = cmd.value])
  BY <1>1, ExecuteEffect DEF ExecuteLate
<1>3. inflight' = inflight \ {cmd} /\ handler' = handler /\ worker' = worker /\ scanJob' = scanJob
  BY DEF ExecuteLate
<1>4. \A c \in inflight : c.job \in Jobs /\ c.cond \in {"NX", "XX"}
  BY DEF TypeOK, Command
<1>5. worker[k] \in {"none", "MarkFailed", "done", "lost"} /\ handler[k] # "idle"
      /\ (cmd.value.status \in Closed => worker[k] \in {"MarkFailed", "done", "lost"})
  BY <1>1 DEF RecordInv, LateWritesAreAbandoned, Closed, WorkerNeedsSubmit
<1> HIDE DEF k
<1> USE DEF RecordInv, TypeOK
<1>6. ReportsInPlace'
  BY <1>1, <1>2, <1>3 DEF ReportsInPlace, Own, k
<1>7. ReportBeforeMark'
  BY <1>1, <1>2, <1>3, <1>5 DEF ReportBeforeMark, Own
<1>8. CopyIsMarked'
  BY <1>3 DEF CopyIsMarked
<1>9. LateWritesAreAbandoned'
  BY <1>3 DEF LateWritesAreAbandoned
<1>10. WorkerNeedsSubmit'
  BY <1>1, <1>2, <1>3, <1>5 DEF WorkerNeedsSubmit
<1>11. OpenWhileWorking'
  BY <1>1, <1>2, <1>3, <1>5 DEF OpenWhileWorking
<1>12. NothingReopens'
  BY <1>1, <1>2, <1>3 DEF NothingReopens, k
<1> QED BY <1>6, <1>7, <1>8, <1>9, <1>10, <1>11, <1>12

LEMMA RecordNext == TypeOK /\ RecordInv /\ [Next]_vars => RecordInv'
<1> SUFFICES ASSUME TypeOK, RecordInv, [Next]_vars PROVE RecordInv'
  OBVIOUS
<1> USE DEF RecordInv, ReportsInPlace, ReportBeforeMark, CopyIsMarked, LateWritesAreAbandoned,
            WorkerNeedsSubmit, OpenWhileWorking, NothingReopens, Own, Closed
<1>1. ASSUME NEW j \in Jobs, EnqueueCreate(j) PROVE RecordInv'
  BY <1>1, EnqueueCreateKeepsInv
<1>2. ASSUME NEW j \in Jobs, EnqueueRun(j) PROVE RecordInv'
  BY <1>2 DEF EnqueueRun, TypeOK, Command, Calls
<1>3. ASSUME NEW j \in Jobs, Accept(j) PROVE RecordInv'
  BY <1>3 DEF Accept, TypeOK, Command
<1>4. ASSUME NEW j \in Jobs, ReadRecord(j) PROVE RecordInv'
  BY <1>4, ReadRecordKeepsInv
<1>5. ASSUME NEW j \in Jobs, ReadFails(j) PROVE RecordInv'
  BY <1>5, NextStep DEF ReadFails, TypeOK, Command, Calls
<1>6. ASSUME NEW j \in Jobs, ReadExpired(j) PROVE RecordInv'
  BY <1>6, DieKeepsInv, ScanJobsAssumption DEF ReadExpired, ScanJobsAssumption
<1>7. ASSUME NEW j \in Jobs, WriteRecord(j) PROVE RecordInv'
  BY <1>7, WriteRecordKeepsInv
<1>8. ASSUME NEW j \in Jobs, Scan(j) PROVE RecordInv'
  <2>1. CASE Die(HostOf[j])
    BY <1>8, <2>1, DieKeepsInv, ScanJobsAssumption DEF Scan, ScanJobsAssumption
  <2>2. CASE ~Die(HostOf[j])
    BY <1>8, <2>2, NextStep DEF Scan, redis, TypeOK, Command, Calls
  <2> QED BY <2>1, <2>2
<1>9. ASSUME NEW j \in Jobs, Expire(j) PROVE RecordInv'
  BY <1>9 DEF Expire, TypeOK
<1>10. ASSUME NEW r \in Replicas, Crash(r) PROVE RecordInv'
  BY <1>10, DieKeepsInv DEF Crash
<1>11. ASSUME NEW r \in Replicas, Restart(r) PROVE RecordInv'
  BY <1>11 DEF Restart
<1>12. ASSUME NEW cmd \in inflight, ExecuteLate(cmd) PROVE RecordInv'
  BY <1>12, ExecuteLateKeepsInv
<1>13. CASE UNCHANGED vars
  BY <1>13 DEF vars
<1> QED
  BY <1>1, <1>2, <1>3, <1>4, <1>5, <1>6, <1>7, <1>8, <1>9, <1>10, <1>11, <1>12, <1>13
  DEF Next, Handler, Worker

\* The parts of the inductive invariant hold in every reachable state.
THEOREM RecordInvariant == Spec => []RecordInv
BY TypeInit, TypeNext, RecordInit, RecordNext, PTL DEF Spec

\* A record marked Finished carries the report of its own artifact, whatever
\* faults Redis and the replicas show.
THEOREM FinishedRecordHasReport == Spec => []FinishedHasReport
<1>1. RecordInv => FinishedHasReport
  BY DEF RecordInv, ReportsInPlace, FinishedHasReport, Own
<1> QED BY <1>1, RecordInvariant, PTL

-----------------------------------------------------------------------------
\* The records whose polls are answered 302.
Waiting(j) == store[j] # Nil /\ store[j].status \in {"Pending", "Running"}

\* Of a Finished record the worker has nothing left to write but a failure,
\* and neither has Redis.
LEMMA ReportedStep ==
  ASSUME TypeOK, RecordInv, [Next]_vars, NEW j \in Jobs,
         store[j] # Nil, store[j].status = "Finished"
  PROVE  ~Waiting(j)'
<1> USE DEF TypeOK, Waiting
<1>1. /\ worker[j] \in {"MarkFailed", "done", "lost"}
      /\ \A c \in inflight : c.job = j => c.value.status \in Closed
      /\ handler[j] # "idle"
  BY DEF RecordInv, OpenWhileWorking, NothingReopens, WorkerNeedsSubmit, Closed
<1>2. store[j] # Nil /\ store[j].status = "Finished"
  OBVIOUS
<1>3. ASSUME NEW k \in Jobs, EnqueueCreate(k) PROVE ~Waiting(j)'
  <2>1. k # j
    BY <1>1, <1>3 DEF EnqueueCreate
  <2>2. CreateCommand(k) \in Command /\ CreateCommand(k).job = k
    BY DEF CreateCommand, Command, ScanJob, Status
  <2>3. store'[j] = store[j]
    BY <1>3, <2>1, <2>2, DoEffect DEF EnqueueCreate
  <2> QED BY <1>2, <2>3
<1>4. ASSUME NEW k \in Jobs, WriteRecord(k) PROVE ~Waiting(j)'
  <2>1. scanJob[k] \in ScanJob /\ worker[k] \in Calls /\ scanJob[k] # Nil
    BY <1>4 DEF WriteRecord
  <2>2. PICK failed \in BOOLEAN : Do(UpdateCommand(k, scanJob[k]), failed)
    BY <1>4 DEF WriteRecord
  <2>3. /\ UpdateCommand(k, scanJob[k]) \in Command
        /\ UpdateCommand(k, scanJob[k]).job = k
        /\ UpdateCommand(k, scanJob[k]).value = scanJob[k]
    BY <2>1 DEF UpdateCommand, Command
  <2>4. store' = store \/ store' = [store EXCEPT ![k] = scanJob[k]]
    BY <2>2, <2>3, DoEffect
  <2>5. k = j => scanJob[k].status = "Failed"
    BY <1>1, <2>1 DEF RecordInv, CopyIsMarked, Calls
  <2> QED BY <1>2, <2>1, <2>4, <2>5
<1>5. ASSUME NEW cmd \in inflight, ExecuteLate(cmd) PROVE ~Waiting(j)'
  <2>1. cmd \in Command /\ cmd.job \in Jobs
    BY DEF Command
  <2>2. store' = store \/ store' = [store EXCEPT ![cmd.job] = cmd.value]
    BY <1>5, <2>1, ExecuteEffect DEF ExecuteLate
  <2> QED BY <1>1, <1>2, <2>1, <2>2 DEF Closed
<1>6. ASSUME NEW k \in Jobs, Expire(k) PROVE ~Waiting(j)'
  BY <1>2, <1>6 DEF Expire
<1>7. ASSUME store' = store PROVE ~Waiting(j)'
  BY <1>2, <1>7
<1>8. ASSUME NEW k \in Jobs,
             EnqueueRun(k) \/ Accept(k) \/ ReadRecord(k) \/ ReadFails(k) \/ ReadExpired(k) \/ Scan(k)
      PROVE store' = store
  BY <1>8 DEF EnqueueRun, Accept, ReadRecord, ReadFails, ReadExpired, Scan, redis
<1>9. ASSUME NEW r \in Replicas, Crash(r) \/ Restart(r) PROVE store' = store
  BY <1>9 DEF Crash, Restart, redis
<1>10. CASE UNCHANGED vars
  BY <1>7, <1>10 DEF vars
<1> QED
  BY <1>1, <1>3, <1>4, <1>5, <1>6, <1>7, <1>8, <1>9, <1>10 DEF Next, Handler, Worker

\* A record whose report could be fetched is not reopened by any write,
\* executed in time or late: no 302 follows a 200.
THEOREM FinishedIsNotReopened == Spec => FinishedNeverReopens
<1>1. TypeOK /\ TypeOK' /\ RecordInv /\ [Next]_vars =>
        \A j \in Jobs : GetScanReport(j).code = 200 => GetScanReport(j)'.code # 302
  <2> SUFFICES ASSUME TypeOK, TypeOK', RecordInv, [Next]_vars,
                      NEW j \in Jobs, GetScanReport(j).code = 200
               PROVE  GetScanReport(j)'.code # 302
    OBVIOUS
  <2>1. store[j] # Nil /\ store[j].status = "Finished"
    BY DEF GetScanReport, TypeOK, ScanJob, Status
  <2>2. ~Waiting(j)'
    BY <2>1, ReportedStep
  <2> QED BY <2>2 DEF GetScanReport, Waiting, TypeOK, ScanJob, Status
<1> QED BY <1>1, TypeCorrect, RecordInvariant, PTL DEF Spec, FinishedNeverReopens

-----------------------------------------------------------------------------
\* What one step of the whole does to the records: a creation, the write of a
\* worker, a late command, an expiry, or nothing.
LEMMA StoreStep ==
  ASSUME TypeOK, [Next]_vars
  PROVE  \/ \E k \in Jobs : EnqueueCreate(k) \/ WriteRecord(k) \/ Expire(k)
         \/ \E cmd \in inflight : ExecuteLate(cmd)
         \/ UNCHANGED redis
<1>1. ASSUME NEW k \in Jobs,
             EnqueueRun(k) \/ Accept(k) \/ ReadRecord(k) \/ ReadFails(k) \/ ReadExpired(k) \/ Scan(k)
      PROVE UNCHANGED redis
  BY <1>1 DEF EnqueueRun, Accept, ReadRecord, ReadFails, ReadExpired, Scan, redis
<1>2. ASSUME NEW r \in Replicas, Crash(r) \/ Restart(r) PROVE UNCHANGED redis
  BY <1>2 DEF Crash, Restart, redis
<1>3. CASE UNCHANGED vars
  BY <1>3 DEF vars, redis
<1> QED BY <1>1, <1>2, <1>3 DEF Next, Handler, Worker

\* The write of a worker replaces its record, if there is one, by its copy.
LEMMA WriteEffect ==
  ASSUME TypeOK, NEW k \in Jobs, WriteRecord(k)
  PROVE  /\ worker[k] \in Calls /\ scanJob[k] # Nil /\ scanJob[k] \in ScanJob
         /\ store' = store \/ (store[k] # Nil /\ store' = [store EXCEPT ![k] = scanJob[k]])
<1>1. worker[k] \in Calls /\ scanJob[k] # Nil /\ scanJob[k] \in ScanJob
  BY DEF WriteRecord, TypeOK
<1>2. PICK failed \in BOOLEAN : Do(UpdateCommand(k, scanJob[k]), failed)
  BY DEF WriteRecord
<1>3. /\ UpdateCommand(k, scanJob[k]) \in Command
      /\ UpdateCommand(k, scanJob[k]).job = k
      /\ UpdateCommand(k, scanJob[k]).cond = "XX"
      /\ UpdateCommand(k, scanJob[k]).value = scanJob[k]
  BY <1>1 DEF UpdateCommand, Command
<1> QED BY <1>1, <1>2, <1>3, DoEffect DEF Applies

\* The key of a job that has a worker is never created anew, neither by a POST
\* nor by a command that Redis executes late.
THEOREM ExpiredRecordStaysGone == Spec => ExpiredStaysGone
<1>1. TypeOK /\ RecordInv /\ [Next]_vars =>
        \A j \in Jobs : worker[j] # "none" /\ store[j] = Nil => store'[j] = Nil
  <2> SUFFICES ASSUME TypeOK, RecordInv, [Next]_vars,
                      NEW j \in Jobs, worker[j] # "none", store[j] = Nil
               PROVE  store'[j] = Nil
    OBVIOUS
  <2> USE DEF TypeOK
  <2>1. ASSUME NEW k \in Jobs, EnqueueCreate(k) PROVE store'[j] = Nil
    <3>1. k # j
      BY <2>1 DEF EnqueueCreate, RecordInv, WorkerNeedsSubmit
    <3>2. CreateCommand(k) \in Command /\ CreateCommand(k).job = k
      BY DEF CreateCommand, Command, ScanJob, Status
    <3> QED BY <2>1, <3>1, <3>2, DoEffect DEF EnqueueCreate
  <2>2. ASSUME NEW k \in Jobs, WriteRecord(k) PROVE store'[j] = Nil
    BY <2>2, WriteEffect
  <2>3. ASSUME NEW k \in Jobs, Expire(k) PROVE store'[j] = Nil
    BY <2>3 DEF Expire
  <2>4. ASSUME NEW cmd \in inflight, ExecuteLate(cmd) PROVE store'[j] = Nil
    <3>1. cmd \in Command /\ cmd.job \in Jobs /\ cmd.cond \in {"NX", "XX"}
      BY DEF Command
    <3>2. cmd.job = j => cmd.cond = "XX"
      BY <3>1 DEF RecordInv, LateWritesAreAbandoned
    <3> QED BY <2>4, <3>1, <3>2, ExecuteEffect DEF ExecuteLate, Applies
  <2>5. CASE UNCHANGED redis
    BY <2>5 DEF redis
  <2> QED BY <2>1, <2>2, <2>3, <2>4, <2>5, StoreStep
<1> QED BY <1>1, TypeCorrect, RecordInvariant, PTL DEF Spec, ExpiredStaysGone

\* No worker walks away from an open record, other than by a call of
\* UpdateStatus(Failed) that was not executed, or did not find the record open.
THEOREM WorkersAbandonOnlyAtLast == Spec => AbandonedOnlyAtLast
<1>1. TypeOK /\ TypeOK' /\ RecordInv /\ [Next]_vars =>
        \A j \in Jobs :
          worker[j] \in ActiveWorker /\ worker'[j] = "done" /\ GetScanReport(j)'.code = 302
          => worker[j] = "MarkFailed"
  <2> SUFFICES ASSUME TypeOK, TypeOK', RecordInv, [Next]_vars, NEW j \in Jobs,
                      worker[j] \in ActiveWorker, worker'[j] = "done",
                      worker[j] # "MarkFailed", Waiting(j)'
               PROVE  FALSE
    BY DEF GetScanReport, Waiting, TypeOK, ScanJob, Status
  <2> USE DEF TypeOK
  <2>1. worker[j] # "done"
    BY DEF ActiveWorker, Calls
  <2>2. ASSUME NEW k \in Jobs, EnqueueRun(k) PROVE FALSE
    BY <2>1, <2>2 DEF EnqueueRun
  <2>3. ASSUME NEW k \in Jobs, ReadFails(k) PROVE FALSE
    BY <2>1, <2>3, NextStep DEF ReadFails
  <2>4. ASSUME NEW r \in Replicas, Die(r) PROVE FALSE
    BY <2>1, <2>4 DEF Die
  <2>5. ASSUME NEW k \in Jobs, Scan(k) PROVE FALSE
    BY <2>1, <2>4, <2>5, NextStep, ScanJobsAssumption DEF Scan, ScanJobsAssumption
  <2>6. ASSUME NEW k \in Jobs, WriteRecord(k) PROVE FALSE
    <3>1. k = j
      BY <2>1, <2>6 DEF WriteRecord
    <3>2. PICK failed \in BOOLEAN :
            /\ Do(UpdateCommand(j, scanJob[j]), failed)
            /\ worker' = [worker EXCEPT ![j] =
                            IF failed THEN OnError(worker[j]) ELSE OnSuccess(worker[j])]
      BY <2>6, <3>1 DEF WriteRecord
    <3>3. worker[j] = "MarkFinished" /\ ~failed
      BY <2>6, <3>1, <3>2, NextStep DEF WriteRecord, Calls
    <3>4. scanJob[j] \in ScanJob /\ scanJob[j].status = "Finished"
      BY <2>6, <3>1, <3>3 DEF WriteRecord, RecordInv, CopyIsMarked
    <3>5. /\ UpdateCommand(j, scanJob[j]) \in Command
          /\ UpdateCommand(j, scanJob[j]).job = j
          /\ UpdateCommand(j, scanJob[j]).cond = "XX"
          /\ UpdateCommand(j, scanJob[j]).value = scanJob[j]
      BY <3>4 DEF UpdateCommand, Command
    <3>6. store'[j] = Nil \/ store'[j] = scanJob[j]
      BY <3>2, <3>3, <3>5, DoEffect DEF Applies
    <3> QED BY <3>4, <3>6 DEF Waiting
  <2>7. ASSUME worker' = worker PROVE FALSE
    BY <2>1, <2>7
  <2>8. ASSUME NEW k \in Jobs, EnqueueCreate(k) \/ Accept(k) \/ ReadRecord(k) \/ Expire(k)
        PROVE worker' = worker
    BY <2>8 DEF EnqueueCreate, Accept, ReadRecord, Expire
  <2>9. ASSUME NEW cmd \in inflight, ExecuteLate(cmd) PROVE worker' = worker
    BY <2>9 DEF ExecuteLate
  <2>10. ASSUME NEW k \in Jobs, ReadExpired(k) PROVE FALSE
    BY <2>4, <2>10, ScanJobsAssumption DEF ReadExpired, ScanJobsAssumption
  <2>11. ASSUME NEW r \in Replicas, Crash(r) PROVE FALSE
    BY <2>4, <2>11 DEF Crash
  <2>12. ASSUME NEW r \in Replicas, Restart(r) PROVE worker' = worker
    BY <2>12 DEF Restart
  <2>13. CASE UNCHANGED vars
    BY <2>7, <2>13 DEF vars
  <2> QED BY <2>2, <2>3, <2>5, <2>6, <2>7, <2>8, <2>9, <2>10, <2>11, <2>12, <2>13
          DEF Next, Handler, Worker
<1> QED BY <1>1, TypeCorrect, RecordInvariant, PTL DEF Spec, AbandonedOnlyAtLast

-----------------------------------------------------------------------------
(***************************************************************************)
(* The refinement of ScanService, when a failed Redis call is one that was *)
(* not executed.                                                           *)
(***************************************************************************)

FailedMeansNotExecuted == Faults \subseteq {"error", "crash"}

\* Nothing is in flight; who is done with a record leaves it alone; a request
\* that was rejected has left none.
CleanInv ==
  /\ FailedMeansNotExecuted
  /\ inflight = {}
  /\ \A j \in Jobs : store[j] # Nil /\ store[j].status \in Closed => worker[j] \in {"done", "lost"}
  /\ \A j \in Jobs : handler[j] = "rejected" => store[j] = Nil

LEMMA DoClean ==
  ASSUME FailedMeansNotExecuted, NEW cmd \in Command, NEW failed \in BOOLEAN, Do(cmd, failed)
  PROVE  /\ inflight' = inflight
         /\ failed => store' = store
         /\ ~failed /\ Applies(cmd) => store' = [store EXCEPT ![cmd.job] = cmd.value]
         /\ ~failed /\ ~Applies(cmd) => store' = store
BY DEF FailedMeansNotExecuted, Do, Execute, redis

\* What the call of a worker does to its record and to itself, when a call that
\* fails is not executed.
LEMMA WriteClean ==
  ASSUME TypeOK, CleanInv, NEW j \in Jobs, WriteRecord(j)
  PROVE  /\ worker[j] \in Calls /\ scanJob[j] # Nil /\ scanJob[j] \in ScanJob
         /\ inflight' = {} /\ handler' = handler
         /\ \A k \in Jobs \ {j} : worker'[k] = worker[k] /\ store'[k] = store[k]
         /\ \/ store' = store
            \/ /\ store[j] # Nil /\ store' = [store EXCEPT ![j] = scanJob[j]]
               /\ worker[j] \in {"MarkFinished", "MarkFailed"} => worker'[j] = "done"
<1>1. worker[j] \in Calls /\ scanJob[j] # Nil /\ scanJob[j] \in ScanJob
  BY DEF WriteRecord, TypeOK
<1>2. PICK failed \in BOOLEAN :
        /\ Do(UpdateCommand(j, scanJob[j]), failed)
        /\ worker' = [worker EXCEPT ![j] =
                        IF failed THEN OnError(worker[j]) ELSE OnSuccess(worker[j])]
  BY DEF WriteRecord
<1>3. /\ UpdateCommand(j, scanJob[j]) \in Command
      /\ UpdateCommand(j, scanJob[j]).job = j
      /\ UpdateCommand(j, scanJob[j]).cond = "XX"
      /\ UpdateCommand(j, scanJob[j]).value = scanJob[j]
  BY <1>1 DEF UpdateCommand, Command
<1>4. /\ inflight' = inflight
      /\ store' = store \/ (~failed /\ store[j] # Nil /\ store' = [store EXCEPT ![j] = scanJob[j]])
  BY <1>2, <1>3, DoClean DEF Applies, CleanInv
<1>5. ~failed /\ worker[j] \in {"MarkFinished", "MarkFailed"} => worker'[j] = "done"
  BY <1>2, NextStep DEF TypeOK
<1>6. \A k \in Jobs \ {j} : worker'[k] = worker[k] /\ store'[k] = store[k]
  BY <1>2, <1>4 DEF TypeOK
<1> QED BY <1>1, <1>4, <1>5, <1>6 DEF WriteRecord, CleanInv

LEMMA CreateClean ==
  ASSUME TypeOK, RecordInv, CleanInv, NEW j \in Jobs, EnqueueCreate(j)
  PROVE  /\ inflight' = {} /\ worker' = worker /\ handler[j] = "idle" /\ store[j] = Nil
         /\ \/ store' = store /\ handler' = [handler EXCEPT ![j] = "rejected"]
            \/ /\ store' = [store EXCEPT ![j] = [status |-> "Pending", report |-> Nil]]
               /\ handler' = [handler EXCEPT ![j] = "submitting"]
<1>1. PICK failed \in BOOLEAN :
        /\ Do(CreateCommand(j), failed)
        /\ handler' = [handler EXCEPT ![j] = IF failed THEN "rejected" ELSE "submitting"]
  BY DEF EnqueueCreate
<1>2. handler[j] = "idle" /\ store[j] = Nil
  BY DEF EnqueueCreate, RecordInv, WorkerNeedsSubmit
<1>3. /\ CreateCommand(j) \in Command /\ CreateCommand(j).job = j /\ CreateCommand(j).cond = "NX"
      /\ CreateCommand(j).value = [status |-> "Pending", report |-> Nil]
  BY DEF CreateCommand, Command, ScanJob, Status
<1>4. Applies(CreateCommand(j))
  BY <1>2, <1>3 DEF Applies
<1> QED BY <1>1, <1>2, <1>3, <1>4, DoClean DEF EnqueueCreate, CleanInv

LEMMA CleanNext == TypeOK /\ RecordInv /\ CleanInv /\ [Next]_vars => CleanInv'
<1> SUFFICES ASSUME TypeOK, RecordInv, CleanInv, [Next]_vars PROVE CleanInv'
  OBVIOUS
<1>0. FailedMeansNotExecuted'
  BY DEF CleanInv, FailedMeansNotExecuted
<1> USE DEF CleanInv, TypeOK, Closed
<1>1. ASSUME NEW j \in Jobs, EnqueueCreate(j) PROVE CleanInv'
  BY <1>0, <1>1, CreateClean
<1>2. ASSUME NEW j \in Jobs, WriteRecord(j) PROVE CleanInv'
  <2>1. ASSUME NEW k \in Jobs, store'[k] # Nil, store'[k].status \in Closed
        PROVE  worker'[k] \in {"done", "lost"}
    <3>1. CASE k # j
      BY <1>2, <2>1, <3>1, WriteClean
    <3>2. CASE k = j /\ store' = store
      BY <1>2, <2>1, <3>2, WriteClean DEF Calls
    <3>3. CASE k = j /\ store'[j] = scanJob[j]
      <4>1. worker[j] \in {"MarkFinished", "MarkFailed"}
        BY <1>2, <2>1, <3>3, WriteClean DEF RecordInv, CopyIsMarked, Calls
      <4>2. CASE store' = store
        BY <2>1, <3>2, <3>3, <4>2
      <4> QED BY <1>2, <3>3, <4>1, <4>2, WriteClean
    <3> QED BY <1>2, <3>1, <3>2, <3>3, WriteClean
  <2>2. ASSUME NEW k \in Jobs, handler'[k] = "rejected" PROVE store'[k] = Nil
    BY <1>2, <2>2, WriteClean
  <2> QED BY <1>0, <1>2, <2>1, <2>2, WriteClean
<1>3. ASSUME NEW j \in Jobs, Expire(j) PROVE CleanInv'
  BY <1>0, <1>3 DEF Expire
<1>4. ASSUME NEW j \in Jobs, EnqueueRun(j) \/ Accept(j) PROVE CleanInv'
  BY <1>0, <1>4 DEF EnqueueRun, Accept, RecordInv, WorkerNeedsSubmit
<1>5. ASSUME NEW j \in Jobs, ReadRecord(j) PROVE CleanInv'
  BY <1>0, <1>5 DEF ReadRecord
<1>6. ASSUME NEW j \in Jobs, ReadFails(j) PROVE CleanInv'
  BY <1>0, <1>6 DEF ReadFails, Calls
<1>7. ASSUME NEW r \in Replicas, Die(r), UNCHANGED redis PROVE CleanInv'
  BY <1>0, <1>7 DEF Die, redis
<1>8. ASSUME NEW j \in Jobs, ReadExpired(j) PROVE CleanInv'
  BY <1>7, <1>8, ScanJobsAssumption DEF ReadExpired, ScanJobsAssumption
<1>9. ASSUME NEW j \in Jobs, Scan(j) PROVE CleanInv'
  <2>1. CASE Die(HostOf[j])
    BY <1>7, <1>9, <2>1, ScanJobsAssumption DEF Scan, ScanJobsAssumption
  <2>2. CASE ~Die(HostOf[j])
    BY <1>0, <1>9, <2>2 DEF Scan, redis
  <2> QED BY <2>1, <2>2
<1>10. ASSUME NEW r \in Replicas, Crash(r) \/ Restart(r) PROVE CleanInv'
  BY <1>0, <1>7, <1>10 DEF Crash, Restart
<1>11. CASE UNCHANGED vars
  BY <1>0, <1>11 DEF vars
<1> QED
  BY <1>1, <1>2, <1>3, <1>4, <1>5, <1>6, <1>8, <1>9, <1>10, <1>11 DEF Next, Handler, Worker

-----------------------------------------------------------------------------
\* A step that leaves the records alone, and makes no job's request the first
\* nor the rejected one, is not seen.
LEMMA Unseen ==
  ASSUME store' = store,
         \A j \in Jobs :
           store[j] = Nil =>
             (handler'[j] \in {"idle", "rejected"} <=> handler[j] \in {"idle", "rejected"})
  PROVE  \A j \in Jobs : OutcomeOf(j)' = OutcomeOf(j)
BY DEF OutcomeOf

\* A record that is there belongs to a request that was not rejected.
LEMMA RecordIsSubmitted ==
  ASSUME RecordInv, CleanInv, NEW j \in Jobs, store[j] # Nil
  PROVE  handler[j] \notin {"idle", "rejected"}
BY DEF RecordInv, WorkerNeedsSubmit, CleanInv

\* What the rest of the proof is about: one job moves, and the others do not.
LEMMA MoveSeen ==
  ASSUME NEW j \in Jobs, NEW to,
         OutcomeOf(j)' = to, \A k \in Jobs \ {j} : OutcomeOf(k)' = OutcomeOf(k)
  PROVE  [k \in Jobs |-> OutcomeOf(k)'] = [[k \in Jobs |-> OutcomeOf(k)] EXCEPT ![j] = to]
OBVIOUS

\* The view of all jobs.
View == [j \in Jobs |-> OutcomeOf(j)]

LEMMA ServiceStep ==
  ASSUME TypeOK, RecordInv, CleanInv, [Next]_vars
  PROVE  Service!Next \/ UNCHANGED View
<1> USE DEF View
<1>1. ASSUME \A j \in Jobs : OutcomeOf(j)' = OutcomeOf(j) PROVE UNCHANGED View
  BY <1>1
<1>2. ASSUME NEW j \in Jobs, EnqueueCreate(j) PROVE Service!Next \/ UNCHANGED View
  <2>1. ASSUME NEW k \in Jobs, k # j PROVE OutcomeOf(k)' = OutcomeOf(k)
    BY <1>2, <2>1, CreateClean DEF OutcomeOf, TypeOK
  <2>2. CASE store' = store /\ handler' = [handler EXCEPT ![j] = "rejected"]
    <3>1. OutcomeOf(j)' = OutcomeOf(j)
      BY <1>2, <2>2, CreateClean DEF OutcomeOf, TypeOK
    <3> QED BY <1>1, <2>1, <3>1
  <2>3. CASE store' = [store EXCEPT ![j] = [status |-> "Pending", report |-> Nil]]
    <3>1. [status |-> "Pending", report |-> Nil] \in ScanJob
      BY DEF ScanJob, Status
    <3>2. OutcomeOf(j).phase = "none"
      BY <1>2, CreateClean DEF OutcomeOf
    <3>3. OutcomeOf(j)' = Service!Outcome("open", Nil)
      BY <2>3, <3>1, ScanJobsAssumption DEF OutcomeOf, Service!Outcome, TypeOK, ScanJobsAssumption
    <3>4. Service!Open(j)
      BY <2>1, <3>2, <3>3, MoveSeen DEF Service!Open, Service!Move
    <3> QED BY <3>4 DEF Service!Next
  <2> QED BY <1>2, <2>2, <2>3, CreateClean
<1>3. ASSUME NEW j \in Jobs, WriteRecord(j) PROVE Service!Next \/ UNCHANGED View
  <2>1. ASSUME NEW k \in Jobs, k # j PROVE OutcomeOf(k)' = OutcomeOf(k)
    BY <1>3, <2>1, WriteClean DEF OutcomeOf
  <2>2. CASE store' = store
    BY <1>1, <1>3, <2>2, Unseen, WriteClean
  <2>3. CASE store[j] # Nil /\ store' = [store EXCEPT ![j] = scanJob[j]]
    <3>1. /\ store'[j] = scanJob[j] /\ scanJob[j] # Nil /\ scanJob[j] \in ScanJob
          /\ worker[j] \in Calls
      BY <1>3, <2>3, WriteClean DEF TypeOK
    <3>2. store[j].status \notin Closed
      BY <2>3, <3>1 DEF CleanInv, Calls
    <3>3. OutcomeOf(j) = Service!Outcome("open", Nil)
      BY <2>3, <3>2 DEF OutcomeOf, Service!Outcome, TypeOK, ScanJob, Status, Closed
    <3>4. CASE worker[j] \in {"MarkRunning", "SaveReport"}
      <4>1. OutcomeOf(j)' = Service!Outcome("open", Nil)
        BY <3>1, <3>4 DEF RecordInv, CopyIsMarked, OutcomeOf, Service!Outcome, ScanJob, Status, Closed
      <4> QED BY <1>1, <2>1, <3>3, <4>1
    <3>5. CASE worker[j] = "MarkFinished"
      <4>1. OutcomeOf(j)' = Service!Outcome("reported", ArtifactOf[j])
        BY <3>1, <3>5 DEF RecordInv, CopyIsMarked, ReportBeforeMark, Own, OutcomeOf, Service!Outcome
      <4>2. Service!Report(j)
        BY <2>1, <3>3, <4>1, MoveSeen DEF Service!Report, Service!Move, Service!Outcome
      <4> QED BY <4>2 DEF Service!Next
    <3>6. CASE worker[j] = "MarkFailed"
      <4>1. OutcomeOf(j)' = Service!Outcome("failed", Nil)
        BY <3>1, <3>6 DEF RecordInv, CopyIsMarked, OutcomeOf, Service!Outcome
      <4>2. Service!Fail(j)
        BY <2>1, <3>3, <4>1, MoveSeen DEF Service!Fail, Service!Move, Service!Outcome
      <4> QED BY <4>2 DEF Service!Next
    <3> QED BY <3>1, <3>4, <3>5, <3>6 DEF Calls
  <2> QED BY <1>3, <2>2, <2>3, WriteClean
<1>4. ASSUME NEW j \in Jobs, Expire(j) PROVE Service!Next
  <2>1. store[j] # Nil /\ store' = [store EXCEPT ![j] = Nil] /\ handler' = handler
    BY <1>4 DEF Expire
  <2>2. ASSUME NEW k \in Jobs, k # j PROVE OutcomeOf(k)' = OutcomeOf(k)
    BY <2>1, <2>2 DEF OutcomeOf, TypeOK
  <2>3. OutcomeOf(j)' = Service!Outcome("forgotten", Nil)
    BY <2>1, RecordIsSubmitted DEF OutcomeOf, Service!Outcome, TypeOK
  <2>4. OutcomeOf(j).phase \in {"open", "reported", "failed"}
    BY <2>1 DEF OutcomeOf, TypeOK, ScanJob, Status
  <2>5. Service!Forget(j)
    BY <2>2, <2>3, <2>4, MoveSeen DEF Service!Forget, Service!Move
  <2> QED BY <2>5 DEF Service!Next
<1>5. CASE UNCHANGED <<store, handler>>
  BY <1>1, <1>5, Unseen
<1>6. ASSUME NEW j \in Jobs, EnqueueRun(j) \/ Accept(j) PROVE UNCHANGED View
  BY <1>1, <1>6, Unseen DEF EnqueueRun, Accept, TypeOK
<1>7. ASSUME NEW j \in Jobs, ReadRecord(j) \/ ReadFails(j) PROVE UNCHANGED <<store, handler>>
  BY <1>7 DEF ReadRecord, ReadFails
<1>8. ASSUME NEW r \in Replicas, Die(r), UNCHANGED redis PROVE UNCHANGED View
  BY <1>1, <1>8, Unseen DEF Die, redis
<1>9. ASSUME NEW j \in Jobs, ReadExpired(j) PROVE UNCHANGED View
  BY <1>8, <1>9, ScanJobsAssumption DEF ReadExpired, ScanJobsAssumption
<1>10. ASSUME NEW j \in Jobs, Scan(j) PROVE UNCHANGED View \/ UNCHANGED <<store, handler>>
  <2>1. CASE Die(HostOf[j])
    BY <1>8, <1>10, <2>1, ScanJobsAssumption DEF Scan, ScanJobsAssumption
  <2>2. CASE ~Die(HostOf[j])
    BY <1>10, <2>2 DEF Scan, redis
  <2> QED BY <2>1, <2>2
<1>11. ASSUME NEW r \in Replicas, Crash(r) PROVE UNCHANGED View
  BY <1>8, <1>11 DEF Crash
<1>12. ASSUME NEW r \in Replicas, Restart(r) PROVE UNCHANGED <<store, handler>>
  BY <1>12 DEF Restart
<1>13. CASE UNCHANGED vars
  BY <1>5, <1>13 DEF vars
<1>14. inflight = {}
  BY DEF CleanInv
<1> QED
  BY <1>2, <1>3, <1>4, <1>5, <1>6, <1>7, <1>9, <1>10, <1>11, <1>12, <1>13, <1>14
  DEF Next, Handler, Worker

\* While a failed Redis call is one that was not executed, the adapter gives
\* every accepted job one verdict, final until it is forgotten.
THEOREM ScanServiceIsImplemented == Spec /\ FailedMeansNotExecuted => ImplementsScanService
<1>1. Init /\ FailedMeansNotExecuted => CleanInv
  BY DEF Init, CleanInv
<1>2. Init => Service!Init
  BY DEF Init, Service!Init, Service!Outcome, OutcomeOf
<1>3. TypeOK /\ RecordInv /\ CleanInv /\ [Next]_vars => Service!Next \/ UNCHANGED View
  BY ServiceStep
<1> QED BY <1>1, <1>2, <1>3, TypeCorrect, RecordInvariant, CleanNext, PTL
        DEF Spec, ImplementsScanService, Service!Spec, View
=============================================================================
