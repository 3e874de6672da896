---------------------------- MODULE ScanService ----------------------------
(***************************************************************************)
(* What the adapter promises a client that polls for a report, as long as  *)
(* a failed Redis call is one that was not executed: a job that was        *)
(* accepted is in progress until it either has the report of its own       *)
(* artifact or has failed; that verdict is final; a job is forgotten once  *)
(* and for all.                                                            *)
(***************************************************************************)

CONSTANTS Jobs, Artifacts, ArtifactOf, Nil

VARIABLE outcome

Phase == {"none", "open", "reported", "failed", "forgotten"}

Outcome(phase, report) == [phase |-> phase, report |-> report]

Init == outcome = [j \in Jobs |-> Outcome("none", Nil)]

Move(j, from, to) ==
  /\ outcome[j].phase \in from
  /\ outcome' = [outcome EXCEPT ![j] = to]

Open(j) == Move(j, {"none"}, Outcome("open", Nil))

Report(j) == Move(j, {"open"}, Outcome("reported", ArtifactOf[j]))

Fail(j) == Move(j, {"open"}, Outcome("failed", Nil))

Forget(j) == Move(j, {"open", "reported", "failed"}, Outcome("forgotten", Nil))

Next == \E j \in Jobs : Open(j) \/ Report(j) \/ Fail(j) \/ Forget(j)

Spec == Init /\ [][Next]_outcome
=============================================================================
