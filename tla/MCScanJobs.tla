----------------------------- MODULE MCScanJobs -----------------------------
(***************************************************************************)
(* Instances of ScanJobs for TLC: two jobs that scan different artifacts,  *)
(* received by one replica or by two.                                      *)
(***************************************************************************)
EXTENDS ScanJobs, TLC

CONSTANTS j1, j2, a1, a2, r1, r2

MCArtifactOf == j1 :> a1 @@ j2 :> a2

\* Both jobs on one replica: a panic of one worker kills the other's.
OneHost == j1 :> r1 @@ j2 :> r1

\* One job on each replica: each survives the other's crash.
TwoHosts == j1 :> r1 @@ j2 :> r2

AllFaults == {"error", "ambiguous", "late", "crash"}
CleanFaults == {"error", "crash"}
=============================================================================
