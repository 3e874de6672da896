--------------------------- MODULE RequestService ---------------------------
(***************************************************************************)
(* What one process promises the clients of POST /scan over its life: a    *)
(* request is accepted exactly if its scan has been handed to a goroutine  *)
(* of the process. From the time the listener closes no connection is      *)
(* accepted; what arrives on earlier ones is still served, and the process *)
(* exits in order only when each request it has read has its answer and no *)
(* connection is left that may send one. It may be killed at any time.     *)
(***************************************************************************)

CONSTANT Requests

VARIABLES
  phase,    \* "serving", "closing", "over" or "killed"
  request,  \* for each request, "none", "connected", "dropped", "pending" or the answer
  scan      \* for each request, whether its scan is "running", "done" or "none"

serviceVars == <<phase, request, scan>>

Init ==
  /\ phase = "serving"
  /\ request = [r \in Requests |-> "none"]
  /\ scan = [r \in Requests |-> "none"]

Alive == phase \in {"serving", "closing"}

Connect(r) ==
  /\ phase = "serving"
  /\ request[r] = "none"
  /\ request' = [request EXCEPT ![r] = "connected"]
  /\ UNCHANGED <<phase, scan>>

\* A connection is read from, or closed before it has sent anything.
Read(r) ==
  /\ Alive
  /\ request[r] = "connected"
  /\ request' = [request EXCEPT ![r] = "pending"]
  /\ UNCHANGED <<phase, scan>>

Drop(r) ==
  /\ Alive
  /\ request[r] = "connected"
  /\ request' = [request EXCEPT ![r] = "dropped"]
  /\ UNCHANGED <<phase, scan>>

Begin(r) ==
  /\ Alive
  /\ request[r] = "pending" /\ scan[r] = "none"
  /\ scan' = [scan EXCEPT ![r] = "running"]
  /\ UNCHANGED <<phase, request>>

End(r) ==
  /\ Alive
  /\ scan[r] = "running"
  /\ scan' = [scan EXCEPT ![r] = "done"]
  /\ UNCHANGED <<phase, request>>

Answer(r) ==
  /\ Alive
  /\ request[r] = "pending"
  /\ request' = [request EXCEPT ![r] = IF scan[r] = "none" THEN "rejected" ELSE "accepted"]
  /\ UNCHANGED <<phase, scan>>

Close ==
  /\ phase = "serving"
  /\ phase' = "closing"
  /\ UNCHANGED <<request, scan>>

Exit ==
  /\ phase = "closing"
  /\ \A r \in Requests : request[r] \notin {"connected", "pending"}
  /\ phase' = "over"
  /\ UNCHANGED <<request, scan>>

Kill ==
  /\ Alive
  /\ phase' = "killed"
  /\ UNCHANGED <<request, scan>>

Next ==
  \/ Close \/ Exit \/ Kill
  \/ \E r \in Requests : Connect(r) \/ Read(r) \/ Drop(r) \/ Begin(r) \/ End(r) \/ Answer(r)

Spec == Init /\ [][Next]_serviceVars
=============================================================================
