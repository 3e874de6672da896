------------------------------ MODULE WorkPool ------------------------------
(***************************************************************************)
(* pkg/work: one dispatcher goroutine that receives tasks from an          *)
(* unbuffered channel and spawns a goroutine for each. A send and its      *)
(* receipt are one step; when both cases of the select are ready, it takes *)
(* either.                                                                 *)
(***************************************************************************)

CONSTANT Tasks

VARIABLES
  dispatcher,  \* "unstarted", "selecting" or "stopped"
  stop,        \* whether the stop channel has been closed
  caller,      \* for each task, where its call of Run stands
  task         \* for each task, where its goroutine stands

poolVars == <<dispatcher, stop, caller, task>>

TypeOK ==
  /\ dispatcher \in {"unstarted", "selecting", "stopped"}
  /\ stop \in BOOLEAN
  /\ caller \in [Tasks -> {"none", "blocked", "returned"}]
  /\ task \in [Tasks -> {"none", "running", "done"}]

Init ==
  /\ dispatcher = "unstarted"
  /\ stop = FALSE
  /\ caller = [t \in Tasks |-> "none"]
  /\ task = [t \in Tasks |-> "none"]

Start ==
  /\ dispatcher = "unstarted"
  /\ dispatcher' = "selecting"
  /\ UNCHANGED <<stop, caller, task>>

\* Run blocks on the send until the dispatcher receives it.
Run(t) ==
  /\ caller[t] = "none"
  /\ caller' = [caller EXCEPT ![t] = "blocked"]
  /\ UNCHANGED <<dispatcher, stop, task>>

Receive(t) ==
  /\ dispatcher = "selecting"
  /\ caller[t] = "blocked"
  /\ caller' = [caller EXCEPT ![t] = "returned"]
  /\ task' = [task EXCEPT ![t] = "running"]
  /\ UNCHANGED <<dispatcher, stop>>

TaskReturns(t) ==
  /\ task[t] = "running"
  /\ task' = [task EXCEPT ![t] = "done"]
  /\ UNCHANGED <<dispatcher, stop, caller>>

\* Shutdown closes the channel and returns; it waits for nothing.
Shutdown ==
  /\ ~stop
  /\ stop' = TRUE
  /\ UNCHANGED <<dispatcher, caller, task>>

Stop ==
  /\ dispatcher = "selecting"
  /\ stop
  /\ dispatcher' = "stopped"
  /\ UNCHANGED <<stop, caller, task>>

Next ==
  \/ Start \/ Shutdown \/ Stop
  \/ \E t \in Tasks : Run(t) \/ Receive(t) \/ TaskReturns(t)

Spec == Init /\ [][Next]_poolVars
=============================================================================
