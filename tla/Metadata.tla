------------------------------ MODULE Metadata ------------------------------
(***************************************************************************)
(* GET /metadata of a process that Startup has brought up: the handler     *)
(* asks Clair's database when it was last updated and answers with or      *)
(* without that time. Clair's updater writes the row in between, and the   *)
(* connection, which the start did not try, may be lost at any step.       *)
(* Requests share nothing but their process, so one is followed at a time; *)
(* log.Fatal ends the process with all that it serves. The key is unique   *)
(* in Clair's schema: the error for several rows is left out.              *)
(***************************************************************************)
EXTENDS Startup

CONSTANTS
  MaxUpdates,  \* bound: how often Clair's updater finishes
  Text, Null,  \* a value that is no number, and SQL's NULL
  Nil,         \* no row; an answer without a time
  Error        \* an answer without a time, and an error in the log

ASSUME MetadataAssumption == MaxUpdates \in Nat /\ {Text, Null, Nil, Error} \cap Nat = {}

VARIABLES
  updates,  \* how often the updater has finished
  cell,     \* the value of updater/last
  request,  \* where the request stands: "none", "query", "rows" or "answered"
  row,      \* the row of the result of its query
  answer    \* what was answered

metadataVars == <<vars, updates, cell, request, row, answer>>

Times == 1..MaxUpdates
Cells == Times \cup {Text, Null, Nil}

MetadataTypeOK ==
  /\ TypeOK
  /\ updates \in 0..MaxUpdates
  /\ request \in {"none", "query", "rows", "answered"}
  /\ cell \in Cells /\ row \in Cells
  /\ answer \in Times \cup {Nil, Error}

MetadataInit ==
  /\ Init
  /\ updates = 0
  /\ cell = Nil /\ row = Nil /\ answer = Nil
  /\ request = "none"

\* The updater finishes, or somebody edits the row.
Write ==
  /\ Serves /\ env.database = "postgres"
  /\ \/ updates < MaxUpdates /\ updates' = updates + 1 /\ cell' = updates'
     \/ cell' \in {Text, Null} /\ UNCHANGED updates
  /\ UNCHANGED <<vars, request, row, answer>>

-----------------------------------------------------------------------------
Receive ==
  /\ Serves
  /\ request \in {"none", "answered"}
  /\ request' = "query"
  /\ UNCHANGED <<vars, updates, cell, row, answer>>

\* GetMetadata logs an error and answers 200 all the same.
Answer(result) ==
  /\ request' = "answered"
  /\ answer' = result
  /\ UNCHANGED <<vars, updates, cell, row>>

NoDatabase == Serves /\ request = "query" /\ env.database = "none" /\ Answer(Nil)

\* The first use of the connection.
Query ==
  /\ Serves
  /\ request = "query"
  /\ env.database # "none"
  /\ \/ /\ row' = cell
        /\ request' = "rows"
        /\ UNCHANGED <<vars, updates, cell, answer>>
     \/ Answer(Error)

\* rows.Next is false when there is no row, and also when the connection is lost
\* before the row has come: the code does not ask rows.Err which it was.
NoRow == Serves /\ request = "rows" /\ Answer(Nil)

\* A time, or a value that ParseInt refuses.
Parse ==
  Serves /\ request = "rows" /\ row \notin {Nil, Null} /\ Answer(IF row \in Times THEN row ELSE Error)

Kill == at' = "killed" /\ UNCHANGED <<env, err, roots, updates, cell, request, row, answer>>

\* rows.Scan cannot store NULL in a string: log.Fatal.
Fatal == Serves /\ request = "rows" /\ row = Null /\ Kill

MetadataNext ==
  \/ Next /\ UNCHANGED <<updates, cell, request, row, answer>>
  \/ Write \/ Receive \/ NoDatabase \/ Query \/ NoRow \/ Parse \/ Fatal

MetadataSpec == MetadataInit /\ [][MetadataNext]_metadataVars
=============================================================================
