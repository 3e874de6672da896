--------------------------- MODULE MetadataProofs ---------------------------
(***************************************************************************)
(* Theorems about Startup and Metadata for any number of CA files, any     *)
(* choice of Redis URLs and any number of updates.                         *)
(***************************************************************************)
EXTENDS Metadata, SequenceTheorems, TLAPS

(***************************************************************************)
(* What each step of the start leaves behind it.                           *)
(***************************************************************************)

AfterParse == {"roots", "cas", "database", "config", "pool", "clair", "server", "http", "https"}
AfterCAs == {"database", "config", "pool", "clair", "server", "http", "https"}
AfterDatabase == {"config", "pool", "clair", "server", "http", "https"}
AfterConfig == {"pool", "clair", "server", "http", "https"}
AfterPool == {"clair", "server", "http", "https"}
AfterClient == {"server", "http", "https"}

Checked ==
  /\ at \in AfterParse => env.variables = "parsed"
  /\ \A i \in 1..roots : env.cas[i] = "certificates"
  /\ at \in AfterCAs => roots = Len(env.cas)
  /\ at \in AfterDatabase => env.database # "garbled"
  /\ at \in AfterPool => env.redis \in {"redis", "monitor", "path"}
  /\ at \in AfterClient => env.database \in {"none", "postgres"}

\* From LoadRoots to ReturnConfig the one error variable may hold the error of
\* the system's CAs.
ErrorIsOfRoots ==
  /\ at \in {"parse", "roots"} \cup AfterConfig => ~err
  /\ at \in {"cas", "database"} /\ err => env.roots = "failed"
  /\ at = "config" /\ err => env.roots = "failed" /\ env.database = "none"

StartInv == TypeOK /\ Checked /\ ErrorIsOfRoots /\ RefusesOnlyUnusable

LEMMA EnvironmentType ==
  ASSUME env \in Environments
  PROVE  /\ env.variables \in {"parsed", "malformed"} /\ env.roots \in {"loaded", "failed"}
         /\ env.redis \in RedisKinds /\ env.database \in DatabaseKinds
         /\ Len(env.cas) \in Nat /\ DOMAIN env.cas = 1..Len(env.cas)
         /\ \A i \in 1..Len(env.cas) : env.cas[i] \in CAKinds
<1>1. PICK n \in 0..MaxCAs : env.cas \in [1..n -> CAKinds]
  BY DEF Environments
<1>2. n \in Nat
  BY StartupAssumption DEF StartupAssumption
<1>3. env.cas \in Seq(CAKinds)
  BY <1>1, <1>2, SeqDef
<1> QED BY <1>3, LenProperties, StartupAssumption DEF Environments, StartupAssumption

LEMMA StartInit == Init => StartInv
<1> SUFFICES ASSUME Init PROVE StartInv
  OBVIOUS
<1>1. TypeOK
  <2>1. err \in BOOLEAN
    BY Zenon DEF Init
  <2>2. env \in Environments /\ at = "parse" /\ roots = 0
    BY DEF Init
  <2>3. roots \in 0..Len(env.cas)
    BY <2>2, EnvironmentType
  <2> QED BY <2>1, <2>2, <2>3 DEF TypeOK
<1>2. Checked /\ ErrorIsOfRoots /\ RefusesOnlyUnusable
  BY DEF Init, Checked, ErrorIsOfRoots, RefusesOnlyUnusable, AfterParse, AfterCAs, AfterDatabase,
     AfterConfig, AfterPool, AfterClient
<1> QED BY <1>1, <1>2 DEF StartInv

LEMMA StartNext == ASSUME StartInv, Next PROVE StartInv'
<1> USE DEF StartInv
<1>1. /\ env \in Environments /\ env' = env /\ err \in BOOLEAN /\ roots \in 0..Len(env.cas)
      /\ env.variables \in {"parsed", "malformed"} /\ env.roots \in {"loaded", "failed"}
      /\ env.redis \in RedisKinds /\ env.database \in DatabaseKinds
      /\ Len(env.cas) \in Nat /\ DOMAIN env.cas = 1..Len(env.cas)
      /\ \A i \in 1..Len(env.cas) : env.cas[i] \in CAKinds
  BY EnvironmentType DEF TypeOK, Next, ParseVariables, LoadRoots, AppendCA, ParseDatabaseURL,
     ReturnConfig, NewPool, NewClient, Listen, Check
<1> USE DEF TypeOK, Checked, ErrorIsOfRoots, RefusesOnlyUnusable, Sound, Usable, AfterParse, AfterCAs,
            AfterDatabase, AfterConfig, AfterPool, AfterClient
<1>2. CASE ParseVariables
  BY <1>1, <1>2 DEF ParseVariables, Check
<1>3. CASE LoadRoots
  BY <1>1, <1>3 DEF LoadRoots
<1>4. CASE AppendCA
  BY <1>1, <1>4 DEF AppendCA
<1>5. CASE ParseDatabaseURL
  <2>1. CASE env.database = "none"
    BY <1>1, <1>5, <2>1 DEF ParseDatabaseURL
  <2>2. CASE env.database = "garbled"
    BY <1>1, <1>5, <2>2 DEF ParseDatabaseURL, Check
  <2>3. CASE env.database \notin {"none", "garbled"}
    BY <1>1, <1>5, <2>3 DEF ParseDatabaseURL, Check
  <2> QED BY <2>1, <2>2, <2>3
<1>6. CASE ReturnConfig
  BY <1>1, <1>6 DEF ReturnConfig, Check
<1>7. CASE NewPool
  BY <1>1, <1>7 DEF NewPool, Check, ParsesAsSentinel, RedisKinds
<1>8. CASE NewClient
  BY <1>1, <1>8 DEF NewClient, Check, DatabaseKinds
<1>9. CASE Listen
  BY <1>1, <1>9 DEF Listen
<1> QED BY <1>2, <1>3, <1>4, <1>5, <1>6, <1>7, <1>8, <1>9 DEF Next

-----------------------------------------------------------------------------
(***************************************************************************)
(* A request for metadata.                                                 *)
(***************************************************************************)

RequestInv ==
  /\ updates \in 0..MaxUpdates
  /\ request \in {"none", "query", "rows", "answered"}
  /\ cell \in Cells /\ row \in Cells
  /\ answer \in Times \cup {Nil, Error}

Inv == StartInv /\ RequestInv

LEMMA StartUntouched == ASSUME StartInv, UNCHANGED vars PROVE StartInv'
BY DEF StartInv, TypeOK, Checked, ErrorIsOfRoots, RefusesOnlyUnusable, Sound, Usable, vars

LEMMA InvHolds == MetadataSpec => []Inv
<1>1. ASSUME MetadataInit PROVE Inv
  BY <1>1, StartInit, MetadataAssumption DEF MetadataInit, Inv, RequestInv, Init, Cells, MetadataAssumption
<1>2. ASSUME Inv, [MetadataNext]_metadataVars PROVE Inv'
  <2> USE <1>2 DEF Inv
  <2>1. CASE Next /\ UNCHANGED <<updates, cell, request, row, answer>>
    BY <2>1, StartNext DEF RequestInv
  <2>2. CASE Write
    <3>1. cell' \in Cells /\ updates' \in 0..MaxUpdates
      BY <2>2, MetadataAssumption DEF Write, Cells, Times, RequestInv, MetadataAssumption
    <3> QED BY <2>2, <3>1, StartUntouched DEF Write, RequestInv, vars
  <2>3. CASE Receive
    BY <2>3, StartUntouched DEF Receive, RequestInv, Serves, vars
  <2>4. CASE NoDatabase
    BY <2>4, StartUntouched DEF NoDatabase, Answer, RequestInv, vars
  <2>5. CASE Query
    BY <2>5, StartUntouched DEF Query, Answer, RequestInv, vars
  <2>6. CASE NoRow
    BY <2>6, StartUntouched DEF NoRow, Answer, RequestInv, vars
  <2>7. CASE Parse
    BY <2>7, StartUntouched DEF Parse, Answer, RequestInv, vars
  <2>8. CASE Fatal
    <3>1. StartInv'
      BY <2>8 DEF Fatal, Kill, Serves, StartInv, TypeOK, Checked, ErrorIsOfRoots,
         RefusesOnlyUnusable, Sound, Usable, AfterParse, AfterCAs, AfterDatabase, AfterConfig, AfterPool,
         AfterClient
    <3> QED BY <2>8, <3>1 DEF Fatal, Kill, RequestInv
  <2>9. CASE UNCHANGED metadataVars
    BY <2>9, StartUntouched DEF metadataVars, vars, RequestInv
  <2> QED BY <2>1, <2>2, <2>3, <2>4, <2>5, <2>6, <2>7, <2>8, <2>9 DEF MetadataNext
<1> QED BY <1>1, <1>2, PTL DEF MetadataSpec

-----------------------------------------------------------------------------
\* Type correctness, from the start of the process to its last answer.
THEOREM TypeCorrect == MetadataSpec => []MetadataTypeOK
<1>1. Inv => MetadataTypeOK
  BY DEF Inv, StartInv, RequestInv, MetadataTypeOK
<1> QED BY <1>1, InvHolds, PTL

\* The adapter serves only with sound variables, CAs and database, all CAs loaded,
\* however many there are, and a Redis URL of a kind that NewPool takes; with
\* Sentinel that includes one whose monitor name is empty.
THEOREM OnlySoundIsServed == MetadataSpec => []ServesOnlySound
<1>1. ASSUME Inv PROVE ServesOnlySound
  <2> SUFFICES ASSUME Serves
               PROVE  /\ Sound /\ env.redis \in {"redis", "monitor", "path"}
                      /\ roots = Len(env.cas) /\ ~err
    BY DEF ServesOnlySound
  <2>1. at \in {"http", "https"} /\ env \in Environments
    BY <1>1 DEF Serves, Inv, StartInv, TypeOK
  <2> QED BY <1>1, <2>1, EnvironmentType DEF Inv, StartInv, Checked, ErrorIsOfRoots, Sound, AfterParse,
          AfterCAs, AfterDatabase, AfterConfig, AfterPool, AfterClient
<1> QED BY <1>1, InvHolds, PTL

\* No error outlives the step that made it good, but that of the system's CAs.
THEOREM OnlyUnusableIsRefused == MetadataSpec => []RefusesOnlyUnusable
<1>1. Inv => RefusesOnlyUnusable
  BY DEF Inv, StartInv
<1> QED BY <1>1, InvHolds, PTL
=============================================================================
