----------------------------- MODULE ScanReport -----------------------------
(***************************************************************************)
(* From a Clair layer to the report that Harbor gets: the transformer      *)
(* turns severities into numbers, the store writes them as JSON, the       *)
(* worker's last UpdateStatus reads and writes them again, GET reads and   *)
(* writes them once more.                                                  *)
(*                                                                         *)
(* A layer is a sequence of features, a feature the severities of its      *)
(* vulnerabilities: a word in any mix of cases, so that only the word      *)
(* counts. A vulnerability is named by its place in the layer.             *)
(***************************************************************************)
EXTENDS Integers, Sequences

CONSTANTS
  Words,        \* the severities Clair may send
  MaxFeatures,  \* bound of the features of a layer
  MaxVulns      \* bound of the vulnerabilities of a feature

\* The severities of Harbor, least first, and their names in JSON.
Names == <<"None", "Unknown", "Negligible", "Low", "Medium", "High", "Critical">>

Severity == 0..Len(Names)

SevNone == 1
SevUnknown == 2

ASSUME ScanReportAssumption == MaxFeatures \in Nat /\ MaxVulns \in Nat

VARIABLES
  layer,     \* the layer GetLayer returned
  at,        \* where the report is
  next,      \* the feature whose vulnerabilities are listed next
  report,    \* the report in memory
  json       \* the report in Redis, or in the answer

vars == <<layer, at, next, report, json>>

NoReport == [severity |-> 0, items |-> <<>>]

SeqUpTo(S, n) == UNION {[1..len -> S] : len \in 0..n}

Layers == SeqUpTo(SeqUpTo(Words, MaxVulns), MaxFeatures)

TypeOK ==
  /\ layer \in Layers
  /\ next \in 1..(Len(layer) + 1)
  /\ at \in {"worker", "listing", "saved", "reread", "finished", "polled", "answered"}
  /\ report.severity \in Severity
  /\ \A i \in DOMAIN report.items : report.items[i].severity \in Severity \ {0}

Init ==
  /\ layer \in Layers
  /\ at = "worker"
  /\ next = 1
  /\ report = NoReport
  /\ json = NoReport

-----------------------------------------------------------------------------
\* Mutant: a word the adapter does not know is no vulnerability.
ToHarborSeverityZero(word) ==
  CASE word = "negligible" -> 3
    [] word = "low"        -> 4
    [] word = "medium"     -> 5
    [] word = "high"       -> 6
    [] word = "critical"   -> 7
    [] word = "unknown"    -> SevUnknown
    [] OTHER               -> 0

ToHarborSeverity(word) ==
  CASE word = "negligible" -> 3
    [] word = "low"        -> 4
    [] word = "medium"     -> 5
    [] word = "high"       -> 6
    [] word = "critical"   -> 7
    [] OTHER               -> SevUnknown

WorstOf(sevs) ==
  CHOOSE sev \in sevs \cup {SevNone} : \A k \in sevs \cup {SevNone} : k <= sev

\* The worst severity of a feature.
FeatureSeverity(feature) == WorstOf({ToHarborSeverity(feature[v]) : v \in DOMAIN feature})

\* Mutant: a feature stands for its last vulnerability.
ToComponentsOverviewLast(features) ==
  WorstOf({ToHarborSeverity(features[i][Len(features[i])]) : i \in {i \in DOMAIN features : features[i] # <<>>}})

\* The set of the features' severities is built first, then its maximum.
ToComponentsOverview(features) == WorstOf({FeatureSeverity(features[i]) : i \in DOMAIN features})

-----------------------------------------------------------------------------
\* The name of a severity in JSON; that of 0, which is in no table, is "".
MarshalSeverity(sev) == IF sev = 0 THEN "" ELSE Names[sev]

\* Mutant: the table of names lacks the severity of a clean image.
UnmarshalSeverityNoNone(name) ==
  IF \E sev \in 2..Len(Names) : Names[sev] = name
  THEN CHOOSE sev \in 2..Len(Names) : Names[sev] = name
  ELSE 0

\* A name that is in no table is the zero value.
UnmarshalSeverity(name) ==
  IF \E sev \in DOMAIN Names : Names[sev] = name
  THEN CHOOSE sev \in DOMAIN Names : Names[sev] = name
  ELSE 0

MapSeverities(r, F(_)) ==
  [severity |-> F(r.severity),
   items |-> [i \in DOMAIN r.items |-> [r.items[i] EXCEPT !.severity = F(@)]]]

Marshal == json' = MapSeverities(report', MarshalSeverity)

Unmarshal == report' = MapSeverities(json, UnmarshalSeverity)

\* ToHarborScanReport: the overview, and a list that is still empty.
Transform ==
  /\ at = "worker"
  /\ at' = "listing"
  /\ report' = [severity |-> ToComponentsOverview(layer), items |-> <<>>]
  /\ UNCHANGED <<layer, next, json>>

ItemsOf(i) ==
  [v \in DOMAIN layer[i] |-> [id |-> <<i, v>>, severity |-> ToHarborSeverity(layer[i][v])]]

\* Mutant: the list ends at the first feature without vulnerabilities.
AddItemsOrReturn ==
  /\ at = "listing"
  /\ next <= Len(layer)
  /\ next' = IF layer[next] = <<>> THEN Len(layer) + 1 ELSE next + 1
  /\ report' = [report EXCEPT !.items = @ \o ItemsOf(next)]
  /\ UNCHANGED <<layer, at, json>>

\* toVulnerabilityItems: one item for each vulnerability of a feature, in their order.
AddItems ==
  /\ at = "listing"
  /\ next <= Len(layer)
  /\ next' = next + 1
  /\ report' = [report EXCEPT !.items = @ \o ItemsOf(next)]
  /\ UNCHANGED <<layer, at, json>>

\* UpdateReport of the record.
Save ==
  /\ at = "listing"
  /\ next > Len(layer)
  /\ at' = "saved"
  /\ UNCHANGED <<layer, next, report>>
  /\ Marshal

\* UpdateStatus(Finished), by reading and writing the whole record.
Reread ==
  /\ at = "saved"
  /\ at' = "reread"
  /\ Unmarshal
  /\ UNCHANGED <<layer, next, json>>

Rewrite ==
  /\ at = "reread"
  /\ at' = "finished"
  /\ UNCHANGED <<layer, next, report>>
  /\ Marshal

\* GET /scan/{id}/report of the finished record.
Poll ==
  /\ at = "finished"
  /\ at' = "polled"
  /\ Unmarshal
  /\ UNCHANGED <<layer, next, json>>

Answer ==
  /\ at = "polled"
  /\ at' = "answered"
  /\ UNCHANGED <<layer, next, report>>
  /\ Marshal

Next == Transform \/ AddItems \/ Save \/ Reread \/ Rewrite \/ Poll \/ Answer

Spec == Init /\ [][Next]_vars

-----------------------------------------------------------------------------
\* The overview and the list of a report are computed apart from one another
\* and must agree after every encoding: the overview of the answer is the name of
\* the worst item, or None when there is none.
OverviewIsWorstItem ==
  at = "answered" =>
    LET listed == {json.items[i].severity : i \in DOMAIN json.items}
        rank(name) == CHOOSE sev \in DOMAIN Names : Names[sev] = name
    IN  IF listed = {} THEN json.severity = "None"
        ELSE /\ json.severity \in listed
             /\ \A name \in listed : rank(name) <= rank(json.severity)

\* Harbor is told of every vulnerability of every feature once, whatever other
\* features have none, with the name of its own severity.
EveryVulnerabilityIsListed ==
  at = "answered" =>
    /\ {json.items[i].id : i \in DOMAIN json.items}
         = UNION {{<<f, v>> : v \in DOMAIN layer[f]} : f \in DOMAIN layer}
    /\ \A i, k \in DOMAIN json.items : json.items[i].id = json.items[k].id => i = k
    /\ \A i \in DOMAIN json.items :
         LET place == json.items[i].id
         IN  json.items[i].severity = Names[ToHarborSeverity(layer[place[1]][place[2]])]
=============================================================================
