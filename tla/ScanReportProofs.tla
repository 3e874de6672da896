-------------------------- MODULE ScanReportProofs --------------------------
(***************************************************************************)
(* Theorems about the report that Harbor gets, for layers of any size and  *)
(* any words for a severity.                                               *)
(***************************************************************************)
EXTENDS ScanReport, SequenceTheorems, TLAPS

Item == [id : Nat \X Nat, severity : 2..7]

Report == [severity : 1..7, items : Seq(Item)]

LEMMA Severities == \A word : ToHarborSeverity(word) \in 2..7
BY DEF ToHarborSeverity, SevUnknown

-----------------------------------------------------------------------------
(***************************************************************************)
(* The severities in JSON.                                                 *)
(***************************************************************************)

LEMMA SevenNames ==
  /\ DOMAIN Names = 1..7 /\ Len(Names) = 7
  /\ Names[1] = "None"
  /\ \A sev \in 1..7 : Names[sev] # ""
  /\ \A a, b \in 1..7 : Names[a] = Names[b] => a = b
BY DEF Names

LEMMA EightSeverities == Severity = 0..7
BY SevenNames, Zenon DEF Severity

LEMMA NameIsWritten ==
  ASSUME NEW sev \in 1..7
  PROVE  MarshalSeverity(sev) = Names[sev]
<1>1. sev # 0
  OBVIOUS
<1> QED BY <1>1, Zenon DEF MarshalSeverity

\* A name is read as the severity it was written for.
LEMMA NameIsRead ==
  ASSUME NEW sev \in 1..7
  PROVE  UnmarshalSeverity(MarshalSeverity(sev)) = sev
<1>1. MarshalSeverity(sev) = Names[sev]
  BY NameIsWritten
<1>2. \A other \in 1..7 : Names[other] = Names[sev] => other = sev
  BY SevenNames
<1> QED BY <1>1, <1>2, SevenNames DEF UnmarshalSeverity

\* So a report that is written and read again is the same.
LEMMA ReportIsRead ==
  ASSUME NEW r \in Report
  PROVE  MapSeverities(MapSeverities(r, MarshalSeverity), UnmarshalSeverity) = r
<1> DEFINE written == MapSeverities(r, MarshalSeverity)
           read == MapSeverities(written, UnmarshalSeverity)
<1>1. /\ written.severity = MarshalSeverity(r.severity)
      /\ DOMAIN written.items = DOMAIN r.items
      /\ \A i \in DOMAIN r.items :
           written.items[i] = [r.items[i] EXCEPT !.severity = MarshalSeverity(r.items[i].severity)]
  BY DEF MapSeverities
<1>2. /\ read = [severity |-> read.severity, items |-> read.items]
      /\ read.severity = UnmarshalSeverity(written.severity)
      /\ read.items = [i \in DOMAIN written.items |->
           [written.items[i] EXCEPT !.severity = UnmarshalSeverity(written.items[i].severity)]]
  BY DEF MapSeverities
<1> HIDE DEF written, read
<1>3. r = [severity |-> r.severity, items |-> r.items] /\ r.severity \in 1..7 /\ r.items \in Seq(Item)
  BY DEF Report
<1>4. read.severity = r.severity
  BY <1>1, <1>2, <1>3, NameIsRead
<1>5. read.items = r.items
  <2>1. r.items = [i \in DOMAIN r.items |-> r.items[i]]
    BY <1>3
  <2>2. ASSUME NEW i \in DOMAIN r.items
        PROVE  read.items[i] = r.items[i]
    <3>1. r.items[i] \in Item
      BY <1>3
    <3>2. written.items[i] = [r.items[i] EXCEPT !.severity = MarshalSeverity(r.items[i].severity)]
      BY <1>1
    <3>3. written.items[i].severity = MarshalSeverity(r.items[i].severity)
      BY <3>1, <3>2 DEF Item
    <3>4. UnmarshalSeverity(written.items[i].severity) = r.items[i].severity
      BY <3>1, <3>3, NameIsRead DEF Item
    <3>5. read.items[i] = [written.items[i] EXCEPT !.severity = r.items[i].severity]
      BY <1>1, <1>2, <3>4
    <3> QED BY <3>1, <3>2, <3>5 DEF Item
  <2> QED BY <1>1, <1>2, <2>1, <2>2
<1> QED BY <1>2, <1>3, <1>4, <1>5 DEF written, read

-----------------------------------------------------------------------------
(***************************************************************************)
(* The overview.                                                           *)
(***************************************************************************)

LEMMA WorstIs ==
  ASSUME NEW sevs \in SUBSET (1..7)
  PROVE  /\ WorstOf(sevs) \in sevs \cup {1}
         /\ \A sev \in sevs : sev <= WorstOf(sevs)
<1>1. \E sev \in sevs \cup {1} : \A k \in sevs \cup {1} : k <= sev
  OBVIOUS
<1> QED BY <1>1 DEF WorstOf, SevNone

LEMMA FeatureIs ==
  ASSUME NEW f
  PROVE  /\ FeatureSeverity(f) \in 1..7
         /\ \A v \in DOMAIN f : ToHarborSeverity(f[v]) <= FeatureSeverity(f)
         /\ FeatureSeverity(f) # 1 => \E v \in DOMAIN f : ToHarborSeverity(f[v]) = FeatureSeverity(f)
<1> DEFINE sevs == {ToHarborSeverity(f[v]) : v \in DOMAIN f}
<1>1. sevs \subseteq 1..7
  BY Severities
<1>2. \A v \in DOMAIN f : ToHarborSeverity(f[v]) \in sevs
  OBVIOUS
<1>3. \A sev \in sevs : \E v \in DOMAIN f : ToHarborSeverity(f[v]) = sev
  OBVIOUS
<1>4. FeatureSeverity(f) = WorstOf(sevs)
  BY DEF FeatureSeverity
<1> HIDE DEF sevs
<1>5. FeatureSeverity(f) \in sevs \cup {1} /\ \A sev \in sevs : sev <= FeatureSeverity(f)
  BY <1>1, <1>4, WorstIs
<1>6. FeatureSeverity(f) \in 1..7
  <2>1. 1 \in 1..7
    OBVIOUS
  <2> QED BY <1>1, <1>5, <2>1, Zenon
<1>7. \A v \in DOMAIN f : ToHarborSeverity(f[v]) <= FeatureSeverity(f)
  BY <1>2, <1>5
<1>8. FeatureSeverity(f) # 1 => \E v \in DOMAIN f : ToHarborSeverity(f[v]) = FeatureSeverity(f)
  BY <1>3, <1>5
<1> QED BY <1>6, <1>7, <1>8

LEMMA OverviewIs ==
  LET overview == ToComponentsOverview(layer)
  IN  /\ overview \in 1..7
      /\ \A f \in DOMAIN layer : \A v \in DOMAIN layer[f] : ToHarborSeverity(layer[f][v]) <= overview
      /\ overview # 1 =>
           \E f \in DOMAIN layer : \E v \in DOMAIN layer[f] : ToHarborSeverity(layer[f][v]) = overview
<1> DEFINE sevs == {FeatureSeverity(layer[f]) : f \in DOMAIN layer}
           overview == ToComponentsOverview(layer)
<1>1. \A f \in DOMAIN layer : FeatureSeverity(layer[f]) \in 1..7
  BY FeatureIs
<1>2. \A f \in DOMAIN layer : FeatureSeverity(layer[f]) \in sevs
  OBVIOUS
<1>3. \A sev \in sevs : \E f \in DOMAIN layer : FeatureSeverity(layer[f]) = sev
  OBVIOUS
<1>4. overview = WorstOf(sevs)
  BY DEF ToComponentsOverview
<1> HIDE DEF sevs, overview
<1>5. sevs \subseteq 1..7
  BY <1>1, <1>3
<1>6. overview \in sevs \cup {1} /\ \A sev \in sevs : sev <= overview
  BY <1>4, <1>5, WorstIs
<1>7. overview \in 1..7
  BY <1>5, <1>6
<1>8. ASSUME NEW f \in DOMAIN layer, NEW v \in DOMAIN layer[f]
      PROVE  ToHarborSeverity(layer[f][v]) <= overview
  <2>1. ToHarborSeverity(layer[f][v]) <= FeatureSeverity(layer[f])
    BY FeatureIs
  <2>2. FeatureSeverity(layer[f]) <= overview
    BY <1>2, <1>6
  <2> QED BY <1>1, <1>7, <2>1, <2>2, Severities
<1>9. ASSUME overview # 1
      PROVE  \E f \in DOMAIN layer : \E v \in DOMAIN layer[f] : ToHarborSeverity(layer[f][v]) = overview
  <2>1. PICK f \in DOMAIN layer : FeatureSeverity(layer[f]) = overview
    BY <1>3, <1>6, <1>9
  <2> QED BY <1>9, <2>1, FeatureIs
<1> QED BY <1>7, <1>8, <1>9 DEF overview

-----------------------------------------------------------------------------
(***************************************************************************)
(* The list.                                                               *)
(***************************************************************************)

\* The places of the vulnerabilities of the first n features.
Places(n) == {p \in Nat \X Nat : p[1] \in 1..n /\ p[1] \in DOMAIN layer /\ p[2] \in DOMAIN layer[p[1]]}

\* The list has an item for each vulnerability of the first n features.
Lists(items, n) ==
  /\ items \in Seq(Item)
  /\ \A i \in 1..Len(items) :
       /\ items[i].id \in Places(n)
       /\ items[i].severity = ToHarborSeverity(layer[items[i].id[1]][items[i].id[2]])
  /\ \A p \in Places(n) : \E i \in 1..Len(items) : items[i].id = p
  /\ \A i, k \in 1..Len(items) : items[i].id = items[k].id => i = k

LayerOK == layer \in Seq(Seq(Words))

LEMMA LayersAreSequences == \A l \in Layers : l \in Seq(Seq(Words))
<1>1. ASSUME NEW S, NEW n, NEW s \in SeqUpTo(S, n) PROVE s \in Seq(S)
  BY <1>1 DEF SeqUpTo
<1>2. SeqUpTo(Words, MaxVulns) \subseteq Seq(Words)
  BY <1>1
<1> QED BY <1>1, <1>2, SeqMonotonic DEF Layers

LEMMA FunctionIsSeq ==
  ASSUME NEW S, NEW n \in Nat, NEW s \in [1..n -> S]
  PROVE  s \in Seq(S) /\ Len(s) = n
OBVIOUS

\* The items of one feature.
LEMMA ItemsOfIs ==
  ASSUME LayerOK, NEW f \in 1..Len(layer)
  PROVE  /\ ItemsOf(f) \in Seq(Item)
         /\ Len(ItemsOf(f)) = Len(layer[f])
         /\ \A v \in 1..Len(layer[f]) :
              /\ ItemsOf(f)[v].id = <<f, v>>
              /\ ItemsOf(f)[v].severity = ToHarborSeverity(layer[f][v])
<1>1. layer[f] \in Seq(Words) /\ Len(layer[f]) \in Nat /\ DOMAIN layer[f] = 1..Len(layer[f]) /\ f \in Nat
  BY DEF LayerOK
<1>2. ItemsOf(f) = [v \in 1..Len(layer[f]) |->
                      [id |-> <<f, v>>, severity |-> ToHarborSeverity(layer[f][v])]]
  BY <1>1 DEF ItemsOf
<1>3. \A v \in 1..Len(layer[f]) :
        [id |-> <<f, v>>, severity |-> ToHarborSeverity(layer[f][v])] \in Item
  BY <1>1, Severities DEF Item
<1>4. ItemsOf(f) \in [1..Len(layer[f]) -> Item]
  BY <1>2, <1>3
<1>5. ItemsOf(f) \in Seq(Item) /\ Len(ItemsOf(f)) = Len(layer[f])
  BY <1>1, <1>4, FunctionIsSeq
<1>6. ASSUME NEW v \in 1..Len(layer[f])
      PROVE  /\ ItemsOf(f)[v].id = <<f, v>>
             /\ ItemsOf(f)[v].severity = ToHarborSeverity(layer[f][v])
  <2>1. ItemsOf(f)[v] = [id |-> <<f, v>>, severity |-> ToHarborSeverity(layer[f][v])]
    BY <1>2
  <2> QED BY <2>1
<1> QED BY <1>5, <1>6

LEMMA PlacesGrow ==
  ASSUME LayerOK, NEW n \in Nat, n + 1 \in 1..Len(layer)
  PROVE  Places(n + 1) = Places(n) \cup {<<n + 1, v>> : v \in 1..Len(layer[n + 1])}
<1>1. DOMAIN layer = 1..Len(layer) /\ DOMAIN layer[n + 1] = 1..Len(layer[n + 1])
      /\ Len(layer[n + 1]) \in Nat
  BY DEF LayerOK
<1>2. \A p \in Places(n + 1) : p \in Places(n) \/ p[1] = n + 1
  BY DEF Places
<1>3. \A p \in Places(n + 1) : p[1] = n + 1 => p = <<n + 1, p[2]>> /\ p[2] \in 1..Len(layer[n + 1])
  BY <1>1 DEF Places
<1>4. Places(n) \subseteq Places(n + 1)
  BY DEF Places
<1>5. \A v \in 1..Len(layer[n + 1]) : <<n + 1, v>> \in Places(n + 1)
  BY <1>1 DEF Places
<1> QED BY <1>2, <1>3, <1>4, <1>5

\* A turn of the loop.
LEMMA ListGrows ==
  ASSUME LayerOK, NEW n \in Nat, n + 1 \in 1..Len(layer), NEW items, Lists(items, n)
  PROVE  Lists(items \o ItemsOf(n + 1), n + 1)
<1> DEFINE more == ItemsOf(n + 1)
           both == items \o more
<1>1. /\ more \in Seq(Item) /\ Len(more) = Len(layer[n + 1]) /\ Len(more) \in Nat
      /\ \A v \in 1..Len(more) :
           /\ more[v].id = <<n + 1, v>>
           /\ more[v].severity = ToHarborSeverity(layer[n + 1][v])
  BY ItemsOfIs, LenProperties
<1> HIDE DEF more
<1>2. items \in Seq(Item) /\ Len(items) \in Nat
  BY LenProperties DEF Lists
<1>3. /\ both \in Seq(Item) /\ Len(both) = Len(items) + Len(more)
      /\ \A i \in 1..Len(both) :
           both[i] = IF i <= Len(items) THEN items[i] ELSE more[i - Len(items)]
  <2>1. more \in Seq(Item)
    BY <1>1
  <2>2. /\ both \in Seq(Item) /\ Len(both) = Len(items) + Len(more)
        /\ \A i \in 1..(Len(items) + Len(more)) :
             both[i] = IF i <= Len(items) THEN items[i] ELSE more[i - Len(items)]
    BY <1>2, <2>1, ConcatProperties, Zenon
  <2> QED BY <2>2, Zenon
<1> HIDE DEF both
<1>4. \A i \in 1..Len(items) : i \in 1..Len(both) /\ both[i] = items[i]
  BY <1>1, <1>2, <1>3
<1>5. ASSUME NEW v \in 1..Len(more)
      PROVE  Len(items) + v \in 1..Len(both) /\ both[Len(items) + v] = more[v]
  <2>1. /\ Len(items) + v \in 1..Len(both) /\ ~(Len(items) + v <= Len(items))
        /\ (Len(items) + v) - Len(items) = v
    BY <1>1, <1>2, <1>3
  <2>2. both[Len(items) + v] = more[(Len(items) + v) - Len(items)]
    BY <1>3, <2>1
  <2> QED BY <2>1, <2>2
<1>6. \A i \in 1..Len(both) :
        \/ i \in 1..Len(items)
        \/ i - Len(items) \in 1..Len(more) /\ Len(items) + (i - Len(items)) = i
  BY <1>1, <1>2, <1>3
<1>7. Places(n + 1) = Places(n) \cup {<<n + 1, v>> : v \in 1..Len(more)}
  BY <1>1, PlacesGrow
<1>8. \A p \in Places(n) : p[1] # n + 1
  BY DEF Places
<1>9. ASSUME NEW i \in 1..Len(both)
      PROVE  /\ both[i].id \in Places(n + 1)
             /\ both[i].severity = ToHarborSeverity(layer[both[i].id[1]][both[i].id[2]])
  <2>1. CASE i \in 1..Len(items)
    BY <1>4, <1>7, <2>1 DEF Lists
  <2>2. CASE i \notin 1..Len(items)
    <3>1. PICK v \in 1..Len(more) : both[i] = more[v]
      BY <1>5, <1>6, <2>2
    <3>2. both[i].id = <<n + 1, v>> /\ both[i].severity = ToHarborSeverity(layer[n + 1][v])
      BY <1>1, <3>1
    <3> QED BY <1>7, <3>2
  <2> QED BY <2>1, <2>2
<1>10. ASSUME NEW p \in Places(n + 1)
       PROVE  \E i \in 1..Len(both) : both[i].id = p
  <2>1. CASE p \in Places(n)
    BY <1>4, <2>1 DEF Lists
  <2>2. CASE p \notin Places(n)
    <3>1. PICK v \in 1..Len(more) : p = <<n + 1, v>>
      BY <1>7, <2>2
    <3> QED BY <1>1, <1>5, <3>1
  <2> QED BY <2>1, <2>2
<1>11. ASSUME NEW i \in 1..Len(both), NEW k \in 1..Len(both), both[i].id = both[k].id
       PROVE  i = k
  <2>1. CASE i \in 1..Len(items) /\ k \in 1..Len(items)
    BY <1>4, <1>11, <2>1 DEF Lists
  <2>2. ASSUME NEW j \in 1..Len(both), j \notin 1..Len(items)
        PROVE  /\ j - Len(items) \in 1..Len(more)
               /\ both[j].id = <<n + 1, j - Len(items)>>
               /\ both[j].id[1] = n + 1
    <3>1. /\ j - Len(items) \in 1..Len(more)
          /\ Len(items) + (j - Len(items)) = j
      BY <1>6, <2>2
    <3>2. both[j] = more[j - Len(items)]
      BY <1>5, <3>1
    <3>3. more[j - Len(items)].id = <<n + 1, j - Len(items)>>
      BY <1>1, <3>1
    <3> QED BY <3>1, <3>2, <3>3
  <2>3. \A j \in 1..Len(items) : both[j].id[1] # n + 1
    BY <1>4, <1>8 DEF Lists
  <2>4. CASE i \notin 1..Len(items) /\ k \notin 1..Len(items)
    <3>1. <<n + 1, i - Len(items)>> = <<n + 1, k - Len(items)>>
      BY <1>11, <2>2, <2>4
    <3>2. i - Len(items) = k - Len(items)
      BY <3>1
    <3> QED BY <1>2, <1>3, <3>2
  <2> QED BY <1>11, <2>1, <2>2, <2>3, <2>4
<1> QED BY <1>3, <1>9, <1>10, <1>11 DEF Lists, both, more

-----------------------------------------------------------------------------
(***************************************************************************)
(* The report on its way: in memory it has the overview of the layer and   *)
(* the items of the features that were listed; in Redis it is the same     *)
(* report, by the names of its severities.                                 *)
(***************************************************************************)

OnItsWay == {"saved", "reread", "finished", "polled", "answered"}

Inv ==
  /\ layer \in Layers
  /\ at \in {"worker", "listing"} \cup OnItsWay
  /\ next \in 1..(Len(layer) + 1)
  /\ at = "worker" => report = NoReport /\ next = 1
  /\ at # "worker" =>
       /\ report \in Report
       /\ report.severity = ToComponentsOverview(layer)
       /\ Lists(report.items, next - 1)
  /\ at \in OnItsWay =>
       /\ next = Len(layer) + 1
       /\ json = MapSeverities(report, MarshalSeverity)

LEMMA LayerLength ==
  ASSUME Inv
  PROVE  LayerOK /\ Len(layer) \in Nat /\ next \in Nat
<1>1. LayerOK
  BY LayersAreSequences DEF Inv, LayerOK
<1>2. Len(layer) \in Nat
  BY <1>1 DEF LayerOK
<1> QED BY <1>1, <1>2 DEF Inv

LEMMA InvInit == Init => Inv
<1> SUFFICES ASSUME Init PROVE Inv
  OBVIOUS
<1>1. layer \in Seq(Seq(Words))
  BY LayersAreSequences DEF Init
<1>2. 1 \in 1..(Len(layer) + 1)
  BY <1>1, LenProperties
<1> QED BY <1>2 DEF Init, Inv, OnItsWay

LEMMA InvNext == ASSUME Inv, [Next]_vars PROVE Inv'
<1>1. CASE Transform
  <2>1. /\ at' = "listing" /\ at = "worker" /\ UNCHANGED <<layer, next, json>> /\ next = 1
        /\ report' = [severity |-> ToComponentsOverview(layer), items |-> <<>>]
    BY <1>1 DEF Transform, Inv
  <2>2. <<>> \in Seq(Item) /\ Len(<<>>) = 0
    BY EmptySeq
  <2>3. report' \in Report
    BY <2>1, <2>2, OverviewIs DEF Report
  <2>4. Places(0) = {}
    BY DEF Places
  <2>5. Lists(<<>>, 0)
    BY <2>2, <2>4 DEF Lists
  <2>6. Lists(report.items, next - 1)'
    <3>1. report'.items = <<>> /\ next' - 1 = 0 /\ layer' = layer
      BY <2>1
    <3> QED BY <2>5, <3>1 DEF Lists, Places
  <2>7. ToComponentsOverview(layer)' = ToComponentsOverview(layer)
    BY <2>1
  <2> QED BY <2>1, <2>3, <2>6, <2>7 DEF Inv, OnItsWay
<1>2. CASE AddItems
  <2>1. /\ at = "listing" /\ at' = "listing" /\ UNCHANGED <<layer, json>>
        /\ next <= Len(layer) /\ next' = next + 1
        /\ report' = [report EXCEPT !.items = report.items \o ItemsOf(next)]
    BY <1>2 DEF AddItems
  <2>2. LayerOK /\ Len(layer) \in Nat /\ next \in Nat /\ next \in 1..(Len(layer) + 1)
        /\ report \in Report /\ report.severity = ToComponentsOverview(layer)
        /\ Lists(report.items, next - 1)
    BY <2>1, LayerLength DEF Inv
  <2>3. next - 1 \in Nat /\ (next - 1) + 1 = next /\ (next - 1) + 1 \in 1..Len(layer)
        /\ next' - 1 = next /\ next' \in 1..(Len(layer) + 1)
    BY <2>1, <2>2
  <2>4. Lists(report.items \o ItemsOf(next), next)
    BY <2>2, <2>3, ListGrows
  <2>5. report'.items = report.items \o ItemsOf(next) /\ report'.severity = report.severity
    BY <2>1, <2>2 DEF Report
  <2>6. report' \in Report
    BY <2>1, <2>2, <2>4 DEF Report, Lists
  <2>7. Lists(report.items, next - 1)'
    <3> DEFINE items == report.items \o ItemsOf(next)
    <3>1. report'.items = items /\ next' - 1 = next /\ layer' = layer
      BY <2>1, <2>3, <2>5
    <3>2. Lists(items, next)
      BY <2>4
    <3> HIDE DEF items
    <3> QED BY <3>1, <3>2 DEF Lists, Places
  <2>8. ToComponentsOverview(layer)' = ToComponentsOverview(layer)
    BY <2>1
  <2> QED BY <2>1, <2>2, <2>3, <2>5, <2>6, <2>7, <2>8 DEF Inv, OnItsWay
<1>3. ASSUME UNCHANGED <<layer, next, report>>, at # "worker", at' \in OnItsWay, next = Len(layer) + 1,
             json' = MapSeverities(report, MarshalSeverity)
      PROVE  Inv'
  <2>1. ToComponentsOverview(layer)' = ToComponentsOverview(layer)
    BY <1>3
  <2>2. Lists(report.items, next - 1)' <=> Lists(report.items, next - 1)
    BY <1>3 DEF Lists, Places
  <2>3. MapSeverities(report, MarshalSeverity)' = MapSeverities(report, MarshalSeverity)
    BY <1>3
  <2> QED BY <1>3, <2>1, <2>2, <2>3 DEF Inv, OnItsWay
<1>4. CASE Save
  <2>1. next = Len(layer) + 1
    BY <1>4, LayerLength DEF Save, Inv
  <2> QED BY <1>3, <1>4, <2>1 DEF Save, Marshal, OnItsWay
<1>5. CASE Rewrite \/ Answer
  BY <1>3, <1>5 DEF Rewrite, Answer, Marshal, Inv, OnItsWay
<1>6. CASE Reread \/ Poll
  <2>1. /\ at \in OnItsWay /\ at' \in OnItsWay /\ UNCHANGED <<layer, next, json>>
        /\ report' = MapSeverities(json, UnmarshalSeverity)
    BY <1>6 DEF Reread, Poll, Unmarshal, OnItsWay
  <2>2. report \in Report /\ json = MapSeverities(report, MarshalSeverity) /\ next = Len(layer) + 1
    BY <2>1 DEF Inv, OnItsWay
  <2>3. report' = report
    BY <2>1, <2>2, ReportIsRead
  <2> QED BY <1>3, <2>1, <2>2, <2>3 DEF OnItsWay
<1>7. CASE UNCHANGED vars
  <2>1. UNCHANGED <<layer, at, next, report, json>>
    BY <1>7 DEF vars
  <2>2. ToComponentsOverview(layer)' = ToComponentsOverview(layer)
    BY <2>1
  <2>3. Lists(report.items, next - 1)' <=> Lists(report.items, next - 1)
    BY <2>1 DEF Lists, Places
  <2>4. MapSeverities(report, MarshalSeverity)' = MapSeverities(report, MarshalSeverity)
    BY <2>1
  <2> QED BY <2>1, <2>2, <2>3, <2>4 DEF Inv
<1> QED BY <1>1, <1>2, <1>4, <1>5, <1>6, <1>7 DEF Next

LEMMA InvHolds == Spec => []Inv
BY InvInit, InvNext, PTL DEF Spec

-----------------------------------------------------------------------------
\* The variables keep their types, and no severity is without a name.
THEOREM TypeCorrect == Spec => []TypeOK
<1>1. ASSUME Inv PROVE TypeOK
  <2>1. report.severity \in Severity
    BY <1>1, EightSeverities DEF Inv, Report, NoReport
  <2>2. ASSUME NEW i \in DOMAIN report.items
        PROVE  report.items[i].severity \in Severity \ {0}
    <3>1. CASE at = "worker"
      <4>1. report.items = <<>> /\ DOMAIN <<>> = {}
        BY <1>1, <3>1 DEF Inv, NoReport
      <4> QED BY <2>2, <4>1
    <3>2. CASE at # "worker"
      <4>1. report.items[i] \in Item
        BY <1>1, <3>2 DEF Inv, Report
      <4> QED BY <4>1, EightSeverities DEF Item
    <3> QED BY <3>1, <3>2
  <2> QED BY <1>1, <2>1, <2>2 DEF Inv, TypeOK, OnItsWay
<1> QED BY <1>1, InvHolds, PTL

\* What Harbor reads is the report of the whole layer, by names.
LEMMA Answered ==
  ASSUME Inv, at = "answered"
  PROVE  /\ LayerOK
         /\ json.severity = Names[ToComponentsOverview(layer)]
         /\ DOMAIN json.items = 1..Len(report.items)
         /\ \A i \in 1..Len(report.items) :
              /\ json.items[i].id = report.items[i].id
              /\ json.items[i].severity = Names[report.items[i].severity]
         /\ Lists(report.items, Len(layer))
<1>1. /\ report \in Report /\ report.severity = ToComponentsOverview(layer)
      /\ next = Len(layer) + 1 /\ Lists(report.items, next - 1)
      /\ json = MapSeverities(report, MarshalSeverity)
  BY DEF Inv, OnItsWay
<1>2. LayerOK /\ next - 1 = Len(layer)
  BY <1>1, LayerLength
<1>3. \A sev \in 1..7 : MarshalSeverity(sev) = Names[sev]
  BY NameIsWritten
<1>4. report.severity \in 1..7 /\ report.items \in Seq(Item) /\ DOMAIN report.items = 1..Len(report.items)
  BY <1>1 DEF Report
<1>5. json.severity = MarshalSeverity(report.severity) /\ DOMAIN json.items = DOMAIN report.items
  BY <1>1 DEF MapSeverities
<1>6. ASSUME NEW i \in 1..Len(report.items)
      PROVE  /\ json.items[i].id = report.items[i].id
             /\ json.items[i].severity = Names[report.items[i].severity]
  <2>1. report.items[i] \in Item
    BY <1>4
  <2>2. json.items[i] = [report.items[i] EXCEPT !.severity = MarshalSeverity(report.items[i].severity)]
    BY <1>1, <1>4 DEF MapSeverities
  <2> QED BY <1>3, <2>1, <2>2 DEF Item
<1> QED BY <1>1, <1>2, <1>3, <1>4, <1>5, <1>6

\* Harbor gets each vulnerability of each feature once.
THEOREM ListIsComplete == Spec => []EveryVulnerabilityIsListed
<1>1. ASSUME Inv, at = "answered" PROVE EveryVulnerabilityIsListed
  <2> DEFINE ids == {json.items[i].id : i \in DOMAIN json.items}
             places == UNION {{<<f, v>> : v \in DOMAIN layer[f]} : f \in DOMAIN layer}
  <2>1. ids = Places(Len(layer))
    BY <1>1, Answered DEF Lists
  <2>2. places = Places(Len(layer))
    <3>1. DOMAIN layer = 1..Len(layer) /\ \A f \in DOMAIN layer : f \in Nat /\ DOMAIN layer[f] \subseteq Nat
      BY <1>1, Answered DEF LayerOK
    <3>2. ASSUME NEW f \in DOMAIN layer, NEW v \in DOMAIN layer[f] PROVE <<f, v>> \in Places(Len(layer))
      BY <3>1, <3>2 DEF Places
    <3>3. ASSUME NEW p \in Places(Len(layer))
          PROVE  p = <<p[1], p[2]>> /\ p[1] \in DOMAIN layer /\ p[2] \in DOMAIN layer[p[1]]
      BY <3>3 DEF Places
    <3> QED BY <3>2, <3>3
  <2>3. \A i, k \in DOMAIN json.items : json.items[i].id = json.items[k].id => i = k
    BY <1>1, Answered DEF Lists
  <2>4. ASSUME NEW i \in DOMAIN json.items
        PROVE  json.items[i].severity = Names[ToHarborSeverity(layer[json.items[i].id[1]][json.items[i].id[2]])]
    <3>1. i \in 1..Len(report.items) /\ json.items[i].id = report.items[i].id
          /\ json.items[i].severity = Names[report.items[i].severity]
      BY <1>1, Answered
    <3>2. report.items[i].severity = ToHarborSeverity(layer[report.items[i].id[1]][report.items[i].id[2]])
      BY <1>1, <3>1, Answered DEF Lists
    <3> QED BY <3>1, <3>2
  <2> QED BY <2>1, <2>2, <2>3, <2>4 DEF EveryVulnerabilityIsListed
<1> QED BY <1>1, InvHolds, PTL DEF EveryVulnerabilityIsListed

\* The overview that Harbor gets is the worst severity in the list.
THEOREM OverviewAgrees == Spec => []OverviewIsWorstItem
<1>1. ASSUME Inv, at = "answered" PROVE OverviewIsWorstItem
  <2> DEFINE overview == ToComponentsOverview(layer)
             sev(i) == report.items[i].severity
             rank(name) == CHOOSE s \in DOMAIN Names : Names[s] = name
             listed == {json.items[i].severity : i \in DOMAIN json.items}
  <2>1. \A s \in 1..7 : rank(Names[s]) = s
    BY SevenNames
  <2>2. /\ json.severity = Names[overview]
        /\ DOMAIN json.items = 1..Len(report.items)
        /\ \A i \in 1..Len(report.items) : sev(i) \in 2..7 /\ json.items[i].severity = Names[sev(i)]
    <3>1. report.items \in Seq(Item)
      BY <1>1, Answered DEF Lists
    <3>2. \A i \in 1..Len(report.items) : report.items[i] \in Item
      BY <3>1
    <3>3. \A i \in 1..Len(report.items) : report.items[i].severity \in 2..7
      BY <3>2 DEF Item
    <3> QED BY <1>1, <3>3, Answered
  <2>3. overview \in 1..7
    BY OverviewIs
  <2>4. \A i \in 1..Len(report.items) : sev(i) <= overview
    <3> SUFFICES ASSUME NEW i \in 1..Len(report.items) PROVE sev(i) <= overview
      OBVIOUS
    <3>1. report.items[i].id \in Places(Len(layer))
          /\ sev(i) = ToHarborSeverity(layer[report.items[i].id[1]][report.items[i].id[2]])
      BY <1>1, Answered DEF Lists
    <3> QED BY <3>1, OverviewIs DEF Places
  <2>5. overview # 1 => \E i \in 1..Len(report.items) : sev(i) = overview
    <3> SUFFICES ASSUME overview # 1 PROVE \E i \in 1..Len(report.items) : sev(i) = overview
      OBVIOUS
    <3>1. PICK f \in DOMAIN layer : \E v \in DOMAIN layer[f] : ToHarborSeverity(layer[f][v]) = overview
      BY OverviewIs
    <3>2. PICK v \in DOMAIN layer[f] : ToHarborSeverity(layer[f][v]) = overview
      BY <3>1
    <3>3. <<f, v>> \in Places(Len(layer))
      BY <1>1, Answered DEF Places, LayerOK
    <3>4. PICK i \in 1..Len(report.items) : report.items[i].id = <<f, v>>
      BY <1>1, <3>3, Answered DEF Lists
    <3>5. sev(i) = ToHarborSeverity(layer[f][v])
      BY <1>1, <3>4, Answered DEF Lists
    <3> QED BY <3>2, <3>5
  <2> HIDE DEF overview, sev, rank
  <2>6. CASE listed = {}
    <3>1. overview = 1
      BY <2>2, <2>5, <2>6
    <3> QED BY <2>2, <2>6, <3>1, SevenNames DEF OverviewIsWorstItem
  <2>7. CASE listed # {}
    <3>1. PICK i \in 1..Len(report.items) : TRUE
      BY <2>2, <2>7
    <3>2. overview # 1
      BY <2>2, <2>3, <2>4
    <3>3. json.severity \in listed
      BY <2>2, <2>5, <3>2
    <3>4. ASSUME NEW k \in 1..Len(report.items)
          PROVE  rank(json.items[k].severity) <= rank(json.severity)
      <4>1. rank(json.items[k].severity) = sev(k) /\ rank(json.severity) = overview
        BY <2>1, <2>2, <2>3
      <4> QED BY <2>4, <4>1
    <3>5. \A name \in listed : rank(name) <= rank(json.severity)
      BY <2>2, <3>4
    <3> QED BY <2>7, <3>3, <3>5 DEF OverviewIsWorstItem, rank
  <2> QED BY <2>6, <2>7
<1> QED BY <1>1, InvHolds, PTL DEF OverviewIsWorstItem
=============================================================================
