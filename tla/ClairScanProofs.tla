--------------------------- MODULE ClairScanProofs ---------------------------
(***************************************************************************)
(* Theorems about ClairScan for any set of scans and any manifests.        *)
(***************************************************************************)
EXTENDS ClairScan, SequenceTheorems, TLAPS

Layers(j) == ManifestOf[j].layers

LEMMA LayersAreBlobs == ASSUME NEW j \in Jobs PROVE Layers(j) \in Seq(Blobs)
BY ClairScanAssumption DEF ClairScanAssumption, Manifest, Layers

\* The name of a layer is that of its parent with the layer's own blob.
LEMMA ChainGrows ==
  ASSUME NEW j \in Jobs, NEW i \in 1..Len(Layers(j))
  PROVE  /\ LayerName(j, i) \in Seq(Blobs)
         /\ Layers(j)[i] \in Blobs
         /\ i = 1 => LayerName(j, i) = Append(<<>>, Layers(j)[i])
         /\ i # 1 => LayerName(j, i) = Append(LayerName(j, i - 1), Layers(j)[i])
                     /\ LayerName(j, i - 1) \in Seq(Blobs)
<1> DEFINE s == Layers(j)
<1>1. s \in Seq(Blobs) /\ i \in Int /\ Len(s) \in Nat
  BY LayersAreBlobs
<1>2. \A k \in 1..Len(s) : s[k] \in Blobs
  BY <1>1
<1>3. LayerName(j, i) \in Seq(Blobs) /\ (i # 1 => LayerName(j, i - 1) \in Seq(Blobs))
  BY <1>1, <1>2, SubSeqProperties DEF LayerName, Layers
<1>4. LayerName(j, i) = SubSeq(s, 1, i - 1) \o <<s[i]>>
  BY <1>1, SubSeqRecursiveSecond DEF LayerName, Layers
<1>5. i = 1 => SubSeq(s, 1, i - 1) = <<>>
  BY SubSeqEmpty
<1>6. SubSeq(s, 1, i - 1) \in Seq(Blobs)
  BY <1>1, <1>2, SubSeqProperties
<1>7. LayerName(j, i) = Append(SubSeq(s, 1, i - 1), s[i])
  BY <1>1, <1>2, <1>4, <1>6, AppendIsConcat
<1> QED BY <1>2, <1>3, <1>5, <1>7 DEF LayerName, Layers

\* What ToClairLayers returns, layer by layer.
LEMMA ClairLayers ==
  ASSUME NEW j \in Jobs
  PROVE  /\ Len(ToClairLayers(j)) = Len(Layers(j))
         /\ ToClairLayers(j) = <<>> <=> Len(Layers(j)) = 0
         /\ \A i \in 1..Len(Layers(j)) :
              ToClairLayers(j)[i] = [name   |-> LayerName(j, i),
                                     parent |-> IF i = 1 THEN Nil ELSE LayerName(j, i - 1),
                                     blob   |-> Layers(j)[i]]
<1>1. DOMAIN Layers(j) = 1..Len(Layers(j)) /\ Len(Layers(j)) \in Nat
  BY LayersAreBlobs
<1>2. DOMAIN ToClairLayers(j) = 1..Len(Layers(j))
  BY <1>1 DEF ToClairLayers, Layers
<1>3. \A i \in 1..Len(Layers(j)) :
        ToClairLayers(j)[i] = [name   |-> LayerName(j, i),
                               parent |-> IF i = 1 THEN Nil ELSE LayerName(j, i - 1),
                               blob   |-> Layers(j)[i]]
  BY <1>1 DEF ToClairLayers, Layers
<1>4. PICK S : ToClairLayers(j) \in Seq(S)
  <2> DEFINE S == {ToClairLayers(j)[i] : i \in 1..Len(Layers(j))}
  <2>1. ToClairLayers(j) \in [1..Len(Layers(j)) -> S]
    BY <1>1 DEF ToClairLayers, Layers
  <2>2. ToClairLayers(j) \in Seq(S)
    BY <1>1, <2>1, SeqDef
  <2> QED BY <2>2
<1>5. Len(ToClairLayers(j)) = Len(Layers(j))
  BY <1>1, <1>2, <1>4, LenProperties
<1>6. ToClairLayers(j) = <<>> <=> Len(ToClairLayers(j)) = 0
  BY <1>4, EmptySeq
<1> QED BY <1>3, <1>5, <1>6

LEMMA LayerFields ==
  ASSUME NEW j \in Jobs, NEW i \in 1..Len(Layers(j))
  PROVE  /\ ToClairLayers(j)[i].name = LayerName(j, i)
         /\ ToClairLayers(j)[i].parent = IF i = 1 THEN Nil ELSE LayerName(j, i - 1)
         /\ ToClairLayers(j)[i].blob = Layers(j)[i]
<1>1. ToClairLayers(j)[i] = [name   |-> LayerName(j, i),
                             parent |-> IF i = 1 THEN Nil ELSE LayerName(j, i - 1),
                             blob   |-> Layers(j)[i]]
  BY ClairLayers
<1> QED BY <1>1

-----------------------------------------------------------------------------
(***************************************************************************)
(* The inductive invariant: Clair's names stand for themselves, and a scan *)
(* has posted what it has counted.                                         *)
(***************************************************************************)

NamesAreChains == \A n \in DOMAIN clair : clair[n] = n

Progress ==
  \A j \in Jobs :
    /\ at[j] = "manifest" => posted[j] = 0
    /\ at[j] = "post" => posted[j] < Len(Layers(j))
    /\ at[j] = "report" => posted[j] = Len(Layers(j)) /\ posted[j] > 0
    /\ at[j] \in {"post", "report"} /\ posted[j] > 0 => LayerName(j, posted[j]) \in DOMAIN clair
    /\ at[j] = "done" => report[j] = Layers(j)

Inv == TypeOK /\ NamesAreChains /\ Progress

\* Clair adds the name of the layer, and what it stands for is the name.
LEMMA ProcessKeepsChains ==
  ASSUME TypeOK, NamesAreChains, NEW j \in Jobs, NEW i \in 1..Len(Layers(j)),
         Accepts(ToClairLayers(j)[i]), Process(ToClairLayers(j)[i])
  PROVE  /\ DOMAIN clair' = DOMAIN clair \cup {LayerName(j, i)}
         /\ DOMAIN clair' \subseteq Seq(Blobs)
         /\ NamesAreChains'
<1> DEFINE layer == ToClairLayers(j)[i]
           below == IF layer.parent = Nil THEN <<>> ELSE clair[layer.parent]
<1>1. /\ layer.name = LayerName(j, i) /\ layer.blob = Layers(j)[i]
      /\ layer.parent = IF i = 1 THEN Nil ELSE LayerName(j, i - 1)
  BY LayerFields
<1>2. Append(below, layer.blob) = LayerName(j, i)
  <2>1. CASE i = 1
    BY <1>1, <2>1, ChainGrows
  <2>2. CASE i # 1
    <3>1. layer.parent # Nil /\ layer.parent = LayerName(j, i - 1)
      BY <1>1, <2>2, ChainGrows, ClairScanAssumption DEF ClairScanAssumption
    <3>2. below = LayerName(j, i - 1)
      BY <3>1 DEF Accepts, NamesAreChains
    <3> QED BY <1>1, <2>2, <3>2, ChainGrows
  <2> QED BY <2>1, <2>2
<1>3. clair' = IF layer.name \in DOMAIN clair
               THEN clair
               ELSE [n \in DOMAIN clair \cup {layer.name} |->
                       IF n = layer.name THEN Append(below, layer.blob) ELSE clair[n]]
  BY DEF Process
<1> HIDE DEF layer, below
<1>4. DOMAIN clair' = DOMAIN clair \cup {LayerName(j, i)}
  BY <1>1, <1>3
<1>5. DOMAIN clair' \subseteq Seq(Blobs)
  BY <1>4, ChainGrows DEF TypeOK
<1>6. NamesAreChains'
  BY <1>1, <1>2, <1>3 DEF NamesAreChains
<1> QED BY <1>4, <1>5, <1>6

LEMMA GetManifestKeepsInv == ASSUME Inv, NEW j \in Jobs, GetManifest(j) PROVE Inv'
<1> USE DEF Inv
<1>1. /\ at[j] = "manifest" /\ posted[j] = 0 /\ UNCHANGED <<clair, posted, report>>
      /\ \/ at' = [at EXCEPT ![j] = "post"] /\ ToClairLayers(j) # <<>>
         \/ at' = [at EXCEPT ![j] = "panicked"]
         \/ at' = [at EXCEPT ![j] = "failed"]
  BY DEF GetManifest, Goto, Progress
<1>2. ToClairLayers(j) # <<>> => 0 < Len(Layers(j))
  BY ClairLayers, LayersAreBlobs, LenProperties
<1>3. TypeOK'
  BY <1>1 DEF TypeOK
<1>4. NamesAreChains'
  BY <1>1 DEF NamesAreChains
<1>5. Progress'
  BY <1>1, <1>2 DEF Progress, TypeOK, Layers, LayerName
<1> QED BY <1>3, <1>4, <1>5

LEMMA ScanLayerKeepsInv == ASSUME Inv, NEW j \in Jobs, ScanLayer(j) PROVE Inv'
<1> USE DEF Inv
<1> DEFINE i == posted[j] + 1
           layer == ToClairLayers(j)[i]
<1>1. at[j] = "post" /\ i \in 1..Len(Layers(j)) /\ report' = report /\ posted[j] \in Nat
  BY LayersAreBlobs, LenProperties DEF ScanLayer, Progress, TypeOK
<1>2. \/ /\ Accepts(layer) /\ Process(layer) /\ posted' = [posted EXCEPT ![j] = i]
         /\ at' = [at EXCEPT ![j] = IF posted'[j] = Len(Layers(j)) THEN "report" ELSE "post"]
      \/ /\ clair' = clair \/ (Accepts(layer) /\ Process(layer))
         /\ posted' = posted
         /\ at' = [at EXCEPT ![j] = "failed"]
  BY ClairLayers DEF ScanLayer, Goto, TypeOK
<1>3. /\ DOMAIN clair \subseteq DOMAIN clair' /\ DOMAIN clair' \subseteq Seq(Blobs) /\ NamesAreChains'
      /\ Accepts(layer) /\ Process(layer) => LayerName(j, i) \in DOMAIN clair'
  <2>1. CASE Accepts(layer) /\ Process(layer)
    BY <1>1, <2>1, ProcessKeepsChains
  <2>2. CASE clair' = clair /\ ~(Accepts(layer) /\ Process(layer))
    BY <2>2 DEF NamesAreChains, TypeOK
  <2> QED BY <1>2, <2>1, <2>2
<1> HIDE DEF layer
<1>4. TypeOK'
  <2>1. \A n \in DOMAIN clair' : clair'[n] \in Seq(Blobs)
    BY <1>3 DEF NamesAreChains
  <2> QED BY <1>1, <1>2, <1>3, <2>1 DEF TypeOK
<1>5. Progress'
  <2>1. ASSUME NEW k \in Jobs, k # j PROVE Progress!(k)'
    BY <1>1, <1>2, <1>3, <2>1 DEF Progress, TypeOK, Layers, LayerName
  <2>2. Progress!(j)'
    BY <1>1, <1>2, <1>3 DEF Progress, TypeOK, Layers, LayerName
  <2> QED BY <2>1, <2>2 DEF Progress
<1> QED BY <1>3, <1>4, <1>5

LEMMA GetReportKeepsInv == ASSUME Inv, NEW j \in Jobs, GetReport(j) PROVE Inv'
<1> USE DEF Inv
<1> DEFINE s == Layers(j)
           name == Last(ToClairLayers(j)).name
<1>1. at[j] = "report" /\ Len(s) \in Nat /\ Len(s) > 0 /\ posted[j] = Len(s)
  BY LayersAreBlobs, LenProperties DEF GetReport, Progress
<1>2. name = s
  <2>1. Last(ToClairLayers(j)) = ToClairLayers(j)[Len(s)]
    BY ClairLayers DEF Last
  <2>2. name = LayerName(j, Len(s))
    BY <1>1, <2>1, LayerFields
  <2> QED BY <2>2, LayersAreBlobs, SubSeqFull DEF LayerName, Layers
<1>3. /\ UNCHANGED <<clair, posted>>
      /\ \/ /\ name \in DOMAIN clair
            /\ report' = [report EXCEPT ![j] = clair[name]]
            /\ at' = [at EXCEPT ![j] = "done"]
         \/ report' = report /\ at' = [at EXCEPT ![j] = "failed"]
         \/ report' = report /\ at' = [at EXCEPT ![j] = "panicked"]
  BY DEF GetReport, Goto
<1>4. name \in DOMAIN clair => clair[name] = s
  BY <1>2 DEF NamesAreChains
<1> HIDE DEF name, s
<1>5. TypeOK'
  BY <1>3 DEF TypeOK
<1>6. NamesAreChains'
  BY <1>3 DEF NamesAreChains
<1>7. Progress'
  BY <1>1, <1>3, <1>4 DEF Progress, TypeOK, Layers, LayerName, s
<1> QED BY <1>5, <1>6, <1>7

LEMMA InvHolds == Spec => []Inv
<1>1. Init => Inv
  <2>1. DOMAIN <<>> = {}
    BY EmptySeq
  <2> QED BY <2>1 DEF Init, Inv, TypeOK, NamesAreChains, Progress
<1>2. ASSUME Inv, [Next]_vars PROVE Inv'
  <2>1. CASE UNCHANGED vars
    BY <1>2, <2>1 DEF vars, Inv, TypeOK, NamesAreChains, Progress, Layers, LayerName
  <2> QED BY <1>2, <2>1, GetManifestKeepsInv, ScanLayerKeepsInv, GetReportKeepsInv DEF Next
<1> QED BY <1>1, <1>2, PTL DEF Spec

-----------------------------------------------------------------------------
\* Type correctness.
THEOREM TypeCorrect == Spec => []TypeOK
<1>1. Inv => TypeOK
  BY DEF Inv
<1> QED BY <1>1, InvHolds, PTL

\* A report is about the blobs of its own image, all of them, in their order.
THEOREM ReportsCoverImages == Spec => []ReportCoversImage
<1>1. Inv => ReportCoversImage
  BY DEF Inv, Progress, ReportCoversImage, Layers
<1> QED BY <1>1, InvHolds, PTL

\* Every layer but the first is posted to a Clair that has its parent.
THEOREM ParentsAreKnown == Spec => []ParentIsKnown
<1>1. ASSUME Inv PROVE ParentIsKnown
  <2> SUFFICES ASSUME NEW j \in Jobs, at[j] = "post", posted[j] > 0
               PROVE  ToClairLayers(j)[posted[j] + 1].parent \in DOMAIN clair
    BY DEF ParentIsKnown
  <2>1. posted[j] \in Nat /\ posted[j] + 1 \in 1..Len(Layers(j))
    BY <1>1, LayersAreBlobs, LenProperties DEF Inv, TypeOK, Progress
  <2>2. ToClairLayers(j)[posted[j] + 1].parent = LayerName(j, posted[j])
    BY <2>1, LayerFields
  <2> QED BY <1>1, <2>2 DEF Inv, Progress
<1> QED BY <1>1, InvHolds, PTL

\* Two names never stand for the same chain of blobs.
THEOREM ChainsHaveOneName == Spec => []ChainsAreProcessedOnce
<1>1. Inv => ChainsAreProcessedOnce
  BY DEF Inv, NamesAreChains, ChainsAreProcessedOnce
<1> QED BY <1>1, InvHolds, PTL
=============================================================================
