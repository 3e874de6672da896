----------------------------- MODULE ClairScan -----------------------------
(***************************************************************************)
(* adapter.Scan for several jobs at once against one Clair: fetch the      *)
(* manifest, post the layers in order, each naming its parent, and turn    *)
(* what Clair knows of the last one into the report. Clair keeps layers by *)
(* name and never processes a name twice, so jobs meet in its database.    *)
(* The three ways a scan ends here, "done", "failed" and "panicked", are   *)
(* the outcomes of the Scan step of ScanJobs, which says what a panic does *)
(* to the other jobs of the process; here they go on, as they do on the    *)
(* other replicas.                                                         *)
(***************************************************************************)
EXTENDS Naturals, Sequences, SequencesExt

CONSTANTS
  Jobs,         \* scans in progress
  Blobs,        \* digests of layer blobs
  ManifestOf,   \* the manifest of the artifact of each job
  Nil,          \* no parent, no report
  ServicesFail  \* whether the registry and Clair may answer with errors

\* The two manifest types GetMetadata advertises; a manifest is its type and
\* the digests of its layers, its config left out.
Manifest == [type : {"docker", "oci"}, layers : Seq(Blobs)]

ASSUME ClairScanAssumption ==
  /\ ManifestOf \in [Jobs -> Manifest]
  /\ ServicesFail \in BOOLEAN
  /\ Nil \notin Seq(Blobs)

VARIABLES
  clair,   \* Clair's database: for each layer name, the blobs it stands for
  at,      \* where each scan stands
  posted,  \* how many layers of each job Clair has accepted
  report   \* the blobs whose vulnerabilities the report of a job lists

vars == <<clair, at, posted, report>>

TypeOK ==
  /\ DOMAIN clair \subseteq Seq(Blobs)
  /\ \A n \in DOMAIN clair : clair[n] \in Seq(Blobs)
  /\ at \in [Jobs -> {"manifest", "post", "report", "done", "failed", "panicked"}]
  /\ posted \in [Jobs -> Nat]
  /\ report \in [Jobs -> Seq(Blobs) \cup {Nil}]

Init ==
  /\ clair = <<>>
  /\ at = [j \in Jobs |-> "manifest"]
  /\ posted = [j \in Jobs |-> 0]
  /\ report = [j \in Jobs |-> Nil]

-----------------------------------------------------------------------------
\* Mutants: a layer is named by its own digest, or by its chain and the
\* repository of the request.
NameByDigest(j, i) == <<ManifestOf[j].layers[i]>>

NameByRepository(j, i) == <<j>> \o SubSeq(ManifestOf[j].layers, 1, i)

\* The name of the i-th layer: the hash of the chain of digests up to it, taken
\* as injective.
LayerName(j, i) == SubSeq(ManifestOf[j].layers, 1, i)

\* transformer.ToClairLayers.
ToClairLayers(j) ==
  [i \in DOMAIN ManifestOf[j].layers |->
     [name   |-> LayerName(j, i),
      parent |-> IF i = 1 THEN Nil ELSE LayerName(j, i - 1),
      blob   |-> ManifestOf[j].layers[i]]]

Goto(j, place) == at' = [at EXCEPT ![j] = place]

\* Mutant: a scan that cannot fetch its manifest waits for a retry.
GetManifestRetries(j) ==
  /\ at[j] = "manifest"
  /\ \/ ManifestOf[j].type = "docker" /\ Goto(j, IF ToClairLayers(j) = <<>> THEN "panicked" ELSE "post")
     \/ ManifestOf[j].type # "docker" /\ Goto(j, "failed")
     \/ ServicesFail /\ Goto(j, "retry")
  /\ UNCHANGED <<clair, posted, report>>

\* registry.GetManifest accepts and parses Docker manifests only. An image
\* without layers gets past the loop and panics on layers[len(layers)-1].
GetManifest(j) ==
  /\ at[j] = "manifest"
  /\ \/ ManifestOf[j].type = "docker" /\ Goto(j, IF ToClairLayers(j) = <<>> THEN "panicked" ELSE "post")
     \/ ManifestOf[j].type # "docker" /\ Goto(j, "failed")
     \/ ServicesFail /\ Goto(j, "failed")
  /\ UNCHANGED <<clair, posted, report>>

\* Clair on POST /v1/layers: a layer is built on what its parent stands for.
Accepts(layer) == layer.parent = Nil \/ layer.parent \in DOMAIN clair

Process(layer) ==
  LET below == IF layer.parent = Nil THEN <<>> ELSE clair[layer.parent]
  IN  clair' = IF layer.name \in DOMAIN clair
               THEN clair
               ELSE [n \in DOMAIN clair \cup {layer.name} |->
                       IF n = layer.name THEN Append(below, layer.blob) ELSE clair[n]]

\* Mutant: an error of ScanLayer is logged and the loop goes on.
ScanLayerCarriesOn(j) ==
  /\ at[j] = "post"
  /\ LET layers == ToClairLayers(j)
         layer  == layers[posted[j] + 1]
     IN  /\ \/ Accepts(layer) /\ Process(layer)
            \/ (~Accepts(layer) \/ ServicesFail) /\ UNCHANGED clair
         /\ posted' = [posted EXCEPT ![j] = @ + 1]
         /\ Goto(j, IF posted'[j] = Len(layers) THEN "report" ELSE "post")
  /\ UNCHANGED report

\* One turn of the loop. A failed call may have reached Clair all the same.
ScanLayer(j) ==
  /\ at[j] = "post"
  /\ LET layers == ToClairLayers(j)
         layer  == layers[posted[j] + 1]
     IN  \/ /\ Accepts(layer)
            /\ Process(layer)
            /\ posted' = [posted EXCEPT ![j] = @ + 1]
            /\ Goto(j, IF posted'[j] = Len(layers) THEN "report" ELSE "post")
         \/ /\ ServicesFail \/ ~Accepts(layer)
            /\ UNCHANGED clair \/ (ServicesFail /\ Accepts(layer) /\ Process(layer))
            /\ Goto(j, "failed")
            /\ UNCHANGED posted
  /\ UNCHANGED report

\* GetLayer of the last layer, then ToHarborScanReport; a 200 whose envelope
\* has no layer is dereferenced by toComponentsOverview.
GetReport(j) ==
  /\ at[j] = "report"
  /\ LET name == Last(ToClairLayers(j)).name
     IN  \/ /\ name \in DOMAIN clair
            /\ report' = [report EXCEPT ![j] = clair[name]]
            /\ Goto(j, "done")
         \/ /\ name \notin DOMAIN clair \/ ServicesFail
            /\ Goto(j, "failed")
            /\ UNCHANGED report
         \/ /\ ServicesFail
            /\ Goto(j, "panicked")
            /\ UNCHANGED report
  /\ UNCHANGED <<clair, posted>>

Next == \E j \in Jobs : GetManifest(j) \/ ScanLayer(j) \/ GetReport(j)

Spec == Init /\ [][Next]_vars

-----------------------------------------------------------------------------
\* A report lists what all layers of the image contain, in their order, and
\* nothing of another image, although Clair answers from layers that other
\* jobs have posted: a name stands for a whole chain.
ReportCoversImage ==
  \A j \in Jobs : at[j] = "done" => report[j] = ManifestOf[j].layers

\* No layer is posted before Clair knows its parent, even when other jobs'
\* posts fail in between.
ParentIsKnown ==
  \A j \in Jobs :
    at[j] = "post" /\ posted[j] > 0 => ToClairLayers(j)[posted[j] + 1].parent \in DOMAIN clair

\* transformer.go:43-44: images built on one another share the names of their
\* common layers, so that no chain of blobs is processed twice.
ChainsAreProcessedOnce ==
  \A n, m \in DOMAIN clair : clair[n] = clair[m] => n = m
=============================================================================
