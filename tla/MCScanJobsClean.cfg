\* Failed Redis calls are not executed; two replicas that may crash; goroutines keep
\* running and are answered.
SPECIFICATION WorkerSpec
CONSTANTS
  j1 = j1
  j2 = j2
  a1 = a1
  a2 = a2
  r1 = r1
  r2 = r2
  Nil = Nil
  Jobs = {j1, j2}
  Artifacts = {a1, a2}
  Replicas = {r1, r2}
  ArtifactOf <- MCArtifactOf
  HostOf <- TwoHosts
  Faults <- CleanFaults
PROPERTIES
  ImplementsScanService
  ScanGetsVerdict
