\* One job, two Redis servers, calls that fail, are executed all the same or late,
\* crashes: jobs share nothing but their process. The system never stops.
SPECIFICATION FailoverSpec
CONSTANTS
  Nil = Nil
  j1 = j1
  a1 = a1
  r1 = r1
  Jobs = {j1}
  Artifacts = {a1}
  Replicas = {r1}
  ArtifactOf <- MCArtifactOf
  HostOf <- MCHostOf
  Faults = {"error", "ambiguous", "late", "crash"}
INVARIANTS
  ReportLostOnlyInFailover
PROPERTIES
  PollingEndsAfterFailovers
