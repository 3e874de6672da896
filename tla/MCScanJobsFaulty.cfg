\* Every fault: Redis calls fail, succeed unnoticed or are executed late; crashes.
\* Nothing is fair but the expiry of keys.
SPECIFICATION ExpirySpec
CONSTANTS
  j1 = j1
  j2 = j2
  a1 = a1
  a2 = a2
  r1 = r1
  r2 = r2
  Nil = Nil
  Jobs = {j1, j2}
  Artifacts = {a1, a2}
  Replicas = {r1}
  ArtifactOf <- MCArtifactOf
  HostOf <- OneHost
  Faults <- AllFaults
INVARIANTS
  TypeOK
  RecordInv
  FinishedHasReport
PROPERTIES
  FinishedNeverReopens
  ExpiredStaysGone
  AbandonedOnlyAtLast
  PollingEnds
