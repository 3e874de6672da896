\* Every layer of up to two features with up to two vulnerabilities each, among
\* them a severity that the adapter does not know. A report is answered once.
SPECIFICATION Spec
CONSTANTS
  Words = {"unknown", "negligible", "low", "medium", "high", "critical", "defcon1"}
  MaxFeatures = 2
  MaxVulns = 2
INVARIANTS
  TypeOK
  OverviewIsWorstItem
  EveryVulnerabilityIsListed
CHECK_DEADLOCK FALSE
