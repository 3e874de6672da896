\* Every environment with up to two client CAs, then requests for the metadata while
\* Clair's database is updated twice, spoiled and lost. The process may be killed.
SPECIFICATION MetadataSpec
CONSTANTS
  MaxCAs = 2
  RedisURLs = {"redis", "monitor", "path", "bare", "number", "scheme", "garbled"}
  MaxUpdates = 2
  Nil = Nil
  Error = Error
  Text = Text
  Null = Null
INVARIANTS
  MetadataTypeOK
  ServesOnlySound
  RefusesOnlyUnusable
CHECK_DEADLOCK FALSE
