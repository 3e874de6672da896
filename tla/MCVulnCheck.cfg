\* Every order of up to seven messages, every place where the scanner may die, three
\* pushes and any number of re-runs; every call of GitHub may fail.
SPECIFICATION CheckSpec
CONSTANTS
  Nil = Nil
  config = config
  v = v
  w = w
  required = required
  imported = imported
  called = called
  elsewhere = elsewhere
  lib = lib
  other = other
  Config = config
  Entries = {v, w}
  Messages = {config, v, w, required, imported, called, elsewhere}
  Content <- MCContent
  FallbackOf <- MCFallbackOf
  Rank <- MCRank
  MaxRows = 1
  MaxPushes = 3
  Faults = {"list", "error", "ambiguous"}
INVARIANTS
  CheckTypeOK
  MergeIsOrderless
  UsableIsComplete
  CommentHidesNothingWorse
  SingleComment
  CommentIsCurrent
