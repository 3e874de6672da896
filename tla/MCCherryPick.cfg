\* Two commits to pick, a merge commit, an empty one and one that stages nothing;
\* every fault but those of the search.
SPECIFICATION Spec
CONSTANTS
  c1 = c1
  c2 = c2
  m = m
  e = e
  b = b
  Commits = {c1, c2, m, e, b}
  Upstream <- MCUpstream
  Merges = {m}
  Empty = {e}
  Blank = {b}
  Faults = {"push", "create", "delete", "lsremote", "git", "crash"}
INVARIANTS
  TypeOK
  ActsOnUnclaimed
  CompletedRunCoversUpstream
PROPERTIES
  OnePRPerCommit
  OpenPRsAreLeftAlone
