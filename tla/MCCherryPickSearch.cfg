\* A search may fail, and nothing else.
SPECIFICATION Spec
CONSTANTS
  c1 = c1
  c2 = c2
  m = m
  e = e
  b = b
  Commits = {c1, c2, m, e, b}
  Upstream <- MCUpstream
  Merges = {m}
  Empty = {e}
  Blank = {b}
  Faults = {"search"}
PROPERTIES
  OnePRPerCommit
