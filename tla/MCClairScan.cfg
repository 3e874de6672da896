\* Six scans at once; the registry and Clair may fail. A scan ends.
SPECIFICATION Spec
CONSTANTS
  base = base
  derived = derived
  other = other
  repeats = repeats
  empty = empty
  oci = oci
  a = a
  b = b
  c = c
  Nil = Nil
  Jobs = {base, derived, other, repeats, empty, oci}
  Blobs = {a, b, c}
  ManifestOf <- MCManifests
  ServicesFail = TRUE
INVARIANTS
  TypeOK
  ReportCoversImage
  ParentIsKnown
  ChainsAreProcessedOnce
CHECK_DEADLOCK FALSE
