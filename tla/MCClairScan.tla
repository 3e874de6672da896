---------------------------- MODULE MCClairScan ----------------------------
(***************************************************************************)
(* Images that share a base, that share a blob but not its chain, and that *)
(* repeat a blob; an image without layers and an OCI image.                *)
(***************************************************************************)
EXTENDS ClairScan, TLC

CONSTANTS base, derived, other, repeats, empty, oci, a, b, c

MCManifestOf ==
  base    :> [type |-> "docker", layers |-> <<a, b>>] @@
  derived :> [type |-> "docker", layers |-> <<a, b, c>>] @@
  other   :> [type |-> "docker", layers |-> <<c, b>>] @@
  repeats :> [type |-> "docker", layers |-> <<a, a, b>>] @@
  empty   :> [type |-> "docker", layers |-> <<>>] @@
  oci     :> [type |-> "oci", layers |-> <<a, b>>]

MCManifests == [j \in Jobs |-> MCManifestOf[j]]
=============================================================================
