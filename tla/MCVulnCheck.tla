---------------------------- MODULE MCVulnCheck ----------------------------
(***************************************************************************)
(* Two entries. The first has findings of every level for one module, one  *)
(* of them without a module and one without a fix, and is also found in    *)
(* another module.                                                         *)
(***************************************************************************)
EXTENDS VulnCheck, TLC

CONSTANTS config, v, w, required, imported, called, elsewhere, lib, other

MCFinding(osv, module, level, fixed) ==
  [osv |-> osv, module |-> module, level |-> level, fixed |-> fixed]

MCContent ==
  required  :> MCFinding(v, lib, 0, Nil) @@
  imported  :> MCFinding(v, Nil, 1, "fix") @@
  called    :> MCFinding(v, lib, 2, Nil) @@
  elsewhere :> MCFinding(v, other, 2, "fix")

MCRank == v :> 1 @@ w :> 2 @@ lib :> 1 @@ other :> 2 @@ "unknown" :> 3

MCFallbackOf == v :> lib @@ w :> "unknown"
=============================================================================
