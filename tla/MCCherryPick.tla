---------------------------- MODULE MCCherryPick ----------------------------
(***************************************************************************)
(* Two commits to pick, and among them a merge commit, an empty one and    *)
(* one whose pick leaves nothing to stage.                                 *)
(***************************************************************************)
EXTENDS CherryPick

CONSTANTS c1, c2, m, e, b

MCUpstream == <<c1, m, b, c2, e>>
=============================================================================
