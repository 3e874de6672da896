----------------------------- MODULE MCFailover -----------------------------
EXTENDS Failover, TLC

CONSTANTS j1, a1, r1

MCArtifactOf == j1 :> a1

MCHostOf == j1 :> r1
=============================================================================
