--------------------------- MODULE MCDiscoveryJob ---------------------------
(***************************************************************************)
(* Instances of DiscoveryJob for TLC: one job, whose databases share the   *)
(* places of one subnet.                                                   *)
(***************************************************************************)
EXTENDS DiscoveryJob

CONSTANTS j1, d1, d2, s1, p1, p2, w1

EveryDatabase == [j \in Job |-> Database]
OneSubnet     == [d \in Database |-> s1]
=============================================================================
