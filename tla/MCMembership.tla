---------------------------- MODULE MCMembership ----------------------------
(***************************************************************************)
(* Constants with which TLC checks Membership.                             *)
(***************************************************************************)
EXTENDS MembershipRefinement, TLC

CONSTANTS n1, n2, n3, n4

\* n4 drives against the others
OneAgainst == [n \in Nodes |-> IF n = n4 THEN "DOWN" ELSE "TOP"]

\* What ClusterDevice::configureAndStart advertises: never full
NeverFull == {<<FALSE, FALSE>>}

\* What handleBroadcastScanEvent is written for
AnyFull == {<<FALSE, FALSE>>, <<FALSE, TRUE>>, <<TRUE, FALSE>>}

NoCommands == {}

\* Stations that move the same way are interchangeable
SameWaySymmetry == Permutations(Nodes \ {n4})

\* Every order over two convoys and the first cells; cell 0 is "no cluster"
AnyCommand == [role : Roles, convoy : 1..2, cluster : 0..2, gw : {0, 1}]
=============================================================================
