----------------------------- MODULE MCNodeIds ------------------------------
(***************************************************************************)
(* Constants with which TLC checks NodeIds.                                *)
(***************************************************************************)
EXTENDS NodeIds, TLC

CONSTANTS d1, d2, d3, d4, d5, d6

DeviceSymmetry == Permutations(Devices)
=============================================================================
