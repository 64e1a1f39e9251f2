----------------------------- MODULE MCRouting ------------------------------
(***************************************************************************)
(* Constants with which TLC checks Routing.                                *)
(***************************************************************************)
EXTENDS Routing, TLC

CONSTANTS r1, r2, v1, v2

OneWay == [n \in Nodes |-> "TOP"]

NeverFull == {<<FALSE, FALSE>>}

NoCommands == {}

StationSymmetry == Permutations(Rsus) \union Permutations(Nodes \ Rsus)
=============================================================================
