----------------------------- MODULE MCBackend ------------------------------
(***************************************************************************)
(* Constants with which TLC checks Backend.                                *)
(***************************************************************************)
EXTENDS Backend, TLC

CONSTANTS m1, m2

MemberSymmetry == Permutations(Members)
=============================================================================
