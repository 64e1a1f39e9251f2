------------------------------ MODULE MCDtwin -------------------------------
(***************************************************************************)
(* Constants with which TLC checks Dtwin.                                  *)
(***************************************************************************)
EXTENDS Dtwin

CONSTANTS r1, r2
=============================================================================
