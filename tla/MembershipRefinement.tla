------------------------ MODULE MembershipRefinement ------------------------
(***************************************************************************)
(* Membership without orders implements Convoys.  A station's status comes *)
(* from its phase and the type of its primary device, everything else is a *)
(* field of that device; broadcasts, the registry, the gateway device and  *)
(* the events before an attachment are invisible.                          *)
(***************************************************************************)
EXTENDS Membership

StatusOf(n) ==
  IF phase[n] # "settled" THEN phase[n]
  ELSE IF pr[n].type = "MASTER" THEN "manager" ELSE "member"

Abstract ==
  INSTANCE Convoys WITH
    status <- [n \in Nodes |-> StatusOf(n)],
    serves <- [n \in Nodes |-> pr[n].cell],
    manager <- [n \in Nodes |-> pr[n].manager],
    convoy <- [n \in Nodes |-> pr[n].convoy],
    attached <- [n \in Nodes |-> pr[n].master]

\* Without orders, MembershipControl, ClusterDevice, NIC and binder together do
\* what Convoys says, whatever broadcasts, handover events and departures are
\* interleaved: a station joins or opens once, with its own direction, under
\* fresh ids, and is attached only to the live cell it chose.
ImplementsConvoys == Abstract!Spec
=============================================================================
