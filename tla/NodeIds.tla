------------------------------- MODULE NodeIds ------------------------------
(***************************************************************************)
(* The ids the Binder gives to the radio devices of stations.  Three       *)
(* counters run through one space of unsigned short ids: base stations,    *)
(* LTE ids of UEs and NR ids of UEs.  A UE takes one of each of the last   *)
(* two.  Nothing compares a counter with the end of its range and no id is *)
(* given back, so that what a device is called, where its packets go and   *)
(* what it is taken for are right only up to a number of devices.          *)
(*                                                                         *)
(* Membership and Routing take ids to be unique and give UEs and cells     *)
(* ids of two kinds; this module says how far that goes.                   *)
(***************************************************************************)
EXTENDS Integers

CONSTANTS
  Devices,    \* cluster devices that may be created
  NoDevice,   \* what an id stands for that was never given out
  EnbMin, EnbMax, UeMin, NrUeMin,  \* ENB_MIN_ID .. NR_UE_MIN_ID
  UeMax       \* UE_MAX_ID, also the largest unsigned short

ASSUME IdRanges ==
  /\ EnbMin \in Nat /\ EnbMax \in Nat /\ UeMin \in Nat /\ NrUeMin \in Nat
  /\ UeMax \in Nat
  /\ 0 < EnbMin /\ EnbMin =< EnbMax /\ EnbMax < UeMin /\ UeMin < NrUeMin
  /\ 2 * NrUeMin - UeMin =< UeMax

ASSUME NoDeviceAssumption == NoDevice \notin Devices

Ids == 0..UeMax

VARIABLES
  counter,  \* Binder::macNodeIdCounter_
  nodeIds,  \* Binder::nodeIds_, from ids to devices
  nextHop,  \* Binder::nextHop_
  device,   \* what a device is and its ids, as it keeps them itself
  cells,    \* base stations registered so far
  ues       \* UEs registered so far

ivars == <<counter, nodeIds, nextHop, device, cells, ues>>

Absent == [type |-> "NONE", lte |-> 0, nr |-> 0, master |-> 0]

\* Mutant: ids have no width
Incremented_Unbounded(id) == id + 1

\* MacNodeId is an unsigned short
Incremented(id) == IF id = UeMax THEN 0 ELSE id + 1

\* Mutant: the LTE ids start where the base stations end
FirstIds_Shared == [enb |-> EnbMin, lte |-> EnbMax, nr |-> NrUeMin]

FirstIds == [enb |-> EnbMin, lte |-> UeMin, nr |-> NrUeMin]

Init ==
  /\ counter = FirstIds
  /\ nodeIds = [i \in Ids |-> NoDevice]
  /\ nextHop = [i \in Ids |-> 0]
  /\ device = [d \in Devices |-> Absent]
  /\ cells = 0
  /\ ues = 0

\* registerNode of a base station: it is its own next hop
RegisterCell(d) ==
  /\ device[d].type = "NONE"
  /\ LET id == counter.enb
     IN /\ counter' = [counter EXCEPT !.enb = Incremented(id)]
        /\ nodeIds' = [nodeIds EXCEPT ![id] = d]
        /\ nextHop' = [nextHop EXCEPT ![id] = id]
        /\ device' = [device EXCEPT ![d] =
             [type |-> "ENODEB", lte |-> id, nr |-> 0, master |-> id]]
  /\ cells' = cells + 1
  /\ UNCHANGED ues

\* IP2Nic::initialize of a UE: registerNode for its LTE id, then its NR id
RegisterUe(d) ==
  /\ device[d].type = "NONE"
  /\ LET lte == counter.lte
         nr == counter.nr
     IN /\ counter' = [counter EXCEPT !.lte = Incremented(lte),
                                      !.nr = Incremented(nr)]
        /\ nodeIds' = [nodeIds EXCEPT ![lte] = d, ![nr] = d]
        /\ nextHop' = [nextHop EXCEPT ![lte] = 0, ![nr] = 0]
        /\ device' = [device EXCEPT ![d] =
             [type |-> "UE", lte |-> lte, nr |-> nr, master |-> 0]]
  /\ ues' = ues + 1
  /\ UNCHANGED cells

\* ClusterDevice: the address of a device
Address(d) == IF device[d].type = "UE" THEN device[d].nr ELSE device[d].lte

\* Mutant: the next hop is entered under the LTE id
Handover_LteId(d, m) ==
  /\ device[d].type = "UE" /\ device[m].type = "ENODEB"
  /\ nextHop' = [nextHop EXCEPT ![device[d].lte] = Address(m)]
  /\ device' = [device EXCEPT ![d].master = Address(m)]
  /\ UNCHANGED <<counter, nodeIds, cells, ues>>

\* NRPhyUe::doHandover: the next hop of the NR id is the new master
Handover(d, m) ==
  /\ device[d].type = "UE" /\ device[m].type = "ENODEB"
  /\ nextHop' = [nextHop EXCEPT ![Address(d)] = Address(m)]
  /\ device' = [device EXCEPT ![d].master = Address(m)]
  /\ UNCHANGED <<counter, nodeIds, cells, ues>>

\* A device that is deleted leaves its entries in the binder as they are, so
\* there is no step for it
Next ==
  \E d \in Devices :
    RegisterCell(d) \/ RegisterUe(d) \/ \E m \in Devices : Handover(d, m)

Spec == Init /\ [][Next]_ivars
-----------------------------------------------------------------------------
(* Properties.                                                             *)

\* getNodeTypeById
NodeTypeById(id) ==
  IF EnbMin =< id /\ id =< EnbMax THEN "ENODEB"
  ELSE IF UeMin =< id /\ id =< UeMax THEN "UE" ELSE "UNKNOWN"

\* isNrUe
IsNrUe(id) == NodeTypeById(id) = "UE" /\ id >= NrUeMin

Registered == {d \in Devices : device[d].type # "NONE"}

\* As many cells as there are base station ids, and as many UEs as there are
\* LTE ids below the NR ids, have been created.
WithinCapacity ==
  cells =< EnbMax - EnbMin + 1 /\ ues =< NrUeMin - UeMin

\* Counters, tables and devices keep their types: ids stay unsigned shorts.
IdsTypeOK ==
  /\ counter \in [enb : Ids, lte : Ids, nr : Ids]
  /\ nodeIds \in [Ids -> Devices \union {NoDevice}]
  /\ nextHop \in [Ids -> Ids]
  /\ device \in [Devices -> [type : {"NONE", "ENODEB", "UE"}, lte : Ids,
                             nr : Ids, master : Ids]]
  /\ cells \in Nat
  /\ ues \in Nat

\* Within the capacity the binder finds a device under each of its ids, and by
\* the id alone takes it for what it is.
AddressLeadsToDevice ==
  WithinCapacity =>
    \A d \in Registered :
      /\ nodeIds[Address(d)] = d /\ nodeIds[device[d].lte] = d
      /\ NodeTypeById(Address(d)) = device[d].type
      /\ NodeTypeById(device[d].lte) = device[d].type
      /\ IsNrUe(Address(d)) <=> device[d].type = "UE"

\* Within the capacity the next hop the binder gives for a device's address is
\* the cell the device is attached to: no registration takes it away.
NextHopIsMaster ==
  WithinCapacity =>
    \A d \in Registered : nextHop[Address(d)] = device[d].master
=============================================================================
