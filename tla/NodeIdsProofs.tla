---------------------------- MODULE NodeIdsProofs ---------------------------
(***************************************************************************)
(* Proofs about NodeIds, for any ranges: up to as many cells and UEs as    *)
(* the ranges hold, the binder's tables are right for every device.        *)
(***************************************************************************)
EXTENDS NodeIds, TLAPS

\* Within the capacity no counter has left its range or wrapped round.
CountersInv ==
  WithinCapacity =>
    /\ counter.enb = EnbMin + cells
    /\ counter.lte = UeMin + ues
    /\ counter.nr = NrUeMin + ues

\* A cell has one of the base station ids given out so far.
CellRight(d) ==
  LET id == device[d].lte
  IN /\ EnbMin =< id /\ id < EnbMin + cells
     /\ nodeIds[id] = d
     /\ nextHop[id] = device[d].master

\* A UE has one of the LTE ids and one of the NR ids given out so far.
UeRight(d) ==
  LET lte == device[d].lte
      nr == device[d].nr
  IN /\ UeMin =< lte /\ lte < UeMin + ues
     /\ NrUeMin =< nr /\ nr < NrUeMin + ues
     /\ nodeIds[lte] = d /\ nodeIds[nr] = d
     /\ nextHop[nr] = device[d].master

DevicesRight ==
  WithinCapacity =>
    \A d \in Devices :
      /\ device[d].type = "ENODEB" => CellRight(d)
      /\ device[d].type = "UE" => UeRight(d)

IdInv == IdsTypeOK /\ CountersInv /\ DevicesRight

DeviceState ==
  [type : {"NONE", "ENODEB", "UE"}, lte : Ids, nr : Ids, master : Ids]

-----------------------------------------------------------------------------
\* A counter stays an unsigned short.
LEMMA IncrementedInIds ==
  ASSUME NEW id \in Ids
  PROVE  Incremented(id) \in Ids /\ (id < UeMax => Incremented(id) = id + 1)
  BY IdRanges DEF Ids, Incremented

\* A device's own record.
LEMMA DeviceFields ==
  ASSUME IdsTypeOK, NEW d \in Devices
  PROVE  /\ device[d].lte \in Ids /\ device[d].nr \in Ids
         /\ device[d].master \in Ids /\ Address(d) \in Ids
         /\ device[d].type \in {"NONE", "ENODEB", "UE"}
  BY DEF IdsTypeOK, Address

\* No device is registered at first.
LEMMA InitIdInv == Init => IdInv
  <1> SUFFICES ASSUME Init PROVE IdInv
    OBVIOUS
  <1> USE IdRanges DEF Init
  <1>1. counter \in [enb : Ids, lte : Ids, nr : Ids]
    BY DEF FirstIds, Ids
  <1>2. IdsTypeOK
    <2>1. Absent \in DeviceState /\ 0 \in Ids
      BY DEF Absent, DeviceState, Ids
    <2> QED
      BY <1>1, <2>1 DEF IdsTypeOK, DeviceState
  <1>3. CountersInv
    BY DEF CountersInv, FirstIds
  <1>4. DevicesRight
    BY DEF DevicesRight, Absent
  <1> QED
    BY <1>2, <1>3, <1>4 DEF IdInv

\* A new base station takes an id no device has.
LEMMA RegisterCellKeepsIdInv ==
  ASSUME IdInv, NEW d \in Devices, RegisterCell(d)
  PROVE  IdInv'
  <1> DEFINE id == counter.enb
             new == [type |-> "ENODEB", lte |-> id, nr |-> 0, master |-> id]
  <1>0. /\ IdsTypeOK /\ CountersInv /\ DevicesRight
        /\ id \in Ids /\ counter.lte \in Ids /\ counter.nr \in Ids
        /\ cells \in Nat /\ ues \in Nat
    BY DEF IdInv, IdsTypeOK
  <1>1. /\ counter' = [counter EXCEPT !.enb = Incremented(id)]
        /\ nodeIds' = [nodeIds EXCEPT ![id] = d]
        /\ nextHop' = [nextHop EXCEPT ![id] = id]
        /\ device' = [device EXCEPT ![d] = new]
        /\ cells' = cells + 1 /\ ues' = ues
    BY DEF RegisterCell
  <1>2. /\ counter'.enb = Incremented(id)
        /\ counter'.lte = counter.lte /\ counter'.nr = counter.nr
        /\ counter' \in [enb : Ids, lte : Ids, nr : Ids]
    BY <1>0, <1>1, IncrementedInIds DEF IdsTypeOK
  <1>3. IdsTypeOK'
    <2>1. new \in DeviceState
      BY <1>0, IdRanges DEF DeviceState, Ids
    <2>2. device' \in [Devices -> DeviceState]
      BY <1>0, <1>1, <2>1 DEF IdsTypeOK, DeviceState
    <2>3. /\ nodeIds' \in [Ids -> Devices \union {NoDevice}]
          /\ nextHop' \in [Ids -> Ids]
      BY <1>0, <1>1 DEF IdsTypeOK
    <2>4. cells' \in Nat /\ ues' \in Nat
      BY <1>0, <1>1
    <2> QED
      BY <1>2, <2>2, <2>3, <2>4 DEF IdsTypeOK, DeviceState
  <1>4. WithinCapacity' =>
          WithinCapacity /\ id = EnbMin + cells /\ id =< EnbMax
    BY <1>0, <1>1, IdRanges DEF WithinCapacity, CountersInv
  <1>5. CountersInv'
    <2> SUFFICES ASSUME WithinCapacity'
                 PROVE  /\ counter'.enb = EnbMin + cells'
                        /\ counter'.lte = UeMin + ues'
                        /\ counter'.nr = NrUeMin + ues'
      BY DEF CountersInv
    <2>1. id < UeMax
      BY <1>0, <1>4, IdRanges DEF Ids
    <2> QED
      BY <1>0, <1>1, <1>2, <1>4, <2>1, IncrementedInIds, IdRanges
      DEF CountersInv
  <1>6. DevicesRight'
    <2> SUFFICES ASSUME WithinCapacity', NEW e \in Devices
                 PROVE  /\ device'[e].type = "ENODEB" => CellRight(e)'
                        /\ device'[e].type = "UE" => UeRight(e)'
      BY DEF DevicesRight
    <2>1. WithinCapacity /\ id = EnbMin + cells /\ id =< EnbMax
      BY <1>4
    <2>2. CASE e = d
      <3>1. device'[e] = new
        BY <1>0, <1>1, <2>2 DEF IdsTypeOK
      <3>2. nodeIds'[id] = d /\ nextHop'[id] = id
        BY <1>0, <1>1 DEF IdsTypeOK
      <3> QED
        BY <1>0, <1>1, <2>1, <2>2, <3>1, <3>2, IdRanges DEF CellRight
    <2>3. CASE e # d
      <3>1. device'[e] = device[e]
        BY <1>0, <1>1, <2>3 DEF IdsTypeOK
      <3>2. \A i \in Ids : i # id => nodeIds'[i] = nodeIds[i] /\ nextHop'[i] = nextHop[i]
        BY <1>0, <1>1 DEF IdsTypeOK
      <3>3. device[e].lte \in Nat /\ device[e].nr \in Nat
        BY <1>0, DeviceFields DEF Ids
      <3>4. CASE device[e].type = "ENODEB"
        <4>1. CellRight(e)
          BY <1>0, <2>1, <3>4 DEF DevicesRight
        <4>2. device[e].lte # id
          BY <1>0, <2>1, <3>3, <4>1, IdRanges DEF CellRight
        <4> QED
          BY <1>0, <1>1, <3>1, <3>2, <3>3, <3>4, <4>1, <4>2, DeviceFields,
             IdRanges
          DEF CellRight
      <3>5. CASE device[e].type = "UE"
        <4>1. UeRight(e)
          BY <1>0, <2>1, <3>5 DEF DevicesRight
        <4>2. device[e].lte # id /\ device[e].nr # id
          BY <1>0, <2>1, <3>3, <4>1, IdRanges DEF UeRight
        <4> QED
          BY <1>0, <1>1, <3>1, <3>2, <3>5, <4>1, <4>2, DeviceFields
          DEF UeRight
      <3> QED
        BY <3>1, <3>4, <3>5
    <2> QED
      BY <2>2, <2>3
  <1> QED
    BY <1>3, <1>5, <1>6 DEF IdInv

\* A new UE takes an LTE id and an NR id no device has.
LEMMA RegisterUeKeepsIdInv ==
  ASSUME IdInv, NEW d \in Devices, RegisterUe(d)
  PROVE  IdInv'
  <1> DEFINE lte == counter.lte
             nr == counter.nr
             new == [type |-> "UE", lte |-> lte, nr |-> nr, master |-> 0]
  <1>0. /\ IdsTypeOK /\ CountersInv /\ DevicesRight
        /\ counter.enb \in Ids /\ lte \in Ids /\ nr \in Ids /\ 0 \in Ids
        /\ cells \in Nat /\ ues \in Nat
    <2>1. 0 \in Ids
      BY IdRanges DEF Ids
    <2> QED
      BY <2>1 DEF IdInv, IdsTypeOK
  <1>1. /\ counter' = [counter EXCEPT !.lte = Incremented(lte),
                                      !.nr = Incremented(nr)]
        /\ nodeIds' = [nodeIds EXCEPT ![lte] = d, ![nr] = d]
        /\ nextHop' = [nextHop EXCEPT ![lte] = 0, ![nr] = 0]
        /\ device' = [device EXCEPT ![d] = new]
        /\ ues' = ues + 1 /\ cells' = cells
    BY DEF RegisterUe
  <1>2. /\ counter'.enb = counter.enb
        /\ counter'.lte = Incremented(lte) /\ counter'.nr = Incremented(nr)
        /\ counter' \in [enb : Ids, lte : Ids, nr : Ids]
    BY <1>0, <1>1, IncrementedInIds DEF IdsTypeOK
  <1>3. IdsTypeOK'
    <2>1. new \in DeviceState
      BY <1>0 DEF DeviceState
    <2>2. device' \in [Devices -> DeviceState]
      BY <1>0, <1>1, <2>1 DEF IdsTypeOK, DeviceState
    <2>3. /\ nodeIds' \in [Ids -> Devices \union {NoDevice}]
          /\ nextHop' \in [Ids -> Ids]
      BY <1>0, <1>1 DEF IdsTypeOK
    <2>4. cells' \in Nat /\ ues' \in Nat
      BY <1>0, <1>1
    <2> QED
      BY <1>2, <2>2, <2>3, <2>4 DEF IdsTypeOK, DeviceState
  <1>4. WithinCapacity' =>
          /\ WithinCapacity /\ lte = UeMin + ues /\ nr = NrUeMin + ues
          /\ lte < NrUeMin /\ nr < UeMax
    BY <1>0, <1>1, IdRanges DEF WithinCapacity, CountersInv
  <1>5. CountersInv'
    <2> SUFFICES ASSUME WithinCapacity'
                 PROVE  /\ counter'.enb = EnbMin + cells'
                        /\ counter'.lte = UeMin + ues'
                        /\ counter'.nr = NrUeMin + ues'
      BY DEF CountersInv
    <2>1. lte < UeMax /\ nr < UeMax
      BY <1>0, <1>4, IdRanges DEF Ids
    <2> QED
      BY <1>0, <1>1, <1>2, <1>4, <2>1, IncrementedInIds, IdRanges
      DEF CountersInv
  <1>6. DevicesRight'
    <2> SUFFICES ASSUME WithinCapacity', NEW e \in Devices
                 PROVE  /\ device'[e].type = "ENODEB" => CellRight(e)'
                        /\ device'[e].type = "UE" => UeRight(e)'
      BY DEF DevicesRight
    <2>1. /\ WithinCapacity /\ lte = UeMin + ues /\ nr = NrUeMin + ues
          /\ lte < NrUeMin /\ nr < UeMax /\ cells =< EnbMax - EnbMin + 1
      BY <1>4 DEF WithinCapacity
    <2>2. CASE e = d
      <3>1. device'[e] = new
        BY <1>0, <1>1, <2>2 DEF IdsTypeOK
      <3>2. nodeIds'[lte] = d /\ nodeIds'[nr] = d /\ nextHop'[nr] = 0
        BY <1>0, <1>1 DEF IdsTypeOK
      <3> QED
        BY <1>0, <1>1, <2>1, <2>2, <3>1, <3>2, IdRanges DEF UeRight
    <2>3. CASE e # d
      <3>1. device'[e] = device[e]
        BY <1>0, <1>1, <2>3 DEF IdsTypeOK
      <3>2. \A i \in Ids : i # lte /\ i # nr =>
              nodeIds'[i] = nodeIds[i] /\ nextHop'[i] = nextHop[i]
        BY <1>0, <1>1 DEF IdsTypeOK
      <3>3. device[e].lte \in Nat /\ device[e].nr \in Nat
        BY <1>0, DeviceFields DEF Ids
      <3>0. cells' = cells /\ ues' = ues + 1
        BY <1>1
      <3>4. CASE device[e].type = "ENODEB"
        <4>1. CellRight(e)
          BY <1>0, <2>1, <3>4 DEF DevicesRight
        <4>2. device[e].lte # lte /\ device[e].lte # nr
          <5>1. device[e].lte < EnbMin + cells
            BY <4>1 DEF CellRight
          <5>2. device[e].lte < UeMin /\ UeMin =< lte /\ UeMin =< nr
            BY <1>0, <2>1, <3>3, <5>1, IdRanges
          <5> QED
            BY <3>3, <5>2, IdRanges
        <4>3. /\ nodeIds'[device[e].lte] = nodeIds[device[e].lte]
              /\ nextHop'[device[e].lte] = nextHop[device[e].lte]
          BY <1>0, <3>2, <4>2, DeviceFields
        <4>4. CellRight(e)'
          BY <3>1, <3>0, <4>1, <4>3 DEF CellRight
        <4> QED
          BY <3>1, <3>4, <4>4
      <3>5. CASE device[e].type = "UE"
        <4>1. UeRight(e)
          BY <1>0, <2>1, <3>5 DEF DevicesRight
        <4>2. /\ device[e].lte # lte /\ device[e].lte # nr
              /\ device[e].nr # lte /\ device[e].nr # nr
          <5>1. /\ device[e].lte < UeMin + ues
                /\ NrUeMin =< device[e].nr /\ device[e].nr < NrUeMin + ues
            BY <4>1 DEF UeRight
          <5> HIDE DEF lte, nr
          <5> QED
            BY <1>0, <2>1, <3>3, <5>1, IdRanges
        <4>3. /\ nodeIds'[device[e].lte] = nodeIds[device[e].lte]
              /\ nodeIds'[device[e].nr] = nodeIds[device[e].nr]
              /\ nextHop'[device[e].nr] = nextHop[device[e].nr]
          BY <1>0, <3>2, <4>2, DeviceFields
        <4>4. UeRight(e)'
          BY <1>0, <3>1, <3>3, <3>0, <4>1, <4>3, IdRanges DEF UeRight
        <4> QED
          BY <3>1, <3>5, <4>4
      <3> QED
        BY <3>1, <3>4, <3>5
    <2> QED
      BY <2>2, <2>3
  <1> QED
    BY <1>3, <1>5, <1>6 DEF IdInv

\* A handover changes the next hop of one NR id and of no other device.
LEMMA HandoverKeepsIdInv ==
  ASSUME IdInv, NEW d \in Devices, NEW m \in Devices, Handover(d, m)
  PROVE  IdInv'
  <1> DEFINE a == device[d].nr
             new == [device[d] EXCEPT !.master = Address(m)]
  <1>0. /\ IdsTypeOK /\ CountersInv /\ DevicesRight
        /\ a \in Ids /\ Address(m) \in Ids /\ device[d] \in DeviceState
        /\ cells \in Nat /\ ues \in Nat
    BY DeviceFields DEF IdInv, IdsTypeOK, DeviceState
  <1>1. /\ device[d].type = "UE"
        /\ nextHop' = [nextHop EXCEPT ![a] = Address(m)]
        /\ device' = [device EXCEPT ![d].master = Address(m)]
        /\ UNCHANGED <<counter, nodeIds, cells, ues>>
    BY DEF Handover, Address
  <1>2. /\ new \in DeviceState /\ new.master = Address(m)
        /\ new.type = "UE" /\ new.lte = device[d].lte /\ new.nr = a
    BY <1>0, <1>1 DEF DeviceState
  <1>3. /\ device'[d] = new
        /\ \A e \in Devices : e # d => device'[e] = device[e]
        /\ device' \in [Devices -> DeviceState]
    BY <1>0, <1>1, <1>2 DEF IdsTypeOK, DeviceState
  <1>4. IdsTypeOK'
    BY <1>0, <1>1, <1>3 DEF IdsTypeOK, DeviceState
  <1>5. CountersInv'
    BY <1>0, <1>1 DEF CountersInv, WithinCapacity
  <1>6. DevicesRight'
    <2> SUFFICES ASSUME WithinCapacity', NEW e \in Devices
                 PROVE  /\ device'[e].type = "ENODEB" => CellRight(e)'
                        /\ device'[e].type = "UE" => UeRight(e)'
      BY DEF DevicesRight
    <2>1. WithinCapacity
      BY <1>1 DEF WithinCapacity
    <2>2. UeRight(d)
      BY <1>0, <1>1, <2>1 DEF DevicesRight
    <2>3. \A i \in Ids : i # a => nextHop'[i] = nextHop[i]
      BY <1>0, <1>1 DEF IdsTypeOK
    <2>4. nextHop'[a] = Address(m) /\ nodeIds' = nodeIds
      BY <1>0, <1>1 DEF IdsTypeOK
    <2>5. CASE e = d
      BY <1>1, <1>2, <1>3, <2>2, <2>4, <2>5 DEF UeRight
    <2>6. CASE e # d
      <3>1. device'[e] = device[e]
        BY <1>3, <2>6
      <3>2. CASE device[e].type = "ENODEB"
        <4>1. CellRight(e)
          BY <1>0, <2>1, <3>2 DEF DevicesRight
        <4>2. device[e].lte # a
          BY <2>2, <2>6, <4>1 DEF CellRight, UeRight
        <4> QED
          BY <1>0, <1>1, <2>3, <3>1, <3>2, <4>1, <4>2, DeviceFields
          DEF CellRight
      <3>3. CASE device[e].type = "UE"
        <4>1. UeRight(e)
          BY <1>0, <2>1, <3>3 DEF DevicesRight
        <4>2. device[e].nr # a
          BY <2>2, <2>6, <4>1 DEF UeRight
        <4> QED
          BY <1>0, <1>1, <2>3, <3>1, <3>3, <4>1, <4>2, DeviceFields
          DEF UeRight
      <3> QED
        BY <3>1, <3>2, <3>3
    <2> QED
      BY <2>5, <2>6
  <1> QED
    BY <1>4, <1>5, <1>6 DEF IdInv

\* Every step keeps the invariant.
LEMMA NextIdInv == IdInv /\ [Next]_ivars => IdInv'
  <1> SUFFICES ASSUME IdInv, [Next]_ivars PROVE IdInv'
    OBVIOUS
  <1>1. CASE UNCHANGED ivars
    BY <1>1 DEF ivars, IdInv, IdsTypeOK, CountersInv, DevicesRight,
                WithinCapacity, CellRight, UeRight
  <1>2. CASE Next
    BY <1>2, RegisterCellKeepsIdInv, RegisterUeKeepsIdInv, HandoverKeepsIdInv
    DEF Next
  <1> QED
    BY <1>1, <1>2

\* The invariant holds throughout, for all ranges and devices.
THEOREM IdInvariance == Spec => []IdInv
  BY InitIdInv, NextIdInv, PTL DEF Spec

\* Ids stay unsigned shorts, whatever registerNode counts up to.
THEOREM IdTypes == Spec => []IdsTypeOK
  <1>1. IdInv => IdsTypeOK
    BY DEF IdInv
  <1> QED
    BY <1>1, IdInvariance, PTL

\* Up to the capacity of the id ranges, getOmnetId, getNodeTypeById and isNrUe
\* are right for every device that registerNode has seen.
THEOREM AddressesLeadToDevices == Spec => []AddressLeadsToDevice
  <1>1. ASSUME IdInv, WithinCapacity, NEW d \in Registered
        PROVE  /\ nodeIds[Address(d)] = d /\ nodeIds[device[d].lte] = d
               /\ NodeTypeById(Address(d)) = device[d].type
               /\ NodeTypeById(device[d].lte) = device[d].type
               /\ IsNrUe(Address(d)) <=> device[d].type = "UE"
    <2>1. d \in Devices /\ device[d].type # "NONE" /\ IdsTypeOK
      BY <1>1 DEF Registered, IdInv
    <2>2. /\ device[d].type \in {"ENODEB", "UE"}
          /\ device[d].lte \in Nat /\ device[d].nr \in Nat
          /\ device[d].lte =< UeMax /\ device[d].nr =< UeMax
          /\ cells \in Nat /\ ues \in Nat
      BY <2>1, DeviceFields DEF Ids, IdsTypeOK
    <2>3. /\ device[d].type = "ENODEB" => CellRight(d)
          /\ device[d].type = "UE" => UeRight(d)
      BY <1>1, <2>1 DEF IdInv, DevicesRight
    <2>4. CASE device[d].type = "ENODEB"
      <3>1. Address(d) = device[d].lte
        BY <2>4 DEF Address
      <3>2. /\ EnbMin =< device[d].lte /\ device[d].lte =< EnbMax
            /\ nodeIds[device[d].lte] = d
        BY <1>1, <2>2, <2>3, <2>4, IdRanges DEF CellRight, WithinCapacity
      <3> QED
        BY <2>4, <3>1, <3>2 DEF NodeTypeById, IsNrUe
    <2>5. CASE device[d].type = "UE"
      <3>1. Address(d) = device[d].nr
        BY <2>5 DEF Address
      <3>2. /\ UeMin =< device[d].lte /\ NrUeMin =< device[d].nr
            /\ nodeIds[device[d].lte] = d /\ nodeIds[device[d].nr] = d
        BY <2>3, <2>5 DEF UeRight
      <3> QED
        BY <2>2, <2>5, <3>1, <3>2, IdRanges DEF NodeTypeById, IsNrUe
    <2> QED
      BY <2>2, <2>4, <2>5
  <1>2. IdInv => AddressLeadsToDevice
    BY <1>1 DEF AddressLeadsToDevice
  <1> QED
    BY <1>2, IdInvariance, PTL

\* Up to the capacity of the id ranges, getNextHop gives for every device the
\* cell it is attached to.
THEOREM NextHopsAreMasters == Spec => []NextHopIsMaster
  <1>1. ASSUME IdInv, WithinCapacity, NEW d \in Registered
        PROVE  nextHop[Address(d)] = device[d].master
    <2>1. /\ d \in Devices /\ device[d].type \in {"ENODEB", "UE"}
      BY <1>1, DeviceFields DEF Registered, IdInv
    <2>2. /\ device[d].type = "ENODEB" => CellRight(d)
          /\ device[d].type = "UE" => UeRight(d)
      BY <1>1, <2>1 DEF IdInv, DevicesRight
    <2> QED
      BY <2>1, <2>2 DEF Address, CellRight, UeRight
  <1>2. IdInv => NextHopIsMaster
    BY <1>1 DEF NextHopIsMaster
  <1> QED
    BY <1>2, IdInvariance, PTL
=============================================================================
