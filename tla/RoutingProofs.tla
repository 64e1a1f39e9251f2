--------------------------- MODULE RoutingProofs ----------------------------
(***************************************************************************)
(* Proofs about Routing, for any set of stations, any RSUs among them and  *)
(* any number of packets: lists name RSUs where they are, stores hold      *)
(* addresses of the own cluster, forwarding ends after two hops, and the   *)
(* packets without a route or a next hop are the ones they seem to be.     *)
(***************************************************************************)
EXTENDS Routing, ScanProofs

\* The binder buffers for a UE exactly while its completion event is pending.
HeldInv == \A n \in Nodes : pr[n].held <=> pr[n].triggers > 0

\* The part of the invariant that is about the stations and not their packets.
\* A routing failure needs no departure, so FailureNeedsDeparture is not in it.
RoadInv ==
  /\ IInv
  /\ DevicesInv
  /\ CellsInv
  /\ RegistryExact
  /\ HandoverChangesMaster
  /\ HeldInv

\* The scan of n is done with: its device is the one it keeps.
ScanOver(n) == phase[n] \in {"settled", "gone"}

\* The NIC of n is attached or will be with what it is sending.
Linked(n) == pr[n].type = "MASTER" \/ pr[n].master # 0 \/ pr[n].triggers > 0

\* An address that belongs to a station for good.
Known(a) == \E m \in Nodes : ScanOver(m) /\ PrimaryAddress(m) = a

\* An entry of a list of station n.
ListedOK(n, e) ==
  /\ phase[e.name] = "settled"
  /\ e.id = PrimaryAddress(e.name)
  /\ e.name # n => GetNextHop(e.id) # 0

ListsInv ==
  /\ \A n \in Nodes : \A e \in publishers[n] : ListedOK(n, e)
  /\ \A n \in Nodes : \A e \in onair[n] : ListedOK(n, e)
  /\ \A n \in Nodes : \A e \in publishers[n] :
       e.name # n => e.cluster = GetNextHop(e.id)

\* An address in a store of station n.
StoredOK(n, a) ==
  Known(a) /\ GetNextHop(a) # 0 /\ GetNextHop(a) = pr[n].manager

StoresInv ==
  \A n \in Nodes : \A a \in partners[n] : StoredOK(n, a)

\* A packet is at its destination or, after one hop, at the master of its
\* destination's cell, which is the cell of its last sender.  The addresses it
\* carries are of that cell, the sender's own as soon as the packet can arrive.
PacketOK(p) ==
  LET c == GetNextHop(p.dst)
  IN /\ c # 0 /\ Known(p.dst)
     /\ ScanOver(p.by) /\ Linked(p.by) /\ pr[p.by].manager = c
     /\ \/ p.hops = 1 /\ p.at \in {p.dst, Cell(c)}
        \/ p.hops = 2 /\ p.at = p.dst
     /\ \A a \in p.load :
          Known(a) /\ (GetNextHop(a) = c \/ a = PrimaryAddress(p.by))

PacketsInv == \A p \in net : PacketOK(p)

FailuresInv ==
  /\ RelayHasRoute
  /\ MissingHopNeedsDeparture
  /\ OneClusterRoutes

\* The inductive invariant.
RoutingInv ==
  /\ RoadInv
  /\ RoutingTypeOK
  /\ ListsInv
  /\ StoresInv
  /\ PacketsInv
  /\ FailuresInv

-----------------------------------------------------------------------------
(* Stations and their devices.                                             *)

\* What routing reads of a device.
LEMMA DeviceFacts ==
  ASSUME RoadInv, NEW n \in Nodes
  PROVE  /\ pr[n].cell \in Nat /\ pr[n].manager \in Nat /\ pr[n].master \in Nat
         /\ pr[n].type \in {"MASTER", "MEMBER"} /\ gw[n].manager = 0
         /\ phase[n] = "settled" => pr[n].manager # 0
         /\ ~ScanOver(n) => pr[n].manager = 0
         /\ pr[n].manager = 0 => pr[n].type = "MEMBER" /\ pr[n].master = 0
         /\ pr[n].type = "MASTER" => pr[n].cell # 0 /\ pr[n].manager = pr[n].cell
         /\ pr[n].type = "MEMBER" => pr[n].master \in {0, pr[n].manager}
         /\ Linked(n) /\ ~pr[n].held =>
              pr[n].type = "MASTER" \/ pr[n].master = pr[n].manager
  <1>1. /\ pr[n] \in Device /\ phase[n] \in Phases
        /\ pr[n].held <=> pr[n].triggers > 0
    BY DEF RoadInv, IInv, TypeOK, HeldInv
  <1>2. gw[n].manager = 0
    BY DEF RoadInv, DevicesInv, NewUe
  <1>3. Fresh(pr[n]) \/ MasterShape(pr[n]) \/ MemberShape(pr[n])
    BY DEF RoadInv, DevicesInv
  <1>4. /\ phase[n] = "settled" => pr[n].manager # 0
        /\ ~ScanOver(n) => Fresh(pr[n])
    BY <1>1 DEF RoadInv, DevicesInv, ScanOver, Phases
  <1>5. pr[n].cell \in Nat /\ pr[n].manager \in Nat /\ pr[n].master \in Nat
    BY <1>1 DEF Device
  <1>6. CASE Fresh(pr[n])
    <2>1. /\ pr[n].type = "MEMBER" /\ pr[n].manager = 0 /\ pr[n].master = 0
      BY <1>6, FreshFields
    <2> QED
      BY <1>2, <1>4, <1>5, <2>1
  <1>7. CASE MasterShape(pr[n])
    BY <1>1, <1>2, <1>4, <1>5, <1>7, MasterFields, FreshFields DEF Linked
  <1>8. CASE MemberShape(pr[n])
    BY <1>1, <1>2, <1>4, <1>5, <1>8, FreshFields DEF Linked, MemberShape
  <1> QED
    BY <1>3, <1>6, <1>7, <1>8

\* As long as nothing has failed, this is the invariant of ScanProofs.
LEMMA RoadIsScan == RoadInv /\ Running => ScanInv
  BY DEF RoadInv, ScanInv, Running, FailureNeedsDeparture

\* A step of the membership part ends in the invariant of ScanProofs.
LEMMA RoadNext ==
  ASSUME RoadInv, Running, NEW n \in Nodes, StationStep(n)
  PROVE  ScanInv'
  <1>1. Next
    BY DEF Next
  <1> QED
    BY <1>1, NextScanInv, NoOrders, RoadIsScan

\* What a step may do to the stations that have a device for good: nothing but
\* attach it, once.
Steady(k) ==
  /\ ScanOver(k)'
  /\ pr'[k].type = pr[k].type /\ pr'[k].cell = pr[k].cell
  /\ pr'[k].manager = pr[k].manager
  /\ pr[k].master # 0 => pr'[k].master = pr[k].master
  /\ Linked(k) => Linked(k)'

AllSteady == \A k \in Nodes : ScanOver(k) => Steady(k)

\* Where the device and the phase stay, or the vehicle leaves, all is steady.
LEMMA SteadySame ==
  ASSUME NEW k \in Nodes, ScanOver(k), pr'[k] = pr[k],
         phase'[k] = phase[k] \/ phase'[k] = "gone"
  PROVE  Steady(k)
  BY DEF Steady, ScanOver, Linked

\* The failures of forwardToNetwork.
RoutingFailures ==
  {"packet without a route", "report without a route",
   "relay without a route", "hop has no module"}

\* Handover and status events, on the primary NIC of a member.
LEMMA NicSteady ==
  ASSUME RoadInv, NEW n \in Nodes, NEW i \in Interfaces,
         TriggerHandover(n, i) \/ DoHandover(n, i) \/ UnicastStatus(n, i)
  PROVE  HeldInv' /\ AllSteady /\ phase' = phase
         /\ failure' \notin RoutingFailures
  <1>1. Running
    BY DEF TriggerHandover, DoHandover, UnicastStatus
  <1>2. /\ i = "PRIMARY" /\ Dev(n, i) = pr[n] /\ pr[n] \in Device
        /\ MemberShape(pr[n])
    BY <1>1, RoadIsScan, NicIsMember
  <1>3. pr \in [Nodes -> Device] /\ (pr[n].held <=> pr[n].triggers > 0)
    BY DEF RoadInv, IInv, TypeOK, HeldInv
  <1>4. ASSUME NEW d, SetDevice(n, "PRIMARY", d), d.type = pr[n].type,
               d.cell = pr[n].cell, d.manager = pr[n].manager,
               pr[n].master # 0 => d.master = pr[n].master,
               d.held <=> d.triggers > 0,
               pr[n].triggers > 0 => d.triggers > 0 \/ d.master # 0
        PROVE  HeldInv' /\ AllSteady /\ phase' = phase /\ failure' = failure
    <2>1. /\ pr' = [pr EXCEPT ![n] = d] /\ phase' = phase
          /\ failure' = failure
      BY <1>4 DEF SetDevice
    <2>2. pr'[n] = d /\ \A k \in Nodes : k # n => pr'[k] = pr[k]
      BY <1>3, <2>1
    <2>3. HeldInv'
      BY <1>4, <2>2 DEF RoadInv, HeldInv
    <2>4. ASSUME NEW k \in Nodes, ScanOver(k)
          PROVE  Steady(k)
      <3>1. CASE k # n
        BY <2>1, <2>2, <2>4, <3>1, SteadySame
      <3>2. CASE k = n
        BY <1>4, <2>1, <2>2, <2>4, <3>2 DEF Steady, ScanOver, Linked
      <3> QED
        BY <3>1, <3>2
    <2> QED
      BY <2>1, <2>3, <2>4 DEF AllSteady
  <1>5. ASSUME NEW why, Abort(why)
        PROVE  HeldInv' /\ AllSteady /\ phase' = phase /\ failure' = why
    <2>1. pr' = pr /\ phase' = phase /\ failure' = why
      BY <1>5 DEF Abort
    <2> QED
      BY <2>1, SteadySame DEF RoadInv, HeldInv, AllSteady
  <1>6. failure = "none"
    BY <1>1 DEF Running
  <1>7. CASE TriggerHandover(n, i)
    <2> DEFINE d == Triggered(pr[n])
    <2>1. /\ d.type = pr[n].type /\ d.cell = pr[n].cell
          /\ d.manager = pr[n].manager /\ d.master = pr[n].master
          /\ d.held /\ d.triggers > 0
      BY <1>2 DEF Triggered, Device
    <2>2. \/ \E why \in {"handover to the current master",
                         "handover to an unknown id", "current master gone"} :
               Abort(why)
          \/ SetDevice(n, "PRIMARY", d)
      BY <1>2, <1>7 DEF TriggerHandover
    <2> HIDE DEF d
    <2> QED
      BY <1>4, <1>5, <1>6, <2>1, <2>2 DEF RoutingFailures
  <1>8. CASE DoHandover(n, i)
    <2> DEFINE d == Completed(pr[n])
    <2>1. pr[n].triggers > 0
      BY <1>2, <1>8 DEF DoHandover
    <2>2. /\ d.type = pr[n].type /\ d.cell = pr[n].cell
          /\ d.manager = pr[n].manager /\ pr[n].master = 0 /\ d.master # 0
      BY <1>2, <2>1 DEF Completed, Device, MemberShape
    <2>4. d.held <=> d.triggers > 0
      BY <1>2, <2>1 DEF Completed, Device, MemberShape
    <2>3. \/ \E why \in {"handover target gone", "current master gone"} :
               Abort(why)
          \/ SetDevice(n, "PRIMARY", d)
      BY <1>2, <1>8 DEF DoHandover
    <2> HIDE DEF d
    <2> QED
      BY <1>4, <1>5, <1>6, <2>2, <2>3, <2>4 DEF RoutingFailures
  <1>9. CASE UnicastStatus(n, i)
    <2> DEFINE d == Expired(pr[n])
    <2>1. /\ d.type = pr[n].type /\ d.cell = pr[n].cell
          /\ d.manager = pr[n].manager /\ d.master = pr[n].master
          /\ d.triggers = pr[n].triggers
      BY <1>2 DEF Expired, Device
    <2>3. d.held <=> d.triggers > 0
      BY <1>2, <1>3 DEF Expired, Device
    <2>2. Abort("status to a gone master") \/ SetDevice(n, "PRIMARY", d)
      BY <1>2, <1>9 DEF UnicastStatus
    <2> HIDE DEF d
    <2>4. CASE SetDevice(n, "PRIMARY", d)
      <3>1. HeldInv' /\ AllSteady /\ phase' = phase /\ failure' = failure
        BY <1>4, <2>1, <2>3, <2>4
      <3> QED
        BY <1>6, <3>1 DEF RoutingFailures
    <2>5. CASE Abort("status to a gone master")
      <3>1. /\ HeldInv' /\ AllSteady /\ phase' = phase
            /\ failure' = "status to a gone master"
        BY <1>5, <2>5
      <3> QED
        BY <3>1 DEF RoutingFailures
    <2> QED
      BY <2>2, <2>4, <2>5
  <1> QED
    BY <1>7, <1>8, <1>9

\* What an entry event, a scan or a departure does to the stations.
LEMMA StationSteady ==
  ASSUME RoadInv, NEW n \in Nodes,
         \/ Initialize(n)
         \/ \E m \in Nodes, full \in AdvertisedFull, rssi \in Rssi :
              ReceiveBroadcast(n, m, full, rssi)
         \/ HandleBroadcastScanEvent(n)
         \/ Leave(n)
  PROVE  HeldInv' /\ AllSteady /\ failure' = "none" /\ Running
  <1>1. Running
    BY DEF Initialize, ReceiveBroadcast, HandleBroadcastScanEvent, Leave,
           ScanJoinsCluster, ScanCreatesCluster, ScanCreatesConvoy, ScanDone
  <1>2. ScanInv /\ failure = "none"
    BY <1>1, RoadIsScan DEF Running
  <1>3. pr \in [Nodes -> Device] /\ phase \in [Nodes -> Phases] /\ HeldInv
    BY DEF RoadInv, IInv, TypeOK
  <1>4. ASSUME NEW d, pr' = [pr EXCEPT ![n] = d], ~d.held, d.triggers = 0,
               ~ScanOver(n), \A k \in Nodes : k # n => phase'[k] = phase[k]
        PROVE  HeldInv' /\ AllSteady
    <2>1. pr'[n] = d /\ \A k \in Nodes : k # n => pr'[k] = pr[k]
      BY <1>3, <1>4
    <2>2. d.held <=> d.triggers > 0
      BY <1>4
    <2>3. HeldInv'
      BY <1>3, <2>1, <2>2 DEF HeldInv
    <2> QED
      BY <1>4, <2>1, <2>3, SteadySame DEF AllSteady
  <1>5. CASE Initialize(n)
    <2> DEFINE d == NewUe("MEMBER", 0)
    <2>1. /\ phase[n] = "absent" /\ phase' = [phase EXCEPT ![n] = "scanning"]
          /\ pr' = [pr EXCEPT ![n] = d] /\ failure' = failure
      BY <1>5 DEF Initialize
    <2>2. ~d.held /\ d.triggers = 0
      BY DEF NewUe
    <2> HIDE DEF d
    <2>3. ~ScanOver(n) /\ \A k \in Nodes : k # n => phase'[k] = phase[k]
      BY <1>3, <2>1 DEF ScanOver
    <2> QED
      BY <1>1, <1>2, <1>4, <2>1, <2>2, <2>3
  <1>6. CASE \E m \in Nodes, full \in AdvertisedFull, rssi \in Rssi :
               ReceiveBroadcast(n, m, full, rssi)
    <2>1. pr' = pr /\ phase' = phase /\ failure' = failure
      BY <1>6 DEF ReceiveBroadcast
    <2> QED
      BY <1>1, <1>2, <1>3, <2>1, SteadySame DEF AllSteady, HeldInv
  <1>7. CASE HandleBroadcastScanEvent(n)
    <2>1. PICK d : /\ pr' = [pr EXCEPT ![n] = d] /\ ~d.held /\ d.triggers = 0
                   /\ phase[n] = "scanning" /\ failure' = failure
                   /\ phase' = [phase EXCEPT ![n] = "settled"]
      <3>1. CASE \E m \in Nodes : Joins(n, pr[m].adv, pr[m].cell)
        <4>1. PICK m \in Nodes : Joins(n, pr[m].adv, pr[m].cell)
          BY <3>1
        <4> DEFINE d == JoinedCluster(pr[n], pr[m].adv, pr[m].cell)
        <4>2. Fresh(pr[n])
          BY <4>1 DEF Joins, RoadInv, DevicesInv
        <4>3. ~d.held /\ d.triggers = 0
          BY <4>2 DEF Fresh, NewUe, JoinedCluster, AttachToCluster
        <4> HIDE DEF d
        <4> QED
          BY <4>1, <4>3 DEF Joins, d
      <3>2. CASE \E g \in Nat \ {0} : Opens(n, g)
        <4>1. PICK g \in Nat \ {0} : Opens(n, g)
          BY <3>2
        <4> DEFINE d == NewMaster(enb, g)
        <4>2. ~d.held /\ d.triggers = 0
          BY DEF NewMaster
        <4> HIDE DEF d
        <4> QED
          BY <4>1, <4>2 DEF Opens, d
      <3> QED
        BY <1>2, <1>7, <3>1, <3>2, ScanOutcome
    <2>2. ~ScanOver(n) /\ \A k \in Nodes : k # n => phase'[k] = phase[k]
      BY <1>3, <2>1 DEF ScanOver
    <2> QED
      BY <1>1, <1>2, <1>4, <2>1, <2>2
  <1>8. CASE Leave(n)
    <2>1. pr' = pr /\ phase' = [phase EXCEPT ![n] = "gone"] /\ failure' = failure
      BY <1>8 DEF Leave
    <2>2. \A k \in Nodes : phase'[k] = phase[k] \/ phase'[k] = "gone"
      BY <1>3, <2>1
    <2> QED
      BY <1>1, <1>2, <1>3, <2>1, <2>2, SteadySame DEF AllSteady, HeldInv
  <1> QED
    BY <1>5, <1>6, <1>7, <1>8

\* A settled RSU is settled for good: only vehicles leave.
Remain == \A k \in Rsus : phase[k] = "settled" => phase'[k] = "settled"

\* What a step of the membership part does to the stations.
LEMMA MembershipSteady ==
  ASSUME RoadInv, NEW n \in Nodes, MembershipStep(n)
  PROVE  /\ RoadInv' /\ AllSteady /\ Remain
         /\ failure' \notin RoutingFailures
  <1>1. phase \in [Nodes -> Phases] /\ Rsus \subseteq Nodes
    BY RsusAssumption DEF RoadInv, IInv, TypeOK
  <1>2. \/ Initialize(n)
        \/ \E m \in Nodes, full \in AdvertisedFull, rssi \in Rssi :
             ReceiveBroadcast(n, m, full, rssi)
        \/ HandleBroadcastScanEvent(n)
        \/ Leave(n) /\ n \notin Rsus
        \/ \E i \in Interfaces :
             TriggerHandover(n, i) \/ DoHandover(n, i) \/ UnicastStatus(n, i)
    BY DEF MembershipStep, HearBroadcast, Scan, VehicleLeaves
  <1>3. StationStep(n)
    BY <1>2 DEF StationStep
  <1>4. /\ HeldInv' /\ AllSteady /\ Running
        /\ failure' \notin RoutingFailures
    <2>1. CASE \E i \in Interfaces :
             TriggerHandover(n, i) \/ DoHandover(n, i) \/ UnicastStatus(n, i)
      BY <2>1, NicSteady DEF TriggerHandover, DoHandover, UnicastStatus
    <2>2. "none" \notin RoutingFailures
      BY DEF RoutingFailures
    <2> QED
      BY <1>2, <2>1, <2>2, StationSteady
  <1>5. ScanInv'
    BY <1>3, <1>4, RoadNext
  <1>6. RoadInv'
    BY <1>4, <1>5 DEF ScanInv, RoadInv
  <1>7. Remain
    <2>1. CASE \E i \in Interfaces :
             TriggerHandover(n, i) \/ DoHandover(n, i) \/ UnicastStatus(n, i)
      BY <2>1, NicSteady DEF Remain
    <2>2. CASE Initialize(n)
      BY <1>1, <2>2 DEF Initialize, Remain
    <2>3. CASE \E m \in Nodes, full \in AdvertisedFull, rssi \in Rssi :
             ReceiveBroadcast(n, m, full, rssi)
      BY <2>3 DEF ReceiveBroadcast, Remain
    <2>4. CASE HandleBroadcastScanEvent(n)
      <3>1. phase' = [phase EXCEPT ![n] = "settled"]
        BY <2>4 DEF HandleBroadcastScanEvent, ScanJoinsCluster,
                    ScanCreatesCluster, ScanCreatesConvoy, ScanDone
      <3> QED
        BY <1>1, <3>1 DEF Remain
    <2>5. CASE Leave(n) /\ n \notin Rsus
      BY <1>1, <2>5 DEF Leave, Remain
    <2> QED
      BY <1>2, <2>1, <2>2, <2>3, <2>4, <2>5
  <1> QED
    BY <1>4, <1>6, <1>7

-----------------------------------------------------------------------------
(* What holds of addresses, entries, stores and packets goes on to hold.   *)

\* Where the binder finds the primary device of a station.
LEMMA PrimaryHop ==
  ASSUME NEW m \in Nodes
  PROVE  GetNextHop(PrimaryAddress(m)) =
           IF pr[m].type = "MASTER" THEN pr[m].cell ELSE pr[m].master
  BY DEF GetNextHop, PrimaryAddress, Cell, Ue

\* Addresses are of the own cluster or of none yet.
LEMMA PrimaryHopManager ==
  ASSUME RoadInv, NEW m \in Nodes
  PROVE  /\ GetNextHop(PrimaryAddress(m)) \in {0, pr[m].manager}
         /\ Linked(m) /\ ~pr[m].held
              => GetNextHop(PrimaryAddress(m)) = pr[m].manager
  BY PrimaryHop, DeviceFacts

\* A station keeps its address, and its next hop once it has one.
LEMMA PrimarySteady ==
  ASSUME AllSteady, NEW m \in Nodes, ScanOver(m)
  PROVE  /\ ScanOver(m)' /\ PrimaryAddress(m)' = PrimaryAddress(m)
         /\ pr'[m].manager = pr[m].manager
         /\ Linked(m) => Linked(m)'
         /\ GetNextHop(PrimaryAddress(m)) # 0 =>
              GetNextHop(PrimaryAddress(m))' = GetNextHop(PrimaryAddress(m))
  <1>1. Steady(m)
    BY DEF AllSteady
  <1>2. PrimaryAddress(m)' = PrimaryAddress(m)
    BY <1>1 DEF Steady, PrimaryAddress
  <1>3. CASE pr[m].type = "MASTER"
    BY <1>1, <1>2, <1>3 DEF Steady, PrimaryAddress, GetNextHop, Cell
  <1>4. CASE pr[m].type # "MASTER"
    BY <1>1, <1>2, <1>4 DEF Steady, PrimaryAddress, GetNextHop, Ue
  <1> QED
    BY <1>3, <1>4

\* An address that belongs to a station goes on to do so.
LEMMA KnownSteady ==
  ASSUME AllSteady, NEW a, Known(a)
  PROVE  /\ Known(a)'
         /\ GetNextHop(a) # 0 => GetNextHop(a)' = GetNextHop(a)
  <1>1. PICK m \in Nodes : ScanOver(m) /\ PrimaryAddress(m) = a
    BY DEF Known
  <1>2. /\ ScanOver(m)' /\ PrimaryAddress(m)' = a
        /\ GetNextHop(PrimaryAddress(m)) # 0 =>
             GetNextHop(PrimaryAddress(m))' = GetNextHop(PrimaryAddress(m))
    BY <1>1, PrimarySteady
  <1>3. Known(a)'
    BY <1>2 DEF Known
  <1>4. GetNextHop(PrimaryAddress(m))' = GetNextHop(a)'
    BY <1>2 DEF GetNextHop
  <1> QED
    BY <1>1, <1>2, <1>3, <1>4

\* An entry of a list stays right.
LEMMA ListedSteady ==
  ASSUME AllSteady, Remain, NEW n \in Nodes, NEW e \in Entries, ListedOK(n, e)
  PROVE  /\ ListedOK(n, e)'
         /\ e.name # n => GetNextHop(e.id)' = GetNextHop(e.id)
  <1>1. e.name \in Rsus /\ e.name \in Nodes
    BY RsusAssumption DEF Entries
  <1>2. phase'[e.name] = "settled" /\ ScanOver(e.name)
    BY <1>1 DEF ListedOK, Remain, ScanOver
  <1>3. PrimaryAddress(e.name)' = e.id
    BY <1>1, <1>2, PrimarySteady DEF ListedOK
  <1>4. Known(e.id)
    BY <1>1, <1>2 DEF Known, ListedOK
  <1> QED
    BY <1>2, <1>3, <1>4, KnownSteady DEF ListedOK

\* An address in a store stays right.
LEMMA StoredSteady ==
  ASSUME RoadInv, AllSteady, NEW n \in Nodes, NEW a, StoredOK(n, a)
  PROVE  StoredOK(n, a)'
  <1>1. ScanOver(n)
    BY DeviceFacts DEF StoredOK
  <1> QED
    BY <1>1, KnownSteady, PrimarySteady DEF StoredOK

\* A packet under way stays right.
LEMMA PacketSteady ==
  ASSUME RoadInv, AllSteady, NEW p \in Packets, PacketOK(p)
  PROVE  PacketOK(p)'
  <1> DEFINE c == GetNextHop(p.dst)
  <1>1. /\ c # 0 /\ Known(p.dst) /\ p.by \in Nodes
        /\ ScanOver(p.by) /\ Linked(p.by) /\ pr[p.by].manager = c
        /\ \/ p.hops = 1 /\ p.at \in {p.dst, Cell(c)}
           \/ p.hops = 2 /\ p.at = p.dst
        /\ \A a \in p.load :
             Known(a) /\ (GetNextHop(a) = c \/ a = PrimaryAddress(p.by))
    BY DEF PacketOK, Packets
  <1>2. c' = c /\ Known(p.dst)'
    BY <1>1, KnownSteady
  <1>3. /\ ScanOver(p.by)' /\ Linked(p.by)' /\ pr'[p.by].manager = c
        /\ PrimaryAddress(p.by)' = PrimaryAddress(p.by)
    BY <1>1, PrimarySteady
  <1>4. \A a \in p.load :
          Known(a)' /\ (GetNextHop(a)' = c \/ a = PrimaryAddress(p.by))
    BY <1>1, KnownSteady
  <1>5. Cell(c)' = Cell(c)
    BY <1>2 DEF Cell
  <1> QED
    BY <1>1, <1>2, <1>3, <1>4, <1>5 DEF PacketOK

\* An entry that is on a list of its own, and not only on the air.
NotedOK(n, e) ==
  ListedOK(n, e) /\ (e.name # n => e.cluster = GetNextHop(e.id))

\* Lists that gain only right entries stay right.
LEMMA ListsFrame ==
  ASSUME ListsInv, RoutingTypeOK, AllSteady, Remain,
         \A k \in Nodes : \A e \in publishers'[k] :
           e \in publishers[k] \/ NotedOK(k, e)',
         \A k \in Nodes : \A e \in onair'[k] :
           e \in onair[k] \/ e \in publishers'[k]
  PROVE  ListsInv'
  <1>1. ASSUME NEW k \in Nodes, NEW e \in publishers'[k]
        PROVE  NotedOK(k, e)'
    <2>1. CASE e \in publishers[k]
      <3>1. e \in Entries /\ NotedOK(k, e)
        BY <2>1 DEF RoutingTypeOK, ListsInv, NotedOK
      <3> QED
        BY <3>1, ListedSteady DEF NotedOK
    <2> QED
      BY <1>1, <2>1
  <1>2. ASSUME NEW k \in Nodes, NEW e \in onair'[k]
        PROVE  ListedOK(k, e)'
    <2>1. CASE e \in onair[k]
      BY <2>1, ListedSteady DEF RoutingTypeOK, ListsInv
    <2> QED
      BY <1>1, <1>2, <2>1 DEF NotedOK
  <1> QED
    BY <1>1, <1>2 DEF ListsInv, NotedOK

\* Stores that gain only right addresses stay right.
LEMMA StoresFrame ==
  ASSUME RoadInv, StoresInv, AllSteady,
         \A k \in Nodes : \A a \in partners'[k] :
           a \in partners[k] \/ StoredOK(k, a)'
  PROVE  StoresInv'
  <1> SUFFICES ASSUME NEW k \in Nodes, NEW a \in partners'[k]
               PROVE  StoredOK(k, a)'
    BY DEF StoresInv
  <1>1. CASE a \in partners[k]
    BY <1>1, StoredSteady DEF StoresInv
  <1> QED
    BY <1>1

\* The packets that are not new stay right.
LEMMA PacketsFrame ==
  ASSUME RoadInv, RoutingTypeOK, PacketsInv, AllSteady,
         \A p \in net' : p \in net \/ PacketOK(p)'
  PROVE  PacketsInv'
  <1> SUFFICES ASSUME NEW p \in net'
               PROVE  PacketOK(p)'
    BY DEF PacketsInv
  <1>1. CASE p \in net
    BY <1>1, PacketSteady DEF PacketsInv, RoutingTypeOK
  <1> QED
    BY <1>1

\* Where no station changes, what is right is right in the next state.
LEMMA SameStations ==
  ASSUME pr' = pr, phase' = phase
  PROVE  /\ AllSteady /\ Remain
         /\ \A a : (Known(a)' <=> Known(a)) /\ GetNextHop(a)' = GetNextHop(a)
         /\ \A n, e : NotedOK(n, e) => NotedOK(n, e)'
         /\ \A n, a : StoredOK(n, a) => StoredOK(n, a)'
         /\ \A p : PacketOK(p) => PacketOK(p)'
  <1>1. AllSteady /\ Remain
    BY SteadySame DEF AllSteady, Remain
  <1>2. \A n : /\ PrimaryAddress(n)' = PrimaryAddress(n)
               /\ ScanOver(n)' <=> ScanOver(n)
               /\ Linked(n)' <=> Linked(n)
    BY DEF PrimaryAddress, ScanOver, Linked
  <1>3. \A a : (Known(a)' <=> Known(a)) /\ GetNextHop(a)' = GetNextHop(a)
    BY <1>2 DEF Known, GetNextHop
  <1>4. \A n, e : NotedOK(n, e) => NotedOK(n, e)'
    BY <1>2, <1>3 DEF NotedOK, ListedOK
  <1>5. \A n, a : StoredOK(n, a) => StoredOK(n, a)'
    BY <1>3 DEF StoredOK
  <1>6. ASSUME NEW p, PacketOK(p)
        PROVE  PacketOK(p)'
    BY <1>2, <1>3, <1>6 DEF PacketOK, Cell
  <1> QED
    BY <1>1, <1>3, <1>4, <1>5, <1>6

-----------------------------------------------------------------------------
(* The publisher lists.                                                    *)

\* What a station that hears a list of attached RSUs makes of its own.
LEMMA MergedOK ==
  ASSUME RoadInv, RoutingTypeOK, ListsInv, NEW n \in Nodes,
         NEW list \in SUBSET Entries,
         \A x \in list : /\ phase[x.name] = "settled"
                         /\ x.id = PrimaryAddress(x.name)
                         /\ GetNextHop(x.id) # 0
  PROVE  /\ Merged(n, list) \in SUBSET Entries
         /\ \A e \in Merged(n, list) : NotedOK(n, e)
  <1> SUFFICES ASSUME NEW e \in Merged(n, list)
               PROVE  e \in Entries /\ NotedOK(n, e)
    OBVIOUS
  <1>1. CASE e \in publishers[n]
    BY <1>1 DEF RoutingTypeOK, ListsInv, NotedOK
  <1>2. CASE e \notin publishers[n]
    <2>1. PICK x \in list : e = [x EXCEPT !.cluster = GetNextHop(x.id)]
      BY <1>2 DEF Merged
    <2>2. x.name \in Nodes
      BY RsusAssumption DEF Entries
    <2>3. GetNextHop(x.id) \in Nat
      BY <2>2, PrimaryHop, DeviceFacts
    <2> DEFINE g == GetNextHop(x.id)
    <2> HIDE DEF g
    <2>4. e \in Entries /\ e.name = x.name /\ e.id = x.id /\ e.cluster = g
      BY <2>1, <2>3 DEF Entries, g
    <2> QED
      BY <2>4 DEF NotedOK, ListedOK, g
  <1> QED
    BY <1>1, <1>2

\* What a master broadcasts names attached RSUs only, itself included.
LEMMA MasterListOK ==
  ASSUME RoadInv, RoutingTypeOK, ListsInv, NEW m \in Nodes, IsMaster(m),
         NEW x \in onair[m]
  PROVE  /\ phase[x.name] = "settled" /\ x.id = PrimaryAddress(x.name)
         /\ GetNextHop(x.id) # 0
  <1>1. ListedOK(m, x)
    BY DEF ListsInv
  <1>2. CASE x.name = m
    <2>1. GetNextHop(PrimaryAddress(m)) # 0
      BY PrimaryHop, DeviceFacts DEF IsMaster
    <2> QED
      BY <1>1, <1>2, <2>1 DEF ListedOK
  <1> QED
    BY <1>1, <1>2 DEF ListedOK

\* What a member's status lists are attached RSUs only: it is sent when the
\* member is attached itself.
LEMMA StatusListOK ==
  ASSUME RoadInv, RoutingTypeOK, ListsInv, NEW n \in Nodes, TimerDue(pr[n]),
         pr[n].master # 0, NEW x \in onair[n]
  PROVE  /\ phase[x.name] = "settled" /\ x.id = PrimaryAddress(x.name)
         /\ GetNextHop(x.id) # 0
  <1>1. ListedOK(n, x)
    BY DEF ListsInv
  <1>2. CASE x.name = n
    <2>1. Scheduled(pr[n])
      BY TimerPending DEF RoadInv, IInv, TypeOK, Scheduled
    <2>2. MemberShape(pr[n])
      BY <2>1, FreshIdle, MasterIdle DEF RoadInv, DevicesInv
    <2>3. pr[n].type = "MEMBER"
      BY <2>2 DEF MemberShape
    <2>4. GetNextHop(PrimaryAddress(n)) # 0
      BY <2>3, PrimaryHop
    <2> QED
      BY <1>1, <1>2, <2>4 DEF ListedOK
  <1> QED
    BY <1>1, <1>2 DEF ListedOK

\* An RSU lists itself with the device it has after the step.
LEMMA UpdateOK ==
  ASSUME RoutingTypeOK, RoadInv', NEW n \in Nodes, phase'[n] = "settled",
         UpdatePublishers(n, pr'[n])
  PROVE  /\ publishers' \in [Nodes -> SUBSET Entries]
         /\ onair' \in [Nodes -> SUBSET Entries]
         /\ \A k \in Nodes : \A e \in publishers'[k] :
              e \in publishers[k] \/ NotedOK(k, e)'
         /\ \A k \in Nodes : \A e \in onair'[k] :
              e \in onair[k] \/ e \in publishers'[k]
  <1> DEFINE x == Entry(n, pr'[n])
             own == IF n \in Rsus THEN {x} ELSE {}
             list == {e \in publishers[n] : own = {} \/ e.name # n} \union own
  <1>1. /\ publishers' = [publishers EXCEPT ![n] = list]
        /\ onair' = [onair EXCEPT ![n] = list]
    BY DEF UpdatePublishers
  <1>2. pr'[n].cell \in Nat /\ pr'[n].manager \in Nat
    BY DEF RoadInv, IInv, TypeOK, Device
  <1>3. /\ x.name = n /\ x.id = PrimaryAddress(n)' /\ x.cluster = pr'[n].manager
        /\ x = [name |-> n, id |-> x.id, cluster |-> pr'[n].manager]
    BY DEF Entry, PrimaryAddress
  <1>4. x.id \in Addresses
    BY <1>2, <1>3 DEF PrimaryAddress, Cell, Ue, Addresses
  <1>5. n \in Rsus => x \in Entries
    BY <1>2, <1>3, <1>4 DEF Entries
  <1> HIDE DEF x
  <1>6. own \in SUBSET Entries /\ \A e \in own : NotedOK(n, e)'
    BY <1>3, <1>5 DEF NotedOK, ListedOK
  <1>7. list \in SUBSET Entries
    BY <1>6 DEF RoutingTypeOK
  <1>8. \A e \in list : e \in publishers[n] \/ NotedOK(n, e)'
    BY <1>6
  <1> HIDE DEF list, own
  <1> QED
    BY <1>1, <1>7, <1>8 DEF RoutingTypeOK

-----------------------------------------------------------------------------
(* The steps of membership.                                                *)

\* A step that fails, if at all, in membership explains all routing failures.
LEMMA NoNewFailure ==
  ASSUME failure' \notin RoutingFailures
  PROVE  FailuresInv'
  BY DEF RoutingFailures, FailuresInv, RelayHasRoute, MissingHopNeedsDeparture,
         OneClusterRoutes

\* A broadcast that is heard.
LEMMA HearStep ==
  ASSUME RoutingInv, NEW n \in Nodes, NEW m \in Nodes,
         NEW full \in AdvertisedFull, NEW rssi \in Rssi,
         HearBroadcast(n, m, full, rssi)
  PROVE  /\ publishers' \in [Nodes -> SUBSET Entries]
         /\ \A k \in Nodes : \A e \in publishers'[k] :
              e \in publishers[k] \/ NotedOK(k, e)'
  <1>1. /\ IsMaster(m) /\ pr' = pr /\ phase' = phase
        /\ \/ publishers' = publishers
           \/ publishers' = [publishers EXCEPT ![n] = Merged(n, onair[m])]
    BY DEF HearBroadcast, ReceiveBroadcast
  <1>2. RoadInv /\ RoutingTypeOK /\ ListsInv
    BY DEF RoutingInv
  <1>3. onair[m] \in SUBSET Entries
    BY <1>2 DEF RoutingTypeOK
  <1> DEFINE list == Merged(n, onair[m])
  <1>4. list \in SUBSET Entries /\ \A e \in list : NotedOK(n, e)
    BY <1>1, <1>2, <1>3, MasterListOK, MergedOK
  <1>5. \A e \in list : NotedOK(n, e)'
    BY <1>1, <1>4, SameStations
  <1> HIDE DEF list
  <1>6. CASE publishers' = publishers
    BY <1>2, <1>6 DEF RoutingTypeOK
  <1>7. CASE publishers' = [publishers EXCEPT ![n] = list]
    BY <1>2, <1>4, <1>5, <1>7 DEF RoutingTypeOK
  <1> QED
    BY <1>1, <1>6, <1>7 DEF list

\* A scan: the station that opened a cell updates its list.
LEMMA ScanListStep ==
  ASSUME RoutingInv, RoadInv', NEW n \in Nodes, Scan(n)
  PROVE  /\ publishers' \in [Nodes -> SUBSET Entries]
         /\ onair' \in [Nodes -> SUBSET Entries]
         /\ \A k \in Nodes : \A e \in publishers'[k] :
              e \in publishers[k] \/ NotedOK(k, e)'
         /\ \A k \in Nodes : \A e \in onair'[k] :
              e \in onair[k] \/ e \in publishers'[k]
  <1>1. RoutingTypeOK /\ phase \in [Nodes -> Phases]
    BY DEF RoutingInv, RoadInv, IInv, TypeOK
  <1>2. phase' = [phase EXCEPT ![n] = "settled"]
    BY DEF Scan, HandleBroadcastScanEvent, ScanJoinsCluster,
           ScanCreatesCluster, ScanCreatesConvoy, ScanDone
  <1>3. phase'[n] = "settled"
    BY <1>1, <1>2
  <1>4. \/ UpdatePublishers(n, pr'[n])
        \/ publishers' = publishers /\ onair' = onair
    BY DEF Scan
  <1>5. CASE UpdatePublishers(n, pr'[n])
    BY <1>1, <1>3, <1>5, UpdateOK
  <1>6. CASE publishers' = publishers /\ onair' = onair
    BY <1>1, <1>6 DEF RoutingTypeOK
  <1> QED
    BY <1>4, <1>5, <1>6

\* Every step of membership keeps the invariant of routing.
LEMMA MembershipKeeps ==
  ASSUME RoutingInv, NEW n \in Nodes, MembershipStep(n)
  PROVE  RoutingInv'
  <1>1. /\ RoadInv /\ RoutingTypeOK /\ ListsInv /\ StoresInv /\ PacketsInv
        /\ RoadInv' /\ AllSteady /\ Remain /\ failure' \notin RoutingFailures
    BY MembershipSteady DEF RoutingInv
  <1>2. FailuresInv'
    BY <1>1, NoNewFailure
  <1>3. ASSUME /\ publishers' \in [Nodes -> SUBSET Entries]
               /\ onair' \in [Nodes -> SUBSET Entries]
               /\ \A k \in Nodes : \A e \in publishers'[k] :
                    e \in publishers[k] \/ NotedOK(k, e)'
               /\ \A k \in Nodes : \A e \in onair'[k] :
                    e \in onair[k] \/ e \in publishers'[k]
               /\ partners' \in [Nodes -> SUBSET Addresses]
               /\ \A k \in Nodes : partners'[k] \subseteq partners[k]
               /\ net' = net
        PROVE  RoutingInv'
    <2>1. RoutingTypeOK'
      BY <1>1, <1>3 DEF RoutingTypeOK
    <2>2. ListsInv'
      BY <1>1, <1>3, ListsFrame
    <2>3. StoresInv'
      BY <1>1, <1>3, StoresFrame
    <2>4. PacketsInv'
      BY <1>1, <1>3, PacketsFrame
    <2> QED
      BY <1>1, <1>2, <2>1, <2>2, <2>3, <2>4 DEF RoutingInv
  <1>4. CASE UNCHANGED routing
    BY <1>1, <1>3, <1>4 DEF routing, RoutingTypeOK
  <1>5. CASE \E m \in Nodes, full \in AdvertisedFull, rssi \in Rssi :
               HearBroadcast(n, m, full, rssi)
    <2>1. onair' = onair /\ partners' = partners /\ net' = net
      BY <1>5 DEF HearBroadcast
    <2>2. /\ publishers' \in [Nodes -> SUBSET Entries]
          /\ \A k \in Nodes : \A e \in publishers'[k] :
               e \in publishers[k] \/ NotedOK(k, e)'
      BY <1>5, HearStep
    <2> QED
      BY <1>1, <1>3, <2>1, <2>2 DEF RoutingTypeOK
  <1>6. CASE Scan(n)
    <2>1. partners' = partners /\ net' = net
      BY <1>6 DEF Scan
    <2> QED
      BY <1>1, <1>3, <1>6, <2>1, ScanListStep DEF RoutingTypeOK
  <1>7. CASE VehicleLeaves(n)
    <2>1. /\ publishers' = [publishers EXCEPT ![n] = {}]
          /\ onair' = [onair EXCEPT ![n] = {}]
          /\ partners' = [partners EXCEPT ![n] = {}]
          /\ net' = net
      BY <1>7 DEF VehicleLeaves
    <2> QED
      BY <1>1, <1>3, <2>1 DEF RoutingTypeOK
  <1> QED
    BY <1>4, <1>5, <1>6, <1>7 DEF MembershipStep

-----------------------------------------------------------------------------
(* forwardToNetwork.                                                       *)

\* An address that belongs to a station is a cell's or a UE's.
LEMMA KnownAddress ==
  ASSUME RoadInv, NEW a, Known(a)
  PROVE  a \in Addresses /\ a[1] # "none" /\ GetNextHop(a) \in Nat
  <1>1. PICK m \in Nodes : PrimaryAddress(m) = a
    BY DEF Known
  <1>2. pr[m].cell \in Nat /\ pr[m].master \in Nat
    BY DeviceFacts
  <1>3. a \in Addresses /\ a[1] # "none"
    BY <1>1, <1>2 DEF PrimaryAddress, Cell, Ue, Addresses
  <1> QED
    BY <1>1, <1>2, <1>3, PrimaryHop

\* The cell a station belongs to was opened, under that address.
LEMMA ManagerFounded ==
  ASSUME RoadInv, NEW n \in Nodes, pr[n].manager # 0
  PROVE  \E m \in Nodes : /\ ScanOver(m) /\ pr[m].cell = pr[n].manager
                          /\ pr[m].cell # 0
                          /\ PrimaryAddress(m) = Cell(pr[n].manager)
  <1>1. PICK m \in Nodes : Founder(n, m)
    BY DEF RoadInv, CellsInv
  <1>2. pr[m].cell # 0 /\ pr[n].manager = pr[m].cell
    BY <1>1 DEF Founder
  <1>3. pr[m].type = "MASTER" /\ phase[m] \notin {"absent", "scanning"}
    BY <1>2, OpenedIsMaster DEF RoadInv
  <1>4. phase[m] \in Phases
    BY DEF RoadInv, IInv, TypeOK
  <1> QED
    BY <1>2, <1>3, <1>4 DEF ScanOver, Phases, PrimaryAddress

\* An address without a module is that of a station that has left.
LEMMA NoHost ==
  ASSUME NEW a, Known(a), Host(a) = {}
  PROVE  \E m \in Nodes : phase[m] = "gone"
  <1>1. PICK m \in Nodes : ScanOver(m) /\ PrimaryAddress(m) = a
    BY DEF Known
  <1>2. ~OnRoad(m)
    BY <1>1 DEF Host
  <1> QED
    BY <1>1, <1>2 DEF ScanOver, OnRoad

\* The next hop of an address is a cell that was opened.
LEMMA HopFounded ==
  ASSUME RoadInv, NEW a, Known(a), GetNextHop(a) # 0
  PROVE  \E m \in Nodes : pr[m].cell = GetNextHop(a)
  <1>1. PICK k \in Nodes : PrimaryAddress(k) = a
    BY DEF Known
  <1>2. GetNextHop(a) = pr[k].manager
    BY <1>1, PrimaryHopManager
  <1> QED
    BY <1>2, ManagerFounded

\* The three outcomes of clusterMatch for an attached destination: the own cell
\* as its master, the own cell as a member, another cell.
LEMMA RouteOf ==
  ASSUME RoadInv, NEW n \in Nodes, NEW dst, Known(dst), GetNextHop(dst) # 0
  PROVE  /\ HasRoute(n, dst) <=> GetNextHop(dst) = pr[n].manager
         /\ GetNextHop(dst) = pr[n].manager =>
              NextHopOf(n, dst) =
                IF pr[n].type = "MASTER" THEN dst ELSE Cell(pr[n].manager)
  <1>1. /\ pr[n].type \in {"MASTER", "MEMBER"} /\ gw[n].manager = 0
        /\ dst[1] # "none"
    BY DeviceFacts, KnownAddress
  <1>2. CASE GetNextHop(dst) = pr[n].manager
    <2>1. ClusterMatch(n, GetNextHop(dst)) = pr[n].type
      BY <1>2 DEF ClusterMatch
    <2>2. CASE pr[n].type = "MASTER"
      <3>1. NextHopOf(n, dst) = dst
        BY <2>1, <2>2 DEF NextHopOf
      <3> QED
        BY <1>1, <1>2, <2>2, <3>1 DEF HasRoute
    <2>3. CASE pr[n].type = "MEMBER"
      <3>1. NextHopOf(n, dst) = Cell(pr[n].manager)
        BY <2>1, <2>3 DEF NextHopOf
      <3>2. Cell(pr[n].manager)[1] # "none"
        BY DEF Cell
      <3> QED
        BY <1>2, <2>3, <3>1, <3>2 DEF HasRoute
    <2> QED
      BY <1>1, <2>2, <2>3
  <1>3. CASE GetNextHop(dst) # pr[n].manager
    <2>1. ClusterMatch(n, GetNextHop(dst)) = "UNKNOWN"
      BY <1>1, <1>3 DEF ClusterMatch
    <2>2. NextHopOf(n, dst) = <<"none", 0>>
      BY <2>1 DEF NextHopOf
    <2> QED
      BY <1>3, <2>2 DEF HasRoute
  <1> QED
    BY <1>2, <1>3

\* What a packet is when station n hands it to forwardToNetwork.
Sendable(n, p) ==
  /\ p \in [kind : {"sub", "pub", "man", "report"}, dst : Addresses,
            load : SUBSET Addresses, at : Addresses, by : Nodes \union Nat,
            hops : {0, 1}]
  /\ Known(p.dst) /\ GetNextHop(p.dst) # 0
  /\ p.hops = 1 => /\ pr[n].type = "MASTER"
                   /\ GetNextHop(p.dst) = pr[n].manager
  /\ \A a \in p.load :
       /\ Known(a)
       /\ GetNextHop(a) = GetNextHop(p.dst) \/ a = PrimaryAddress(n)

\* A failure of forwardToNetwork is what it seems to be.
Explained(why) ==
  /\ why \in {"packet without a route", "report without a route",
              "hop has no module"}
  /\ why = "hop has no module" => \E m \in Nodes : phase[m] = "gone"
  /\ why # "hop has no module" =>
       \E k, m \in Nodes :
         pr[k].cell # 0 /\ pr[m].cell # 0 /\ pr[k].cell # pr[m].cell

\* A packet with a route is right on its way.
LEMMA RoutedOK ==
  ASSUME RoadInv, NEW n \in Nodes, phase[n] = "settled", NEW p,
         Sendable(n, p), HasRoute(n, p.dst), Transmits(n)
  PROVE  Routed(n, p) \in Packets /\ PacketOK(Routed(n, p))
  <1> DEFINE c == GetNextHop(p.dst)
             q == Routed(n, p)
             hop == NextHopOf(n, p.dst)
  <1>1. /\ c # 0 /\ Known(p.dst) /\ c = pr[n].manager /\ ScanOver(n)
        /\ hop = IF pr[n].type = "MASTER" THEN p.dst ELSE Cell(c)
    BY RouteOf DEF Sendable, ScanOver
  <1>2. c \in Nat /\ p.dst \in Addresses
    BY <1>1, KnownAddress
  <1>3. hop \in Addresses
    BY <1>1, <1>2 DEF Cell, Addresses
  <1>4. Linked(n)
    BY DEF Transmits, Linked, RoadInv, HeldInv
  <1>5. /\ p.hops \in {0, 1}
        /\ p.hops = 1 => hop = p.dst
        /\ hop \in {p.dst, Cell(c)}
    BY <1>1 DEF Sendable
  <1> HIDE DEF c, hop
  <1>6. /\ q \in Packets
        /\ q.dst = p.dst /\ q.load = p.load /\ q.at = hop /\ q.by = n
        /\ q.hops = p.hops + 1
    <2> DEFINE h == p.hops + 1
    <2>1. h \in Nat
      BY <1>5
    <2>2. q = [p EXCEPT !.at = hop, !.by = n, !.hops = h]
      BY DEF Routed, hop
    <2> HIDE DEF h, q
    <2>3. /\ q \in Packets
          /\ q.dst = p.dst /\ q.load = p.load /\ q.at = hop /\ q.by = n
          /\ q.hops = h
      BY <1>3, <2>1, <2>2 DEF Sendable, Packets
    <2> QED
      BY <2>3 DEF h
  <1> HIDE DEF q
  <1>7. \/ q.hops = 1 /\ q.at \in {q.dst, Cell(c)}
        \/ q.hops = 2 /\ q.at = q.dst
    BY <1>5, <1>6
  <1>8. \A a \in q.load : Known(a) /\ (GetNextHop(a) = c \/ a = PrimaryAddress(n))
    BY <1>6 DEF Sendable, c
  <1> QED
    BY <1>1, <1>4, <1>6, <1>7, <1>8 DEF PacketOK, c, q

\* The outcomes of forwardToNetwork.
Forwarded ==
  \/ /\ UNCHANGED vars
     /\ \A p \in net' : p \in net \/ (p \in Packets /\ PacketOK(p))
  \/ /\ net' = net
     /\ \E why : Explained(why) /\ Abort(why)

\* Packets that may be sent are routed, or the failure is explained.
LEMMA ForwardOutcome ==
  ASSUME RoadInv, NEW n \in Nodes, phase[n] = "settled", NEW ps, NEW old,
         \A p \in ps : Sendable(n, p), ForwardToNetwork(n, ps, old)
  PROVE  Forwarded
  <1>0. pr[n].manager # 0
    BY DeviceFacts
  <1>1. CASE /\ net' = net
             /\ \E p \in ps : ~HasRoute(n, p.dst) /\ Abort(UsedAfterDelete(p))
    <2>1. PICK p \in ps : ~HasRoute(n, p.dst) /\ Abort(UsedAfterDelete(p))
      BY <1>1
    <2>2. /\ Known(p.dst) /\ GetNextHop(p.dst) # 0
          /\ GetNextHop(p.dst) # pr[n].manager
      BY <2>1, RouteOf DEF Sendable
    <2>3. p.hops = 0
      BY <2>2 DEF Sendable
    <2>4. UsedAfterDelete(p) \in
            {"packet without a route", "report without a route"}
      BY <2>3 DEF UsedAfterDelete
    <2>5. PICK m \in Nodes : pr[m].cell = GetNextHop(p.dst)
      BY <2>2, HopFounded
    <2>6. PICK k \in Nodes : pr[k].cell = pr[n].manager
      BY <1>0, ManagerFounded
    <2>7. Explained(UsedAfterDelete(p))
      BY <1>0, <2>2, <2>4, <2>5, <2>6 DEF Explained
    <2> QED
      BY <1>1, <2>1, <2>7 DEF Forwarded
  <1>2. CASE /\ \E p \in ps :
                  HasRoute(n, p.dst) /\ Host(NextHopOf(n, p.dst)) = {}
             /\ Abort("hop has no module")
             /\ net' = net
    <2>1. PICK p \in ps : HasRoute(n, p.dst) /\ Host(NextHopOf(n, p.dst)) = {}
      BY <1>2
    <2>2. /\ Known(p.dst)
          /\ NextHopOf(n, p.dst) =
               IF pr[n].type = "MASTER" THEN p.dst ELSE Cell(pr[n].manager)
      BY <2>1, RouteOf DEF Sendable
    <2>3. Known(Cell(pr[n].manager))
      BY <1>0, ManagerFounded DEF Known
    <2>4. Known(NextHopOf(n, p.dst))
      BY <2>2, <2>3
    <2>5. \E m \in Nodes : phase[m] = "gone"
      BY <2>1, <2>4, NoHost
    <2>6. Explained("hop has no module")
      BY <2>5 DEF Explained
    <2> QED
      BY <1>2, <2>6 DEF Forwarded
  <1>3. CASE /\ \A p \in ps :
                  HasRoute(n, p.dst) /\ Host(NextHopOf(n, p.dst)) # {}
             /\ net' = (net \ old) \union
                   (IF Transmits(n) THEN {Routed(n, p) : p \in ps} ELSE {})
             /\ UNCHANGED vars
    <2>1. ASSUME NEW q \in net', q \notin net
          PROVE  q \in Packets /\ PacketOK(q)
      <3>1. Transmits(n) /\ \E p \in ps : q = Routed(n, p)
        BY <1>3, <2>1
      <3> QED
        BY <1>3, <3>1, RoutedOK
    <2> QED
      BY <1>3, <2>1 DEF Forwarded
  <1> QED
    BY <1>1, <1>2, <1>3 DEF ForwardToNetwork

\* A failure that is not membership's own assertion leaves the stations alone.
LEMMA RoadAbort ==
  ASSUME RoadInv, NEW why \in Failures, why # "handover to the current master",
         Abort(why)
  PROVE  RoadInv' /\ pr' = pr /\ phase' = phase
  <1>1. /\ phase' = phase /\ pr' = pr /\ gw' = gw /\ bcasts' = bcasts
        /\ enb' = enb /\ convoys' = convoys /\ clusters' = clusters
        /\ failure' = why
    BY DEF Abort
  <1>2. IInv'
    BY AbortStep DEF RoadInv
  <1>3. DevicesInv' /\ RegistryExact' /\ HeldInv'
    BY <1>1 DEF RoadInv, DevicesInv, RegistryExact, Masters, IsMaster, OnRoad,
                HeldInv
  <1>4. CellsInv'
    BY <1>1, CellsFrame DEF RoadInv
  <1> QED
    BY <1>1, <1>2, <1>3, <1>4 DEF RoadInv, HandoverChangesMaster

\* A step that leaves the stations alone.
LEMMA RoadUnchanged ==
  ASSUME RoadInv, UNCHANGED vars
  PROVE  RoadInv' /\ pr' = pr /\ phase' = phase /\ failure' = failure
  <1>1. Abort(failure) /\ failure' = failure
    BY DEF vars, Abort
  <1>2. failure \in Failures /\ failure # "handover to the current master"
    BY DEF RoadInv, IInv, TypeOK, HandoverChangesMaster
  <1> QED
    BY <1>1, <1>2, RoadAbort

\* What keeps the invariant in a step that leaves the stations alone.
LEMMA RoutingFrame ==
  ASSUME RoutingInv, UNCHANGED vars,
         publishers' \in [Nodes -> SUBSET Entries],
         onair' \in [Nodes -> SUBSET Entries],
         \A k \in Nodes : \A e \in publishers'[k] :
           e \in publishers[k] \/ NotedOK(k, e),
         \A k \in Nodes : \A e \in onair'[k] :
           e \in onair[k] \/ e \in publishers'[k],
         partners' \in [Nodes -> SUBSET Addresses],
         \A k \in Nodes : \A a \in partners'[k] :
           a \in partners[k] \/ StoredOK(k, a),
         \A p \in net' : p \in net \/ (p \in Packets /\ PacketOK(p))
  PROVE  RoutingInv'
  <1>1. /\ RoadInv /\ RoutingTypeOK /\ ListsInv /\ StoresInv /\ PacketsInv
        /\ FailuresInv
    BY DEF RoutingInv
  <1>2. RoadInv' /\ pr' = pr /\ phase' = phase /\ failure' = failure
    BY <1>1, RoadUnchanged
  <1>3. AllSteady /\ Remain
    BY <1>2, SameStations
  <1>4. RoutingTypeOK'
    BY <1>1 DEF RoutingTypeOK
  <1>5. ListsInv'
    <2>1. \A k \in Nodes : \A e \in publishers'[k] :
            e \in publishers[k] \/ NotedOK(k, e)'
      BY <1>2, SameStations
    <2> QED
      BY <1>1, <1>3, <2>1, ListsFrame
  <1>6. StoresInv'
    <2>1. \A k \in Nodes : \A a \in partners'[k] :
            a \in partners[k] \/ StoredOK(k, a)'
      BY <1>2, SameStations
    <2> QED
      BY <1>1, <1>3, <2>1, StoresFrame
  <1>7. PacketsInv'
    <2>1. \A p \in net' : p \in net \/ PacketOK(p)'
      BY <1>2, SameStations
    <2> QED
      BY <1>1, <1>3, <2>1, PacketsFrame
  <1>8. FailuresInv'
    BY <1>1, <1>2 DEF FailuresInv, RelayHasRoute, MissingHopNeedsDeparture,
                      OneClusterRoutes
  <1> QED
    BY <1>2, <1>4, <1>5, <1>6, <1>7, <1>8 DEF RoutingInv

\* An explained failure keeps the invariant.
LEMMA ExplainedAbort ==
  ASSUME RoutingInv, NEW why, Explained(why), Abort(why), UNCHANGED routing
  PROVE  RoutingInv'
  <1>1. /\ RoadInv /\ RoutingTypeOK /\ ListsInv /\ StoresInv /\ PacketsInv
    BY DEF RoutingInv
  <1>2. why \in Failures /\ why # "handover to the current master"
    BY DEF Explained, Failures
  <1>3. RoadInv' /\ pr' = pr /\ phase' = phase
    BY <1>1, <1>2, RoadAbort
  <1>4. AllSteady /\ Remain
    BY <1>3, SameStations
  <1>5. RoutingTypeOK'
    BY <1>1 DEF RoutingTypeOK, routing
  <1>6. ListsInv'
    BY <1>1, <1>4, ListsFrame DEF routing
  <1>7. StoresInv' /\ PacketsInv'
    BY <1>1, <1>4, StoresFrame, PacketsFrame DEF routing
  <1>8. failure' = why
    BY DEF Abort
  <1>9. FailuresInv'
    BY <1>3, <1>8 DEF Explained, FailuresInv, RelayHasRoute,
                      MissingHopNeedsDeparture, OneClusterRoutes
  <1> QED
    BY <1>3, <1>5, <1>6, <1>7, <1>9 DEF RoutingInv

\* Forwarding keeps the invariant.
LEMMA ForwardKeeps ==
  ASSUME RoutingInv, Forwarded, UNCHANGED <<publishers, onair, partners>>
  PROVE  RoutingInv'
  <1>1. CASE UNCHANGED vars /\ \A p \in net' :
                p \in net \/ (p \in Packets /\ PacketOK(p))
    BY <1>1, RoutingFrame DEF RoutingInv, RoutingTypeOK
  <1>2. CASE net' = net /\ \E why : Explained(why) /\ Abort(why)
    BY <1>2, ExplainedAbort DEF routing
  <1> QED
    BY <1>1, <1>2 DEF Forwarded

-----------------------------------------------------------------------------
(* The steps of routing.                                                   *)

\* A packet from an application of station n, for a station of any cluster.
LEMMA NewPacketSendable ==
  ASSUME RoadInv, NEW n \in Nodes, NEW kind \in {"sub", "pub", "man", "report"},
         NEW dst, Known(dst), GetNextHop(dst) # 0,
         NEW load, \A a \in load : /\ Known(a)
                                   /\ \/ GetNextHop(a) = GetNextHop(dst)
                                      \/ a = PrimaryAddress(n)
  PROVE  Sendable(n, NewPacket(kind, dst, load))
  <1> DEFINE p == NewPacket(kind, dst, load)
  <1>1. dst \in Addresses /\ \A a \in load : a \in Addresses
    BY KnownAddress
  <1>2. dst[2] \in Nodes \union Nat
    BY <1>1 DEF Addresses
  <1>3. p = [kind |-> kind, dst |-> dst, load |-> load, at |-> dst,
             by |-> dst[2], hops |-> 0]
    BY DEF NewPacket
  <1>4. p \in [kind : {"sub", "pub", "man", "report"}, dst : Addresses,
               load : SUBSET Addresses, at : Addresses, by : Nodes \union Nat,
               hops : {0, 1}]
    BY <1>1, <1>2, <1>3
  <1>5. p.dst = dst /\ p.load = load /\ p.hops = 0
    BY <1>3
  <1> HIDE DEF p
  <1>6. Sendable(n, p)
    BY <1>4, <1>5 DEF Sendable
  <1> QED
    BY <1>6 DEF p

\* What another station's RSU entry says can be sent to.
LEMMA ListedReachable ==
  ASSUME RoutingInv, NEW n \in Nodes, n \notin Rsus, NEW e \in publishers[n]
  PROVE  Known(e.id) /\ GetNextHop(e.id) # 0
  <1>1. e \in Entries /\ ListedOK(n, e)
    BY DEF RoutingInv, RoutingTypeOK, ListsInv
  <1>2. e.name \in Nodes /\ e.name # n
    BY <1>1, RsusAssumption DEF Entries
  <1> QED
    BY <1>1, <1>2 DEF ListedOK, Known, ScanOver

\* Sending from an application keeps the invariant.
LEMMA OriginateKeeps ==
  ASSUME RoutingInv, NEW n \in Nodes, NEW ps, Originate(n, ps),
         phase[n] = "settled" => \A p \in ps : Sendable(n, p)
  PROVE  RoutingInv'
  <1>1. /\ phase[n] = "settled" /\ ForwardToNetwork(n, ps, {})
        /\ UNCHANGED <<publishers, onair, partners>>
    BY DEF Originate
  <1>2. Forwarded
    BY <1>1, ForwardOutcome DEF RoutingInv
  <1> QED
    BY <1>1, <1>2, ForwardKeeps

\* The address of a settled station is known.
LEMMA OwnAddressKnown ==
  ASSUME NEW n \in Nodes, phase[n] = "settled"
  PROVE  Known(PrimaryAddress(n))
  BY DEF Known, ScanOver

\* A subscription carries the address of the vehicle that sends it.
LEMMA SubscriberKeeps ==
  ASSUME RoutingInv, NEW v \in Nodes, MsgHandlerSubscriber(v)
  PROVE  RoutingInv'
  <1>1. PICK targets \in {InCluster(v)} \union SUBSET SameDirection(v) :
          Originate(v, {NewPacket("sub", e.id, {PrimaryAddress(v)}) :
                          e \in targets})
    BY DEF MsgHandlerSubscriber
  <1>2. v \notin Rsus /\ targets \subseteq publishers[v]
    BY <1>1 DEF MsgHandlerSubscriber, InCluster, SameDirection
  <1>3. ASSUME phase[v] = "settled", NEW e \in targets
        PROVE  Sendable(v, NewPacket("sub", e.id, {PrimaryAddress(v)}))
    <2>1. Known(e.id) /\ GetNextHop(e.id) # 0
      BY <1>2, ListedReachable
    <2>2. RoadInv /\ Known(PrimaryAddress(v))
      BY <1>3, OwnAddressKnown DEF RoutingInv
    <2>3. \A a \in {PrimaryAddress(v)} :
            Known(a) /\ (GetNextHop(a) = GetNextHop(e.id) \/ a = PrimaryAddress(v))
      BY <2>2
    <2> QED
      BY <2>1, <2>2, <2>3, NewPacketSendable
  <1> QED
    BY <1>1, <1>3, OriginateKeeps

\* A publication goes to the subscribers and names the vehicles of the twin.
LEMMA PublisherKeeps ==
  ASSUME RoutingInv, NEW r \in Nodes, MsgHandlerPublisher(r)
  PROVE  RoutingInv'
  <1>1. PICK subs \in SUBSET partners[r] :
          Originate(r, {NewPacket("pub", a, partners[r]) : a \in subs})
    BY DEF MsgHandlerPublisher
  <1>2. ASSUME NEW a \in subs
        PROVE  Sendable(r, NewPacket("pub", a, partners[r]))
    <2>1. RoadInv /\ \A x \in partners[r] : StoredOK(r, x)
      BY DEF RoutingInv, StoresInv
    <2>2. Known(a) /\ GetNextHop(a) # 0
      BY <2>1 DEF StoredOK
    <2>3. \A x \in partners[r] : Known(x) /\ GetNextHop(x) = GetNextHop(a)
      BY <2>1 DEF StoredOK
    <2> QED
      BY <2>1, <2>2, <2>3, NewPacketSendable
  <1> QED
    BY <1>1, <1>2, OriginateKeeps

\* A maneuver message goes to a vehicle of the twin.
LEMMA ManeuverKeeps ==
  ASSUME RoutingInv, NEW v \in Nodes, NEW a \in partners[v],
         MsgHandlerManeuver(v, a)
  PROVE  RoutingInv'
  <1>1. Originate(v, {NewPacket("man", a, {})})
    BY DEF MsgHandlerManeuver
  <1>2. RoadInv /\ StoredOK(v, a)
    BY DEF RoutingInv, StoresInv
  <1>3. Known(a) /\ GetNextHop(a) # 0
    BY <1>2 DEF StoredOK
  <1>4. Sendable(v, NewPacket("man", a, {}))
    BY <1>2, <1>3, NewPacketSendable
  <1> QED
    BY <1>1, <1>4, OriginateKeeps

\* A report goes to listed RSUs.
LEMMA MemberReportKeeps ==
  ASSUME RoutingInv, NEW v \in Nodes, MsgHandlerMemberReport(v)
  PROVE  RoutingInv'
  <1> DEFINE targets == IF InCluster(v) # {} THEN InCluster(v)
                                             ELSE SameDirection(v)
  <1>1. /\ v \notin Rsus /\ targets \subseteq publishers[v]
        /\ Originate(v, {NewPacket("report", e.id, {}) : e \in targets})
    BY DEF MsgHandlerMemberReport, InCluster, SameDirection
  <1> HIDE DEF targets
  <1>2. ASSUME NEW e \in targets
        PROVE  Sendable(v, NewPacket("report", e.id, {}))
    <2>1. Known(e.id) /\ GetNextHop(e.id) # 0 /\ RoadInv
      BY <1>1, ListedReachable DEF RoutingInv
    <2> QED
      BY <2>1, NewPacketSendable
  <1> QED
    BY <1>1, <1>2, OriginateKeeps

\* When a packet arrives, every address it carries is of the destination's cell.
LEMMA ArrivedLoad ==
  ASSUME RoutingInv, NEW n \in Nodes, NEW p \in net, Arrived(n, p)
  PROVE  \A a \in p.load : Known(a) /\ GetNextHop(a) = GetNextHop(p.dst)
  <1>1. PacketOK(p) /\ p \in Packets /\ RoadInv
    BY DEF RoutingInv, PacketsInv, RoutingTypeOK
  <1>2. p.by \in Nodes /\ ~pr[p.by].held
    BY <1>1 DEF Packets, Arrived
  <1>3. GetNextHop(PrimaryAddress(p.by)) = pr[p.by].manager
    BY <1>1, <1>2, PrimaryHopManager DEF PacketOK
  <1> QED
    BY <1>1, <1>3 DEF PacketOK

\* A packet that has arrived is taken in.
LEMMA DeliverKeeps ==
  ASSUME RoutingInv, NEW n \in Nodes, NEW p \in net, Deliver(n, p)
  PROVE  RoutingInv'
  <1>1. /\ Arrived(n, p) /\ p.dst = PrimaryAddress(n) /\ UNCHANGED vars
        /\ publishers' = publishers /\ onair' = onair /\ net' = net \ {p}
        /\ \/ partners' = partners
           \/ partners' =
                [partners EXCEPT ![n] = partners[n] \union (p.load \ {p.dst})]
    BY DEF Deliver
  <1>2. /\ PacketOK(p) /\ p \in Packets /\ RoadInv /\ RoutingTypeOK
    BY DEF RoutingInv, PacketsInv, RoutingTypeOK
  <1>3. GetNextHop(p.dst) # 0 /\ GetNextHop(p.dst) = pr[n].manager
    BY <1>1, <1>2, PrimaryHopManager DEF PacketOK
  <1>4. p.load \in SUBSET Addresses /\ \A a \in p.load : StoredOK(n, a)
    BY <1>1, <1>2, <1>3, ArrivedLoad DEF StoredOK, Packets
  <1>5. /\ partners' \in [Nodes -> SUBSET Addresses]
        /\ \A k \in Nodes : \A a \in partners'[k] :
             a \in partners[k] \/ StoredOK(k, a)
    BY <1>1, <1>2, <1>4 DEF RoutingTypeOK
  <1> QED
    BY <1>1, <1>2, <1>5, RoutingFrame DEF RoutingTypeOK

\* A packet is passed on by the master of its destination's cell only, which
\* has a route for it.
LEMMA RelayKeeps ==
  ASSUME RoutingInv, NEW n \in Nodes, NEW p \in net, Relay(n, p)
  PROVE  RoutingInv'
  <1>1. /\ Arrived(n, p) /\ p.dst # PrimaryAddress(n)
        /\ ForwardToNetwork(n, {p}, {p})
        /\ UNCHANGED <<publishers, onair, partners>>
    BY DEF Relay
  <1>2. PacketOK(p) /\ p \in Packets /\ RoadInv
    BY DEF RoutingInv, PacketsInv, RoutingTypeOK
  <1> DEFINE c == GetNextHop(p.dst)
  <1>3. OnRoad(n) /\ PrimaryAddress(n) = p.at
    BY <1>1 DEF Arrived, Host
  <1>4. p.hops = 1 /\ p.at = Cell(c) /\ c # 0 /\ Known(p.dst)
    BY <1>1, <1>2, <1>3 DEF PacketOK
  <1>5. pr[n].type = "MASTER" /\ pr[n].cell = c
    BY <1>3, <1>4 DEF PrimaryAddress, Cell, Ue
  <1>6. pr[n].manager = c /\ phase[n] = "settled"
    BY <1>2, <1>3, <1>4, <1>5, DeviceFacts DEF ScanOver, OnRoad
  <1>7. \A a \in p.load : Known(a) /\ GetNextHop(a) = c
    BY <1>1, ArrivedLoad
  <1>8. p \in [kind : {"sub", "pub", "man", "report"}, dst : Addresses,
               load : SUBSET Addresses, at : Addresses, by : Nodes \union Nat,
               hops : {0, 1}]
    BY <1>2, <1>4 DEF Packets
  <1>9. Sendable(n, p)
    BY <1>4, <1>5, <1>6, <1>7, <1>8 DEF Sendable
  <1>10. Forwarded
    BY <1>1, <1>2, <1>6, <1>9, ForwardOutcome
  <1> QED
    BY <1>1, <1>10, ForwardKeeps

\* The steps that only touch a list or a store, and the loss of a packet.
LEMMA ListStepKeeps ==
  ASSUME RoutingInv, NEW n \in Nodes,
         \/ PublisherUpdate(n)
         \/ \E m \in Nodes : DeliverStatus(n, m)
         \/ \E p \in net : ReportToBackend(n, p) \/ Lose(p)
  PROVE  RoutingInv'
  <1>1. RoadInv /\ RoutingTypeOK /\ ListsInv
    BY DEF RoutingInv
  <1>2. CASE PublisherUpdate(n)
    <2>1. /\ phase[n] = "settled" /\ UpdatePublishers(n, pr[n]) /\ UNCHANGED vars
          /\ partners' = partners /\ net' = net
      BY <1>2 DEF PublisherUpdate
    <2>2. RoadInv' /\ pr' = pr /\ phase' = phase
      BY <1>1, <2>1, RoadUnchanged
    <2>3. /\ publishers' \in [Nodes -> SUBSET Entries]
          /\ onair' \in [Nodes -> SUBSET Entries]
          /\ \A k \in Nodes : \A e \in publishers'[k] :
               e \in publishers[k] \/ NotedOK(k, e)'
          /\ \A k \in Nodes : \A e \in onair'[k] :
               e \in onair[k] \/ e \in publishers'[k]
      BY <1>1, <2>1, <2>2, UpdateOK
    <2>4. \A k, e : NotedOK(k, e)' => NotedOK(k, e)
      BY <2>2 DEF NotedOK, ListedOK, PrimaryAddress, GetNextHop
    <2> QED
      BY <1>1, <2>1, <2>3, <2>4, RoutingFrame DEF RoutingTypeOK
  <1>3. CASE \E m \in Nodes : DeliverStatus(n, m)
    <2>1. PICK m \in Nodes : DeliverStatus(n, m)
      BY <1>3
    <2>2. /\ TimerDue(pr[n]) /\ IsMaster(m) /\ pr[m].cell = pr[n].master
          /\ publishers' = [publishers EXCEPT ![m] = Merged(m, onair[n])]
          /\ UNCHANGED vars
          /\ onair' = onair /\ partners' = partners
          /\ net' = net
      BY <2>1 DEF DeliverStatus
    <2> DEFINE list == Merged(m, onair[n])
    <2>3. onair[n] \in SUBSET Entries
      BY <1>1 DEF RoutingTypeOK
    <2>4. list \in SUBSET Entries /\ \A e \in list : NotedOK(m, e)
      <3>1. pr[n].master # 0
        BY <1>1, <2>2, DeviceFacts DEF IsMaster
      <3> QED
        BY <1>1, <2>2, <2>3, <3>1, StatusListOK, MergedOK
    <2> HIDE DEF list
    <2>5. /\ publishers' \in [Nodes -> SUBSET Entries]
          /\ \A k \in Nodes : \A e \in publishers'[k] :
               e \in publishers[k] \/ NotedOK(k, e)
      BY <1>1, <2>2, <2>4 DEF RoutingTypeOK, list
    <2> QED
      BY <1>1, <2>2, <2>5, RoutingFrame DEF RoutingTypeOK
  <1>4. CASE \E p \in net : ReportToBackend(n, p) \/ Lose(p)
    <2>1. /\ UNCHANGED vars /\ publishers' = publishers /\ onair' = onair
          /\ partners' = partners /\ net' \subseteq net
      BY <1>4 DEF ReportToBackend, Lose
    <2> QED
      BY <1>1, <2>1, RoutingFrame DEF RoutingTypeOK
  <1> QED
    BY <1>2, <1>3, <1>4

-----------------------------------------------------------------------------
(* Theorems.                                                               *)

\* The invariant holds on the empty road.
LEMMA InitRoutingInv == RoutingInit => RoutingInv
  <1> SUFFICES ASSUME RoutingInit PROVE RoutingInv
    OBVIOUS
  <1>1. ScanInv /\ Init
    BY InitScanInv DEF RoutingInit
  <1>2. HeldInv
    <2>1. \A n \in Nodes : Fresh(pr[n])
      BY <1>1 DEF Init, Fresh
    <2>2. ~NewUe("MEMBER", 0).held /\ ~(NewUe("MEMBER", 0).triggers > 0)
      BY DEF NewUe
    <2> QED
      BY <2>1, <2>2 DEF Fresh, HeldInv
  <1>3. RoadInv
    BY <1>1, <1>2 DEF ScanInv, RoadInv
  <1>4. failure \notin RoutingFailures
    BY <1>1 DEF Init, RoutingFailures
  <1>5. FailuresInv
    BY <1>4 DEF RoutingFailures, FailuresInv, RelayHasRoute,
                MissingHopNeedsDeparture, OneClusterRoutes
  <1> QED
    BY <1>3, <1>5 DEF RoutingInit, RoutingInv, RoutingTypeOK, ListsInv,
                      StoresInv, PacketsInv

\* Every step keeps it.
LEMMA NextRoutingInv == RoutingInv /\ [RoutingNext]_rvars => RoutingInv'
  <1> SUFFICES ASSUME RoutingInv, [RoutingNext]_rvars PROVE RoutingInv'
    OBVIOUS
  <1>1. CASE UNCHANGED rvars
    BY <1>1, RoutingFrame DEF rvars, routing, RoutingInv, RoutingTypeOK
  <1>2. ASSUME NEW n \in Nodes, MembershipStep(n)
        PROVE  RoutingInv'
    BY <1>2, MembershipKeeps
  <1>3. ASSUME NEW n \in Nodes, RoutingStep(n)
        PROVE  RoutingInv'
    BY <1>3, ListStepKeeps, SubscriberKeeps, PublisherKeeps, ManeuverKeeps,
       MemberReportKeeps, DeliverKeeps, RelayKeeps DEF RoutingStep
  <1>4. ASSUME NEW p \in net, Lose(p)
        PROVE  RoutingInv'
    <2>1. p.by \in Nodes
      BY DEF RoutingInv, RoutingTypeOK, Packets
    <2> QED
      BY <1>4, <2>1, ListStepKeeps
  <1> QED
    BY <1>1, <1>2, <1>3, <1>4 DEF RoutingNext

\* The inductive invariant of routing, for any stations, RSUs, broadcasts,
\* packets, losses and departures.
THEOREM RoutingInvariance == RoutingSpec => []RoutingInv
  BY InitRoutingInv, NextRoutingInv, PTL DEF RoutingSpec

\* Lists, stores and packets keep their types, and only RSUs are ever listed.
THEOREM RoutingTypes == RoutingSpec => []RoutingTypeOK
  <1>1. RoutingInv => RoutingTypeOK
    BY DEF RoutingInv
  <1> QED
    BY <1>1, RoutingInvariance, PTL

\* However far an entry was passed on since, the address in it is the one its
\* RSU has now.
THEOREM EntriesStayCurrent == RoutingSpec => []PublisherEntriesCurrent
  <1>1. RoutingInv => PublisherEntriesCurrent
    BY DEF RoutingInv, ListsInv, ListedOK, PublisherEntriesCurrent
  <1> QED
    BY <1>1, RoutingInvariance, PTL

\* The cluster noted for another station's RSU is not 0 and never goes stale.
THEOREM KnownPublishersStayAttached == RoutingSpec => []KnownPublisherAttached
  <1>1. RoutingInv => KnownPublisherAttached
    BY DEF RoutingInv, ListsInv, ListedOK, KnownPublisherAttached
  <1> QED
    BY <1>1, RoutingInvariance, PTL

\* A publication and a maneuver message always have a route when they are sent:
\* everybody in a store is attached in the cluster of the station.
THEOREM StoresStayInCluster == RoutingSpec => []SubscribersInCluster
  <1>1. RoutingInv => SubscribersInCluster
    BY DEF RoutingInv, StoresInv, StoredOK, SubscribersInCluster
  <1> QED
    BY <1>1, RoutingInvariance, PTL

\* forwardToNetwork ends: there is no third hop, for no bound on hops.
THEOREM ForwardingEnds == RoutingSpec => []TwoHops
  <1>1. RoutingInv => TwoHops
    BY DEF RoutingInv, PacketsInv, PacketOK, TwoHops
  <1> QED
    BY <1>1, RoutingInvariance, PTL

\* The master that a packet reaches has a route for it, whatever happened while
\* the packet was under way.
THEOREM RelaysHaveRoutes == RoutingSpec => []RelayHasRoute
  <1>1. RoutingInv => RelayHasRoute
    BY DEF RoutingInv, FailuresInv
  <1> QED
    BY <1>1, RoutingInvariance, PTL

\* A packet is sent to a hop without a module only after a departure.
THEOREM MissingHopsExplained == RoutingSpec => []MissingHopNeedsDeparture
  <1>1. RoutingInv => MissingHopNeedsDeparture
    BY DEF RoutingInv, FailuresInv
  <1> QED
    BY <1>1, RoutingInvariance, PTL

\* A packet is without a route only where there are two clusters.
THEOREM OneClusterSuffices == RoutingSpec => []OneClusterRoutes
  <1>1. RoutingInv => OneClusterRoutes
    BY DEF RoutingInv, FailuresInv
  <1> QED
    BY <1>1, RoutingInvariance, PTL

\* Traffic leaves convoys alone: with lists, packets and the failures of routing
\* the stations still do what Convoys says.
THEOREM RoutingRefinement == RoutingSpec => ImplementsConvoys
  <1>1. RoutingInit => Abstract!Init
    BY RefinesInit DEF RoutingInit
  <1>2. RoutingInv /\ [RoutingNext]_rvars
          => [Abstract!Next]_(Abstract!absVars)
    <2> SUFFICES ASSUME RoutingInv, [RoutingNext]_rvars
                 PROVE  [Abstract!Next]_(Abstract!absVars)
      OBVIOUS
    <2>1. CASE pr' = pr /\ phase' = phase
      BY <2>1, Stutters DEF StatusOf
    <2>2. CASE \E n \in Nodes : MembershipStep(n)
      <3>1. PICK n \in Nodes : MembershipStep(n)
        BY <2>2
      <3>2. StationStep(n) /\ Running
        BY <3>1 DEF MembershipStep, HearBroadcast, Scan, VehicleLeaves,
             StationStep, Initialize, ReceiveBroadcast,
             HandleBroadcastScanEvent, ScanJoinsCluster, ScanCreatesCluster,
             ScanCreatesConvoy, ScanDone, Leave, TriggerHandover, DoHandover,
             UnicastStatus
      <3>3. ScanInv /\ Next
        BY <3>2, RoadIsScan DEF RoutingInv, Next
      <3> QED
        BY <3>3, RefinesNext, NoOrders
    <2>3. ASSUME NEW n \in Nodes, RoutingStep(n)
          PROVE  pr' = pr /\ phase' = phase
      BY <2>3 DEF RoutingStep, PublisherUpdate, DeliverStatus,
           MsgHandlerSubscriber, MsgHandlerPublisher, MsgHandlerManeuver,
           MsgHandlerMemberReport, ReportToBackend, Deliver, Relay,
           Originate, ForwardToNetwork, Abort, vars
    <2>4. CASE UNCHANGED rvars \/ \E p \in net : Lose(p)
      BY <2>1, <2>4 DEF rvars, vars, Lose
    <2> QED
      BY <2>1, <2>2, <2>3, <2>4 DEF RoutingNext
  <1> QED
    BY <1>1, <1>2, RoutingInvariance, PTL
       DEF RoutingSpec, ImplementsConvoys, Abstract!Spec
=============================================================================
