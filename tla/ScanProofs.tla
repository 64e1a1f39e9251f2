----------------------------- MODULE ScanProofs -----------------------------
(***************************************************************************)
(* Proofs about Membership when no order is given, for any set of stations *)
(* and any broadcasts: the registry is exact, convoys are of one           *)
(* direction, nothing fails before a departure, and the whole implements   *)
(* Convoys.                                                                *)
(***************************************************************************)
EXTENDS MembershipProofs, MembershipRefinement

Fresh(d) == d = NewUe("MEMBER", 0)

MasterShape(d) == d.cell # 0 /\ d.adv # 0 /\ d = NewMaster(d.cell, d.adv)

\* A member's device has one handover in its life: scheduled, under way, done.
MemberShape(d) ==
  /\ d.type = "MEMBER" /\ d.cell = 0 /\ d.manager # 0 /\ d.convoy # 0
  /\ d.candidate = d.manager
  /\ \/ d.starter /\ d.triggers = 0 /\ d.master = 0
     \/ ~d.starter /\ d.triggers = 1 /\ d.master = 0
     \/ ~d.starter /\ d.triggers = 0 /\ d.master = d.manager

\* The station that opened the cell n belongs to; it may have left.
Founder(n, m) ==
  /\ pr[m].cell # 0
  /\ pr[n].manager = pr[m].cell /\ pr[n].convoy = pr[m].adv
  /\ Direction[n] = Direction[m]

\* A broadcast that was heard names a cell somebody opened.
Genuine(b) ==
  \E m \in Nodes :
    /\ pr[m].cell # 0
    /\ b.cluster = pr[m].cell /\ b.convoy = pr[m].adv
    /\ b.direction = Direction[m]

\* Devices follow the life of their station.
DevicesInv ==
  \A n \in Nodes :
    /\ gw[n] = NewUe("GATEWAY", 0)
    /\ Fresh(pr[n]) \/ MasterShape(pr[n]) \/ MemberShape(pr[n])
    /\ phase[n] \in {"absent", "scanning"} => Fresh(pr[n])
    /\ phase[n] = "settled" => pr[n].manager # 0

\* Who opened which cell, in which convoy and direction, departed ones too.
CellsInv ==
  /\ \A n \in Nodes :
       pr[n].cell # 0 => pr[n].cell < enb /\ pr[n].adv \in convoys
  /\ \A n, m \in Nodes : pr[n].cell # 0 /\ pr[n].cell = pr[m].cell => n = m
  /\ \A n, m \in Nodes :
       pr[n].cell # 0 /\ pr[m].cell # 0 /\ pr[n].adv = pr[m].adv
         => Direction[n] = Direction[m]
  /\ \A n \in Nodes :
       pr[n].manager # 0 => \E m \in Nodes : Founder(n, m)
  /\ \A n \in Nodes : \A b \in bcasts[n] : Genuine(b)

ScanInv ==
  /\ IInv
  /\ DevicesInv
  /\ CellsInv
  /\ RegistryExact
  /\ FailureNeedsDeparture
  /\ HandoverChangesMaster

-----------------------------------------------------------------------------
(* The shapes a primary device can have.                                   *)

\* A device that no scan has used yet.
LEMMA FreshFields ==
  ASSUME NEW d, Fresh(d)
  PROVE  /\ d.type = "MEMBER" /\ d.cell = 0 /\ d.adv = 0 /\ d.manager = 0
         /\ d.convoy = 0 /\ d.master = 0 /\ d.candidate = 0
         /\ d.starter = FALSE /\ d.triggers = 0 /\ d.timers = 0
  BY DEF Fresh, NewUe

\* The events a NIC can run have been scheduled.
Scheduled(d) == d.starter \/ d.triggers > 0 \/ d.timers > 0

\* Nothing is scheduled for a device that is not used.
LEMMA FreshIdle ==
  ASSUME NEW d, Fresh(d)
  PROVE  ~Scheduled(d)
  BY DEF Fresh, NewUe, Scheduled

\* Nothing is scheduled for a master.
LEMMA MasterIdle ==
  ASSUME NEW d, MasterShape(d)
  PROVE  ~Scheduled(d)
  BY DEF MasterShape, NewMaster, Scheduled

\* The unused gateway device has nothing scheduled.
LEMMA GatewayIdle ==
  NewUe("GATEWAY", 0).type = "GATEWAY" /\ ~Scheduled(NewUe("GATEWAY", 0))
  BY DEF NewUe, Scheduled

\* A master names itself and has nothing scheduled.
LEMMA MasterFields ==
  ASSUME NEW d, MasterShape(d)
  PROVE  /\ d.type = "MASTER" /\ d.cell # 0 /\ d.adv # 0
         /\ d.manager = d.cell /\ d.convoy = d.adv /\ d.master = d.cell
         /\ d.starter = FALSE /\ d.triggers = 0 /\ d.timers = 0
  <1> DEFINE c == d.cell
             a == d.adv
  <1>1. d = NewMaster(c, a) /\ c # 0 /\ a # 0
    BY DEF MasterShape
  <1> HIDE DEF c, a
  <1>2. /\ d.type = "MASTER" /\ d.cell = c /\ d.adv = a
        /\ d.manager = c /\ d.convoy = a /\ d.master = c
        /\ d.starter = FALSE /\ d.triggers = 0 /\ d.timers = 0
    BY <1>1 DEF NewMaster
  <1> QED
    BY <1>1, <1>2

\* Configuring a master gives it that shape.
LEMMA NewMasterShape ==
  ASSUME NEW c, NEW a, c # 0, a # 0
  PROVE  LET d == NewMaster(c, a)
         IN MasterShape(d) /\ d.cell = c /\ d.adv = a
  <1> DEFINE d == NewMaster(c, a)
  <1>1. d.cell = c /\ d.adv = a
    BY DEF NewMaster
  <1> QED
    BY <1>1 DEF MasterShape

\* The join of a station that has just scanned.
LEMMA JoinedShape ==
  ASSUME NEW d, Fresh(d), NEW convoy \in Nat \ {0}, NEW cluster \in Nat \ {0}
  PROVE  LET e == JoinedCluster(d, convoy, cluster)
         IN /\ MemberShape(e) /\ e.manager = cluster /\ e.convoy = convoy
            /\ e.adv = 0 /\ e.master = 0
  BY DEF Fresh, NewUe, JoinedCluster, AttachToCluster, MemberShape

\* The start event takes a member's device to the second stage.
LEMMA TriggeredShape ==
  ASSUME NEW d \in Device, MemberShape(d), d.starter
  PROVE  LET e == Triggered(d)
         IN /\ MemberShape(e) /\ e.manager = d.manager /\ e.convoy = d.convoy
            /\ e.adv = d.adv /\ e.master = d.master
  BY DEF Device, Triggered, MemberShape

\* The completion event takes it to the last.
LEMMA CompletedShape ==
  ASSUME NEW d \in Device, MemberShape(d), d.triggers > 0
  PROVE  LET e == Completed(d)
         IN /\ MemberShape(e) /\ e.manager = d.manager /\ e.convoy = d.convoy
            /\ e.adv = d.adv /\ d.master = 0 /\ e.master = d.manager
  BY DEF Device, Completed, MemberShape

\* The status timer is not part of the shape.
LEMMA ExpiredShape ==
  ASSUME NEW d \in Device, MemberShape(d)
  PROVE  LET e == Expired(d)
         IN /\ MemberShape(e) /\ e.manager = d.manager /\ e.convoy = d.convoy
            /\ e.adv = d.adv /\ e.master = d.master
  BY DEF Device, Expired, MemberShape

\* A station opened a cell exactly when its device is a master.
LEMMA OpenedIsMaster ==
  ASSUME DevicesInv, NEW n \in Nodes
  PROVE  /\ pr[n].cell # 0 <=> pr[n].type = "MASTER"
         /\ pr[n].type # "MASTER" <=> pr[n].type = "MEMBER"
         /\ pr[n].cell # 0 <=> MasterShape(pr[n])
         /\ pr[n].cell # 0 => phase[n] \notin {"absent", "scanning"}
  BY FreshFields, MasterFields DEF DevicesInv, MemberShape
-----------------------------------------------------------------------------
(* What steps leave as it is.                                              *)

\* Cells, convoys and what is known of them depend on four fields only.
LEMMA CellsFrame ==
  ASSUME CellsInv, enb' = enb, convoys' = convoys,
         \A n \in Nodes : /\ pr'[n].cell = pr[n].cell
                          /\ pr'[n].adv = pr[n].adv
                          /\ pr'[n].manager = pr[n].manager
                          /\ pr'[n].convoy = pr[n].convoy,
         \A n \in Nodes : bcasts'[n] \subseteq bcasts[n]
  PROVE  CellsInv'
  <1>1. \A n \in Nodes :
          (pr[n].cell # 0 => pr[n].cell < enb /\ pr[n].adv \in convoys)'
    BY DEF CellsInv
  <1>2. \A n, m \in Nodes :
          (pr[n].cell # 0 /\ pr[n].cell = pr[m].cell => n = m)'
    BY DEF CellsInv
  <1>3. \A n, m \in Nodes :
          (pr[n].cell # 0 /\ pr[m].cell # 0 /\ pr[n].adv = pr[m].adv
             => Direction[n] = Direction[m])'
    BY DEF CellsInv
  <1>4. \A n, m \in Nodes : Founder(n, m) => Founder(n, m)'
    BY DEF Founder
  <1>5. \A n \in Nodes : pr'[n].manager # 0 => \E m \in Nodes : Founder(n, m)'
    BY <1>4 DEF CellsInv
  <1>6. \A b : Genuine(b) => Genuine(b)'
    BY DEF Genuine
  <1>7. \A n \in Nodes : \A b \in bcasts'[n] : Genuine(b)'
    BY <1>6 DEF CellsInv
  <1> QED
    BY <1>1, <1>2, <1>3, <1>5, <1>7 DEF CellsInv

\* The registry stays exact when the masters on the road stay the same.
LEMMA RegistryFrame ==
  ASSUME RegistryExact, clusters' = clusters,
         \A n \in Nodes : /\ pr'[n].cell = pr[n].cell
                          /\ pr'[n].adv = pr[n].adv
                          /\ IsMaster(n)' <=> IsMaster(n)
  PROVE  RegistryExact'
  <1>1. Masters' = Masters
    BY DEF Masters
  <1>2. \A n \in Masters : <<pr'[n].adv, pr'[n].cell>> = <<pr[n].adv, pr[n].cell>>
    BY DEF Masters
  <1> QED
    BY <1>1, <1>2 DEF RegistryExact

\* A step of a member's NIC changes neither who it is nor what is known.
LEMMA NicFrame ==
  ASSUME ScanInv, NEW n \in Nodes, NEW d, MemberShape(pr[n]), MemberShape(d),
         d.manager = pr[n].manager, d.convoy = pr[n].convoy,
         d.adv = pr[n].adv, SetDevice(n, "PRIMARY", d)
  PROVE  DevicesInv' /\ CellsInv' /\ RegistryExact' /\ FailureNeedsDeparture'
         /\ HandoverChangesMaster'
  <1>1. /\ pr' = [pr EXCEPT ![n] = d] /\ gw' = gw /\ phase' = phase
        /\ bcasts' = bcasts /\ enb' = enb /\ convoys' = convoys
        /\ clusters' = clusters /\ failure' = failure
    BY DEF SetDevice
  <1>2. pr \in [Nodes -> Device]
    BY DEF ScanInv, IInv, TypeOK
  <1>3. pr'[n] = d /\ \A m \in Nodes : m # n => pr'[m] = pr[m]
    BY <1>1, <1>2
  <1>4. d.cell = pr[n].cell /\ d.type = pr[n].type /\ d.manager # 0
    BY DEF MemberShape
  <1>5. ~Fresh(pr[n])
    BY FreshFields DEF MemberShape
  <1>6. DevicesInv'
    BY <1>1, <1>3, <1>4, <1>5 DEF ScanInv, DevicesInv
  <1>7. \A m \in Nodes : /\ pr'[m].cell = pr[m].cell
                         /\ pr'[m].adv = pr[m].adv
                         /\ pr'[m].manager = pr[m].manager
                         /\ pr'[m].convoy = pr[m].convoy
                         /\ pr'[m].type = pr[m].type
    BY <1>3, <1>4
  <1>8. CellsInv'
    BY <1>1, <1>7, CellsFrame DEF ScanInv
  <1>9. \A m \in Nodes : IsMaster(m)' <=> IsMaster(m)
    BY <1>1, <1>7 DEF IsMaster, OnRoad
  <1>10. RegistryExact'
    BY <1>1, <1>7, <1>9, RegistryFrame DEF ScanInv
  <1> QED
    BY <1>1, <1>6, <1>8, <1>10
       DEF ScanInv, FailureNeedsDeparture, HandoverChangesMaster

\* A failure that a departure explains changes nothing else.
LEMMA AbortFrame ==
  ASSUME ScanInv, NEW why, Abort(why), why # "handover to the current master",
         \E m \in Nodes : phase[m] = "gone"
  PROVE  DevicesInv' /\ CellsInv' /\ RegistryExact' /\ FailureNeedsDeparture'
         /\ HandoverChangesMaster'
  <1>1. /\ phase' = phase /\ pr' = pr /\ gw' = gw /\ bcasts' = bcasts
        /\ enb' = enb /\ convoys' = convoys /\ clusters' = clusters
        /\ failure' = why
    BY DEF Abort
  <1>2. DevicesInv' /\ RegistryExact'
    BY <1>1 DEF ScanInv, DevicesInv, RegistryExact, Masters, IsMaster, OnRoad
  <1>3. CellsInv'
    BY <1>1, CellsFrame DEF ScanInv
  <1> QED
    BY <1>1, <1>2, <1>3 DEF FailureNeedsDeparture, HandoverChangesMaster
-----------------------------------------------------------------------------
(* The events of the NICs.                                                 *)

\* A cell that is gone was opened by a station that has left.
LEMMA GoneMeansDeparted ==
  ASSUME ScanInv, NEW n \in Nodes, Gone(pr[n].manager)
  PROVE  \E m \in Nodes : phase[m] = "gone"
  <1>1. pr[n].manager # 0 /\ pr[n].manager \notin LiveCells
    BY DEF Gone
  <1>2. PICK m \in Nodes : Founder(n, m)
    BY <1>1 DEF ScanInv, CellsInv
  <1>3. pr[m].cell # 0 /\ pr[m].cell = pr[n].manager
    BY <1>2 DEF Founder
  <1>4. pr[m].type = "MASTER" /\ phase[m] \notin {"absent", "scanning"}
    BY <1>3, OpenedIsMaster DEF ScanInv
  <1>5. phase[m] \in Phases
    BY DEF ScanInv, IInv, TypeOK
  <1>6. CASE phase[m] = "settled"
    <2>1. IsMaster(m)
      BY <1>4, <1>6 DEF IsMaster, OnRoad
    <2>2. pr[m].cell \in LiveCells
      BY <2>1 DEF LiveCells
    <2> QED
      BY <1>1, <1>3, <2>2
  <1> QED
    BY <1>4, <1>5, <1>6 DEF Phases

\* The cell a station belongs to is one the binder has registered.
LEMMA ManagerKnown ==
  ASSUME ScanInv, NEW n \in Nodes, pr[n].manager # 0
  PROVE  KnownMaster(pr[n].manager)
  <1>1. PICK m \in Nodes : Founder(n, m)
    BY DEF ScanInv, CellsInv
  <1>2. pr[n].manager < enb
    BY <1>1 DEF ScanInv, CellsInv, Founder
  <1>3. pr[n].manager \in Nat /\ enb \in Nat
    BY DEF ScanInv, IInv, TypeOK, Device
  <1> QED
    BY <1>2, <1>3 DEF KnownMaster

\* Only the primary NIC of a member has events.
LEMMA NicIsMember ==
  ASSUME ScanInv, NEW n \in Nodes, NEW i \in Interfaces,
         TriggerHandover(n, i) \/ DoHandover(n, i) \/ UnicastStatus(n, i)
  PROVE  /\ i = "PRIMARY" /\ Dev(n, i) = pr[n] /\ pr[n] \in Device
         /\ MemberShape(pr[n])
  <1> DEFINE d == Dev(n, i)
  <1>1. pr[n] \in Device
    BY DEF ScanInv, IInv, TypeOK
  <1>2. Scheduled(d)
    <2>1. d \in Device
      BY DEF ScanInv, IInv, TypeOK, Dev
    <2> QED
      BY <2>1, TimerPending
         DEF TriggerHandover, DoHandover, UnicastStatus, Scheduled
  <1>3. i = "PRIMARY"
    <2>1. i = "GATEWAY" => d = NewUe("GATEWAY", 0)
      BY DEF ScanInv, DevicesInv, Dev
    <2> QED
      BY <1>2, <2>1, GatewayIdle DEF Interfaces
  <1>4. d = pr[n]
    BY <1>3 DEF Dev
  <1>5. MemberShape(pr[n])
    BY <1>2, <1>4, FreshIdle, MasterIdle DEF ScanInv, DevicesInv
  <1> QED
    BY <1>1, <1>3, <1>4, <1>5

\* Handover and status events keep the invariant.
LEMMA NicScanStep ==
  ASSUME ScanInv, NEW n \in Nodes, NEW i \in Interfaces,
         TriggerHandover(n, i) \/ DoHandover(n, i) \/ UnicastStatus(n, i)
  PROVE  DevicesInv' /\ CellsInv' /\ RegistryExact' /\ FailureNeedsDeparture'
         /\ HandoverChangesMaster'
  <1> DEFINE d == Dev(n, i)
  <1>1. i = "PRIMARY"
    BY NicIsMember
  <1>2. d = pr[n]
    BY NicIsMember
  <1>3. d \in Device /\ pr[n] \in Device
    BY <1>2, NicIsMember
  <1>4. MemberShape(pr[n])
    BY NicIsMember
  <1>5. d.manager # 0 /\ d.candidate = d.manager /\ d.master \in {0, d.manager}
    BY <1>2, <1>4 DEF MemberShape
  <1>6. Gone(d.master) \/ Gone(d.candidate) => \E m \in Nodes : phase[m] = "gone"
    <2>1. ~Gone(0)
      BY DEF Gone
    <2> QED
      BY <1>2, <1>5, <2>1, GoneMeansDeparted
  <1>7. KnownMaster(d.candidate)
    BY <1>2, <1>5, ManagerKnown
  <1> HIDE DEF d
  <1>8. CASE TriggerHandover(n, i)
    <2>1. d.starter
      BY <1>8 DEF TriggerHandover, d
    <2>2. d.master # d.candidate
      BY <1>2, <1>4, <1>5, <2>1 DEF MemberShape
    <2>3. \/ Gone(d.master) /\ Abort("current master gone")
          \/ SetDevice(n, i, Triggered(d))
      BY <1>7, <1>8, <2>2 DEF TriggerHandover, d
    <2> QED
      BY <1>3, <1>1, <1>2, <1>4, <1>6, <2>1, <2>3, AbortFrame, NicFrame,
         TriggeredShape
  <1>9. CASE DoHandover(n, i)
    <2>1. d.triggers > 0
      BY <1>9 DEF DoHandover, d
    <2>2. \/ Gone(d.master) /\ Abort("current master gone")
          \/ Gone(d.candidate) /\ Abort("handover target gone")
          \/ SetDevice(n, i, Completed(d))
      BY <1>9 DEF DoHandover, d
    <2> QED
      BY <1>3, <1>1, <1>2, <1>4, <1>6, <2>1, <2>2, AbortFrame, NicFrame,
         CompletedShape
  <1>10. CASE UnicastStatus(n, i)
    <2>1. \/ SetDevice(n, i, Expired(d))
          \/ Gone(d.master) /\ Abort("status to a gone master")
      BY <1>10 DEF UnicastStatus, d
    <2> QED
      BY <1>3, <1>1, <1>2, <1>4, <1>6, <2>1, AbortFrame, NicFrame,
         ExpiredShape
  <1> QED
    BY <1>8, <1>9, <1>10
-----------------------------------------------------------------------------
(* The events of the stations.                                             *)

\* A station that enters has two unused devices.
LEMMA InitializeScanStep ==
  ASSUME ScanInv, NEW n \in Nodes, Initialize(n)
  PROVE  DevicesInv' /\ CellsInv' /\ RegistryExact' /\ FailureNeedsDeparture'
         /\ HandoverChangesMaster'
  <1>1. /\ phase[n] = "absent" /\ phase' = [phase EXCEPT ![n] = "scanning"]
        /\ pr' = [pr EXCEPT ![n] = NewUe("MEMBER", 0)]
        /\ gw' = [gw EXCEPT ![n] = NewUe("GATEWAY", 0)]
        /\ failure = "none" /\ failure' = failure /\ bcasts' = bcasts
        /\ enb' = enb /\ convoys' = convoys /\ clusters' = clusters
    BY DEF Initialize, Running
  <1>2. /\ pr \in [Nodes -> Device] /\ gw \in [Nodes -> Device]
        /\ phase \in [Nodes -> Phases]
    BY DEF ScanInv, IInv, TypeOK
  <1>3. pr[n] = NewUe("MEMBER", 0) /\ gw[n] = NewUe("GATEWAY", 0)
    BY <1>1 DEF ScanInv, DevicesInv, Fresh
  <1>4. pr' = pr /\ gw' = gw
    BY <1>1, <1>2, <1>3
  <1>5. phase'[n] = "scanning" /\ \A m \in Nodes : m # n => phase'[m] = phase[m]
    BY <1>1, <1>2
  <1>6. DevicesInv'
    BY <1>3, <1>4, <1>5 DEF ScanInv, DevicesInv, Fresh
  <1>7. CellsInv'
    BY <1>1, <1>4, CellsFrame DEF ScanInv
  <1>8. pr[n].type = "MEMBER"
    BY <1>3, FreshFields DEF Fresh
  <1>9. \A m \in Nodes : IsMaster(m)' <=> IsMaster(m)
    BY <1>4, <1>5, <1>8 DEF IsMaster, OnRoad
  <1>10. RegistryExact'
    BY <1>1, <1>4, <1>9, RegistryFrame DEF ScanInv
  <1> QED
    BY <1>1, <1>6, <1>7, <1>10
       DEF ScanInv, FailureNeedsDeparture, HandoverChangesMaster

\* A broadcast names the cell of the master that sent it.
LEMMA ReceiveBroadcastScanStep ==
  ASSUME ScanInv, NEW n \in Nodes, NEW m \in Nodes, NEW full \in AdvertisedFull,
         NEW rssi \in Rssi, ReceiveBroadcast(n, m, full, rssi)
  PROVE  DevicesInv' /\ CellsInv' /\ RegistryExact' /\ FailureNeedsDeparture'
         /\ HandoverChangesMaster'
  <1> DEFINE b == ConvoyBroadcast(m, full, rssi)
  <1>1. /\ IsMaster(m) /\ phase' = phase /\ pr' = pr /\ gw' = gw /\ enb' = enb
        /\ convoys' = convoys /\ clusters' = clusters /\ failure' = failure
        /\ bcasts' = [bcasts EXCEPT ![n] =
                        {x \in @ : x.cluster # b.cluster} \union {b}]
    BY DEF ReceiveBroadcast
  <1>2. bcasts \in [Nodes -> SUBSET Broadcast]
    BY DEF ScanInv, IInv, TypeOK
  <1>3. \A k \in Nodes : bcasts'[k] \subseteq bcasts[k] \union {b}
    BY <1>1, <1>2
  <1>4. /\ b.cluster = pr[m].cell /\ b.convoy = pr[m].adv
        /\ b.direction = Direction[m]
    BY DEF ConvoyBroadcast
  <1>5. pr[m].cell # 0
    BY <1>1, OpenedIsMaster DEF ScanInv, IsMaster
  <1> HIDE DEF b
  <1>6. Genuine(b)
    BY <1>4, <1>5 DEF Genuine
  <1>7. \A x : Genuine(x) => Genuine(x)'
    BY <1>1 DEF Genuine
  <1>8. \A k \in Nodes : \A x \in bcasts'[k] : Genuine(x)'
    BY <1>3, <1>6, <1>7 DEF ScanInv, CellsInv
  <1>9. \A k, l \in Nodes : Founder(k, l)' <=> Founder(k, l)
    BY <1>1 DEF Founder
  <1>10. CellsInv'
    BY <1>1, <1>8, <1>9 DEF ScanInv, CellsInv
  <1>11. DevicesInv' /\ RegistryExact'
    BY <1>1 DEF ScanInv, DevicesInv, RegistryExact, Masters, IsMaster, OnRoad
  <1> QED
    BY <1>1, <1>10, <1>11
       DEF ScanInv, FailureNeedsDeparture, HandoverChangesMaster

\* A station that leaves takes its entry, and no other, out of the registry.
LEMMA LeaveScanStep ==
  ASSUME ScanInv, NEW n \in Nodes, Leave(n)
  PROVE  DevicesInv' /\ CellsInv' /\ RegistryExact' /\ FailureNeedsDeparture'
         /\ HandoverChangesMaster'
  <1>1. /\ OnRoad(n) /\ phase' = [phase EXCEPT ![n] = "gone"]
        /\ clusters' = (clusters \ Registration(pr[n])) \ Registration(gw[n])
        /\ bcasts' = [bcasts EXCEPT ![n] = {}]
        /\ pr' = pr /\ gw' = gw /\ enb' = enb
        /\ convoys' = convoys /\ failure' = failure
    BY DEF Leave
  <1>2. phase \in [Nodes -> Phases] /\ bcasts \in [Nodes -> SUBSET Broadcast]
    BY DEF ScanInv, IInv, TypeOK
  <1>3. phase'[n] = "gone" /\ \A m \in Nodes : m # n => phase'[m] = phase[m]
    BY <1>1, <1>2
  <1>4. DevicesInv'
    BY <1>1, <1>3 DEF ScanInv, DevicesInv
  <1>5. \A m \in Nodes : bcasts'[m] \subseteq bcasts[m]
    BY <1>1, <1>2
  <1>6. CellsInv'
    BY <1>1, <1>5, CellsFrame DEF ScanInv
  <1>7. Registration(gw[n]) = {}
    BY GatewayIdle DEF ScanInv, DevicesInv, Registration
  <1>8. Masters' = Masters \ {n}
    BY <1>1, <1>3 DEF Masters, IsMaster, OnRoad
  <1>9. RegistryExact'
    <2>1. CASE pr[n].type = "MASTER"
      <3>1. MasterShape(pr[n])
        BY <2>1, OpenedIsMaster DEF ScanInv
      <3>2. Registration(pr[n]) = {<<pr[n].adv, pr[n].cell>>}
        BY <2>1, <3>1, MasterFields DEF Registration
      <3>3. \A m \in Masters : m # n => pr[m].cell # pr[n].cell
        BY <3>1, OpenedIsMaster, MasterFields
           DEF ScanInv, CellsInv, Masters, IsMaster
      <3>4. clusters' = {<<pr[m].adv, pr[m].cell>> : m \in Masters \ {n}}
        BY <1>1, <1>7, <3>2, <3>3 DEF ScanInv, RegistryExact
      <3> QED
        BY <1>1, <1>8, <3>4 DEF RegistryExact
    <2>2. CASE pr[n].type # "MASTER"
      <3>1. Registration(pr[n]) = {} /\ n \notin Masters
        BY <2>2 DEF Registration, Masters, IsMaster
      <3> QED
        BY <1>1, <1>7, <1>8, <3>1 DEF ScanInv, RegistryExact
    <2> QED
      BY <2>1, <2>2
  <1> QED
    BY <1>1, <1>3, <1>4, <1>6, <1>9
       DEF ScanInv, FailureNeedsDeparture, HandoverChangesMaster
\* What a scan that joins does to the state.
Joins(n, g, c) ==
  /\ failure = "none" /\ failure' = failure /\ phase[n] = "scanning"
  /\ phase' = [phase EXCEPT ![n] = "settled"]
  /\ pr' = [pr EXCEPT ![n] = JoinedCluster(pr[n], g, c)]
  /\ gw' = gw /\ bcasts' = bcasts /\ enb' = enb /\ convoys' = convoys
  /\ clusters' = clusters

\* What a scan that opens a cell does to the state.
Opens(n, g) ==
  /\ failure = "none" /\ failure' = failure /\ phase[n] = "scanning"
  /\ phase' = [phase EXCEPT ![n] = "settled"]
  /\ pr' = [pr EXCEPT ![n] = NewMaster(enb, g)]
  /\ gw' = gw /\ bcasts' = bcasts /\ enb' = enb + 1
  /\ convoys' = convoys \union {g}
  /\ clusters' = clusters \union {<<g, enb>>}

\* The convoy of a cell opened in the direction of n, or a convoy that is new.
Suitable(n, g) ==
  \/ g \notin convoys
  \/ \E m \in Nodes :
       pr[m].cell # 0 /\ pr[m].adv = g /\ Direction[m] = Direction[n]

\* A join as a change of one station's view.
LEMMA JoinView ==
  ASSUME NEW n \in Nodes, NEW g, NEW c
  PROVE  LET t == JoinPrimary(View(n), g, c)
         IN /\ t.pr = JoinedCluster(pr[n], g, c) /\ t.gw = gw[n]
            /\ t.enb = enb /\ t.convoys = convoys /\ t.clusters = clusters
  BY DEF JoinPrimary, View

\* A new cell as a change of one station's view.
LEMMA OpenView ==
  ASSUME NEW n \in Nodes, NEW g
  PROVE  LET t == CreateNewCluster(View(n), g)
         IN /\ t.pr = NewMaster(enb, g) /\ t.gw = gw[n] /\ t.enb = enb + 1
            /\ t.convoys = convoys
            /\ t.clusters = (clusters \ Registration(pr[n])) \union {<<g, enb>>}
  BY DEF CreateNewCluster, View

\* A new convoy as a change of one station's view.
LEMMA FoundView ==
  ASSUME NEW n \in Nodes, NEW g, g = MaxIdConvoy(convoys) + 1
  PROVE  LET t == CreateNewConvoy(View(n))
         IN /\ t.pr = NewMaster(enb, g) /\ t.gw = gw[n] /\ t.enb = enb + 1
            /\ t.convoys = convoys \union {g}
            /\ t.clusters = (clusters \ Registration(pr[n])) \union {<<g, enb>>}
  <1> DEFINE s == [View(n) EXCEPT !.convoys = convoys \union {g}]
  <1>1. CreateNewConvoy(View(n)) = CreateNewCluster(s, g)
    BY ViewFields DEF CreateNewConvoy
  <1>2. /\ s.pr = pr[n] /\ s.gw = gw[n] /\ s.enb = enb
        /\ s.convoys = convoys \union {g} /\ s.clusters = clusters
        /\ DOMAIN s = DOMAIN View(n)
    BY DEF View
  <1>3. DOMAIN s = {"role", "ctl", "pr", "gw", "enb", "convoys", "clusters"}
    BY DEF View
  <1> HIDE DEF s
  <1> QED
    BY <1>1, <1>2, <1>3 DEF CreateNewCluster

\* What applying a view leaves alone.
LEMMA ApplyView ==
  ASSUME TypeOK, NEW n \in Nodes, NEW t, ScanDone(n, t), t.gw = gw[n]
  PROVE  /\ failure = "none" /\ failure' = failure /\ phase[n] = "scanning"
         /\ phase' = [phase EXCEPT ![n] = "settled"]
         /\ pr' = [pr EXCEPT ![n] = t.pr] /\ gw' = gw /\ bcasts' = bcasts
         /\ enb' = t.enb /\ convoys' = t.convoys /\ clusters' = t.clusters
  <1>1. gw \in [Nodes -> Device]
    BY DEF TypeOK
  <1>2. [gw EXCEPT ![n] = t.gw] = gw
    BY <1>1
  <1> QED
    BY <1>2 DEF ScanDone, Running, Apply

\* handleBroadcastScanEvent has two kinds of outcome.
LEMMA ScanOutcome ==
  ASSUME ScanInv, NEW n \in Nodes, HandleBroadcastScanEvent(n)
  PROVE  \/ \E m \in Nodes : /\ pr[m].cell # 0 /\ Direction[m] = Direction[n]
                              /\ Joins(n, pr[m].adv, pr[m].cell)
         \/ \E g \in Nat \ {0} : Suitable(n, g) /\ Opens(n, g)
  <1>1. phase[n] = "scanning" /\ failure = "none"
    BY DEF HandleBroadcastScanEvent, ScanJoinsCluster, ScanCreatesCluster,
           ScanCreatesConvoy, ScanDone, Running
  <1>2. Fresh(pr[n])
    BY <1>1 DEF ScanInv, DevicesInv
  <1>3. Registration(pr[n]) = {}
    BY <1>2, FreshFields DEF Registration
  <1>4. \A b \in Candidates(n) : b \in bcasts[n] /\ b.direction = Direction[n]
    BY DEF Candidates, Qualified
  <1>5. \A b \in Candidates(n) :
          \E m \in Nodes : /\ pr[m].cell # 0 /\ b.cluster = pr[m].cell
                           /\ b.convoy = pr[m].adv /\ Direction[m] = Direction[n]
    BY <1>4 DEF ScanInv, CellsInv, Genuine
  <1>6. ASSUME NEW g, g \in convoys, ScanDone(n, CreateNewCluster(View(n), g))
        PROVE  Opens(n, g)
    <2> DEFINE t == CreateNewCluster(View(n), g)
    <2>1. /\ t.pr = NewMaster(enb, g) /\ t.gw = gw[n] /\ t.enb = enb + 1
          /\ t.convoys = convoys
          /\ t.clusters = (clusters \ Registration(pr[n])) \union {<<g, enb>>}
      BY OpenView
    <2> HIDE DEF t
    <2>2. ScanDone(n, t)
      BY <1>6 DEF t
    <2>3. convoys = convoys \union {g} /\ clusters \ {} = clusters
      BY <1>6
    <2> QED
      BY <1>3, <2>1, <2>2, <2>3, ApplyView DEF Opens, ScanInv, IInv
  <1>7. CASE ScanJoinsCluster(n)
    <2>1. PICK b \in Candidates(n) :
            ScanDone(n, JoinPrimary(View(n), b.convoy, b.cluster))
      BY <1>7 DEF ScanJoinsCluster
    <2>2. PICK m \in Nodes : /\ pr[m].cell # 0 /\ b.cluster = pr[m].cell
                             /\ b.convoy = pr[m].adv
                             /\ Direction[m] = Direction[n]
      BY <1>5
    <2> DEFINE t == JoinPrimary(View(n), b.convoy, b.cluster)
    <2>3. /\ t.pr = JoinedCluster(pr[n], b.convoy, b.cluster)
          /\ t.gw = gw[n] /\ t.enb = enb /\ t.convoys = convoys
          /\ t.clusters = clusters
      BY JoinView
    <2> HIDE DEF t
    <2>4. ScanDone(n, t)
      BY <2>1 DEF t
    <2>5. Joins(n, b.convoy, b.cluster)
      BY <2>3, <2>4, ApplyView DEF Joins, ScanInv, IInv
    <2> QED
      BY <2>2, <2>5
  <1>8. CASE ScanCreatesCluster(n)
    <2>1. PICK b \in Candidates(n) :
            ScanDone(n, CreateNewCluster(View(n), b.convoy))
      BY <1>8 DEF ScanCreatesCluster
    <2>2. PICK m \in Nodes : /\ pr[m].cell # 0 /\ b.convoy = pr[m].adv
                             /\ Direction[m] = Direction[n]
      BY <1>5
    <2>3. b.convoy \in convoys /\ b.convoy # 0
      BY <2>2, OpenedIsMaster, MasterFields DEF ScanInv, CellsInv
    <2>4. b.convoy \in Nat \ {0}
      BY <2>3 DEF ScanInv, IInv, TypeOK
    <2> QED
      BY <1>6, <2>1, <2>2, <2>3, <2>4 DEF Suitable
  <1>9. CASE ScanCreatesConvoy(n)
    <2>1. PICK k \in Nat : convoys = 1..k
      BY DEF ScanInv, IInv, ConvoysInOrder
    <2>2. MaxIdConvoy(convoys) + 1 = k + 1
      BY <2>1, MaxIdConvoyOf
    <2>3. ScanDone(n, CreateNewConvoy(View(n)))
      BY <1>9 DEF ScanCreatesConvoy
    <2> DEFINE t == CreateNewConvoy(View(n))
    <2>4. /\ t.pr = NewMaster(enb, k + 1) /\ t.gw = gw[n] /\ t.enb = enb + 1
          /\ t.convoys = convoys \union {k + 1}
          /\ t.clusters = (clusters \ Registration(pr[n]))
                             \union {<<k + 1, enb>>}
      BY <2>2, FoundView
    <2> HIDE DEF t
    <2>5. ScanDone(n, t)
      BY <2>3 DEF t
    <2>6. Opens(n, k + 1)
      BY <1>3, <2>4, <2>5, ApplyView DEF Opens, ScanInv, IInv
    <2>7. k + 1 \in Nat \ {0} /\ k + 1 \notin convoys
      BY <2>1
    <2> QED
      BY <2>6, <2>7 DEF Suitable
  <1> QED
    BY <1>7, <1>8, <1>9 DEF HandleBroadcastScanEvent
\* A station that joins belongs to a cell that was opened in its direction.
LEMMA JoinScanStep ==
  ASSUME ScanInv, NEW n \in Nodes, NEW m \in Nodes, pr[m].cell # 0,
         Direction[m] = Direction[n], Joins(n, pr[m].adv, pr[m].cell)
  PROVE  DevicesInv' /\ CellsInv' /\ RegistryExact' /\ FailureNeedsDeparture'
         /\ HandoverChangesMaster'
  <1> DEFINE d == JoinedCluster(pr[n], pr[m].adv, pr[m].cell)
  <1>1. /\ failure = "none" /\ failure' = failure /\ phase[n] = "scanning"
        /\ phase' = [phase EXCEPT ![n] = "settled"] /\ pr' = [pr EXCEPT ![n] = d]
        /\ gw' = gw /\ bcasts' = bcasts /\ enb' = enb /\ convoys' = convoys
        /\ clusters' = clusters
    BY DEF Joins
  <1>2. pr \in [Nodes -> Device] /\ phase \in [Nodes -> Phases]
    BY DEF ScanInv, IInv, TypeOK
  <1>3. Fresh(pr[n])
    BY <1>1 DEF ScanInv, DevicesInv
  <1>4. pr[m].adv \in Nat \ {0} /\ pr[m].cell \in Nat \ {0}
    BY <1>2, OpenedIsMaster, MasterFields DEF ScanInv, Device
  <1>5. /\ MemberShape(d) /\ d.manager = pr[m].cell /\ d.convoy = pr[m].adv
        /\ d.adv = 0
    BY <1>3, <1>4, JoinedShape
  <1> HIDE DEF d
  <1>6. d.cell = 0 /\ d.type = "MEMBER" /\ d.manager # 0
    BY <1>5 DEF MemberShape
  <1>7. /\ pr'[n] = d /\ phase'[n] = "settled" /\ m # n
        /\ \A k \in Nodes : k # n => pr'[k] = pr[k] /\ phase'[k] = phase[k]
    BY <1>1, <1>2, <1>3, FreshFields
  <1>8. pr[n].cell = 0 /\ pr[n].manager = 0 /\ pr[n].type = "MEMBER"
    BY <1>3, FreshFields
  <1>9. DevicesInv'
    BY <1>1, <1>5, <1>6, <1>7 DEF ScanInv, DevicesInv
  <1>10. CellsInv'
    <2>1. \A k \in Nodes : pr'[k].cell = pr[k].cell
      BY <1>6, <1>7, <1>8
    <2>2. \A k \in Nodes : pr[k].cell # 0 => k # n
      BY <1>8
    <2>3. \A k \in Nodes :
            (pr[k].cell # 0 => pr[k].cell < enb /\ pr[k].adv \in convoys)'
      BY <1>1, <1>7, <2>1, <2>2 DEF ScanInv, CellsInv
    <2>4. \A k, l \in Nodes :
            (pr[k].cell # 0 /\ pr[k].cell = pr[l].cell => k = l)'
      BY <2>1 DEF ScanInv, CellsInv
    <2>5. \A k, l \in Nodes :
            (pr[k].cell # 0 /\ pr[l].cell # 0 /\ pr[k].adv = pr[l].adv
               => Direction[k] = Direction[l])'
      BY <1>7, <2>1, <2>2 DEF ScanInv, CellsInv
    <2>6. \A k, l \in Nodes : k # n /\ Founder(k, l) => Founder(k, l)'
      BY <1>7, <2>1, <2>2 DEF Founder
    <2>7. Founder(n, m)'
      BY <1>5, <1>7 DEF Founder
    <2>8. \A k \in Nodes : pr'[k].manager # 0 => \E l \in Nodes : Founder(k, l)'
      BY <1>7, <2>6, <2>7 DEF ScanInv, CellsInv
    <2>9. \A b : Genuine(b) => Genuine(b)'
      BY <1>7, <2>1, <2>2 DEF Genuine
    <2>10. \A k \in Nodes : \A b \in bcasts'[k] : Genuine(b)'
      BY <1>1, <2>9 DEF ScanInv, CellsInv
    <2> QED
      BY <2>3, <2>4, <2>5, <2>8, <2>10 DEF CellsInv
  <1>11. RegistryExact'
    <2>1. Masters' = Masters /\ n \notin Masters
      BY <1>6, <1>7, <1>8 DEF Masters, IsMaster, OnRoad
    <2>2. \A k \in Masters :
            <<pr'[k].adv, pr'[k].cell>> = <<pr[k].adv, pr[k].cell>>
      BY <1>7, <2>1 DEF Masters
    <2> QED
      BY <1>1, <2>1, <2>2 DEF ScanInv, RegistryExact
  <1> QED
    BY <1>1, <1>9, <1>10, <1>11 DEF FailureNeedsDeparture, HandoverChangesMaster

\* A station that opens a cell registers it under an id nobody else has.
LEMMA OpenScanStep ==
  ASSUME ScanInv, NEW n \in Nodes, NEW g \in Nat \ {0}, Suitable(n, g),
         Opens(n, g)
  PROVE  DevicesInv' /\ CellsInv' /\ RegistryExact' /\ FailureNeedsDeparture'
         /\ HandoverChangesMaster'
  <1> DEFINE d == NewMaster(enb, g)
  <1>1. /\ failure = "none" /\ failure' = failure /\ phase[n] = "scanning"
        /\ phase' = [phase EXCEPT ![n] = "settled"] /\ pr' = [pr EXCEPT ![n] = d]
        /\ gw' = gw /\ bcasts' = bcasts /\ enb' = enb + 1
        /\ convoys' = convoys \union {g}
        /\ clusters' = clusters \union {<<g, enb>>}
    BY DEF Opens
  <1>2. /\ pr \in [Nodes -> Device] /\ phase \in [Nodes -> Phases]
        /\ enb \in Nat \ {0} /\ \A k \in Nodes : pr[k].cell \in Nat
    BY DEF ScanInv, IInv, TypeOK, Device
  <1>3. /\ Fresh(pr[n]) /\ pr[n].cell = 0 /\ pr[n].manager = 0
        /\ pr[n].type = "MEMBER"
    BY <1>1, FreshFields DEF ScanInv, DevicesInv
  <1>4. MasterShape(d) /\ d.cell = enb /\ d.adv = g
    BY <1>2, NewMasterShape
  <1>5. d.type = "MASTER" /\ d.manager = enb /\ d.convoy = g
    BY <1>4, MasterFields
  <1> HIDE DEF d
  <1>6. /\ pr'[n] = d /\ phase'[n] = "settled"
        /\ \A k \in Nodes : k # n => pr'[k] = pr[k] /\ phase'[k] = phase[k]
    BY <1>1, <1>2
  <1>7. DevicesInv'
    BY <1>1, <1>2, <1>4, <1>5, <1>6 DEF ScanInv, DevicesInv
  <1>8. CellsInv'
    <2>1. \A k \in Nodes : pr[k].cell # 0 => k # n /\ pr[k].cell < enb
      BY <1>3 DEF ScanInv, CellsInv
    <2>2. \A k \in Nodes :
            (pr[k].cell # 0 => pr[k].cell < enb /\ pr[k].adv \in convoys)'
      BY <1>1, <1>2, <1>4, <1>6, <2>1 DEF ScanInv, CellsInv
    <2>3. \A k, l \in Nodes :
            (pr[k].cell # 0 /\ pr[k].cell = pr[l].cell => k = l)'
      BY <1>2, <1>4, <1>6, <2>1 DEF ScanInv, CellsInv
    <2>4. \A k \in Nodes :
            pr[k].cell # 0 /\ pr[k].adv = g => Direction[k] = Direction[n]
      BY DEF Suitable, ScanInv, CellsInv
    <2>5. \A k, l \in Nodes :
            (pr[k].cell # 0 /\ pr[l].cell # 0 /\ pr[k].adv = pr[l].adv
               => Direction[k] = Direction[l])'
      BY <1>4, <1>6, <2>1, <2>4 DEF ScanInv, CellsInv
    <2>6. \A k, l \in Nodes : k # n /\ Founder(k, l) => Founder(k, l)'
      BY <1>6, <2>1 DEF Founder
    <2>7. Founder(n, n)'
      BY <1>2, <1>4, <1>5, <1>6 DEF Founder
    <2>8. \A k \in Nodes : pr'[k].manager # 0 => \E l \in Nodes : Founder(k, l)'
      BY <1>6, <2>6, <2>7 DEF ScanInv, CellsInv
    <2>9. \A b : Genuine(b) => Genuine(b)'
      BY <1>6, <2>1 DEF Genuine
    <2>10. \A k \in Nodes : \A b \in bcasts'[k] : Genuine(b)'
      BY <1>1, <2>9 DEF ScanInv, CellsInv
    <2> QED
      BY <2>2, <2>3, <2>5, <2>8, <2>10 DEF CellsInv
  <1>9. RegistryExact'
    <2>1. Masters' = Masters \union {n} /\ n \notin Masters
      BY <1>3, <1>5, <1>6 DEF Masters, IsMaster, OnRoad
    <2>2. \A k \in Masters :
            <<pr'[k].adv, pr'[k].cell>> = <<pr[k].adv, pr[k].cell>>
      BY <1>6, <2>1 DEF Masters
    <2>3. <<pr'[n].adv, pr'[n].cell>> = <<g, enb>>
      BY <1>4, <1>6
    <2> QED
      BY <1>1, <2>1, <2>2, <2>3 DEF ScanInv, RegistryExact
  <1> QED
    BY <1>1, <1>7, <1>8, <1>9 DEF FailureNeedsDeparture, HandoverChangesMaster
-----------------------------------------------------------------------------
(* The invariant, and what follows from it.                                *)

\* The road is empty and nothing is registered.
LEMMA InitScanInv == Init => ScanInv
  <1> SUFFICES ASSUME Init PROVE ScanInv
    OBVIOUS
  <1>1. \A n \in Nodes : /\ phase[n] = "absent" /\ gw[n] = NewUe("GATEWAY", 0)
                         /\ Fresh(pr[n]) /\ bcasts[n] = {}
    BY DEF Init, Fresh
  <1>2. \A n \in Nodes : pr[n].cell = 0 /\ pr[n].manager = 0
    BY <1>1, FreshFields
  <1>3. DevicesInv
    BY <1>1 DEF DevicesInv
  <1>4. CellsInv
    BY <1>1, <1>2 DEF CellsInv
  <1>5. RegistryExact
    <2>1. Masters = {}
      BY <1>1 DEF Masters, IsMaster, OnRoad
    <2> QED
      BY <2>1 DEF RegistryExact, Init
  <1> QED
    BY <1>3, <1>4, <1>5, InitIInv
       DEF ScanInv, Init, FailureNeedsDeparture, HandoverChangesMaster

\* Without orders every event keeps the invariant.
LEMMA NextScanInv ==
  ASSUME MaxOrders = 0
  PROVE  ScanInv /\ [Next]_vars => ScanInv'
  <1> SUFFICES ASSUME ScanInv, [Next]_vars PROVE ScanInv'
    OBVIOUS
  <1>1. IInv'
    BY NextIInv DEF ScanInv
  <1>2. CASE UNCHANGED vars
    <2>1. /\ phase' = phase /\ pr' = pr /\ gw' = gw /\ bcasts' = bcasts
          /\ enb' = enb /\ convoys' = convoys /\ clusters' = clusters
          /\ failure' = failure
      BY <1>2 DEF vars
    <2>2. DevicesInv' /\ RegistryExact'
      BY <2>1 DEF ScanInv, DevicesInv, RegistryExact, Masters, IsMaster, OnRoad
    <2>3. CellsInv'
      BY <2>1, CellsFrame DEF ScanInv
    <2> QED
      BY <1>1, <2>1, <2>2, <2>3
         DEF ScanInv, FailureNeedsDeparture, HandoverChangesMaster
  <1>3. CASE Next
    <2>1. PICK n \in Nodes : StationStep(n)
      BY <1>3 DEF Next
    <2>2. CASE Initialize(n)
      BY <1>1, <2>2, InitializeScanStep DEF ScanInv
    <2>3. CASE \E m \in Nodes, full \in AdvertisedFull, rssi \in Rssi :
                 ReceiveBroadcast(n, m, full, rssi)
      BY <1>1, <2>3, ReceiveBroadcastScanStep DEF ScanInv
    <2>4. CASE HandleBroadcastScanEvent(n)
      BY <1>1, <2>4, ScanOutcome, JoinScanStep, OpenScanStep DEF ScanInv
    <2>5. CASE \E c \in Commands : Orchestrate(n, c)
      <3>1. orders < MaxOrders /\ orders \in 0..MaxOrders
        BY <2>5 DEF Orchestrate, ScanInv, IInv, TypeOK
      <3> QED
        BY <3>1
    <2>6. CASE Leave(n)
      BY <1>1, <2>6, LeaveScanStep DEF ScanInv
    <2>7. CASE \E i \in Interfaces :
                 TriggerHandover(n, i) \/ DoHandover(n, i) \/ UnicastStatus(n, i)
      BY <1>1, <2>7, NicScanStep DEF ScanInv
    <2> QED
      BY <2>1, <2>2, <2>3, <2>4, <2>5, <2>6, <2>7 DEF StationStep
  <1> QED
    BY <1>2, <1>3

\* The inductive invariant of membership without orders: devices have one of
\* three shapes, every cell that is named was opened in that direction, and the
\* registry is exact.
THEOREM ScanInvariance ==
  ASSUME MaxOrders = 0
  PROVE  Spec => []ScanInv
  BY InitScanInv, NextScanInv, PTL DEF Spec

\* Without orders, the binder lists the cells on the air and no other,
\* through every departure.
THEOREM RegistryStaysExact ==
  ASSUME MaxOrders = 0
  PROVE  Spec => []RegistryExact
  <1>1. ScanInv => RegistryExact
    BY DEF ScanInv
  <1> QED
    BY <1>1, ScanInvariance, PTL

\* Without orders, every failure is the consequence of a departure, and no
\* handover goes to the master it comes from.
THEOREM FailuresExplained ==
  ASSUME MaxOrders = 0
  PROVE  Spec => [](FailureNeedsDeparture /\ HandoverChangesMaster)
  <1>1. ScanInv => FailureNeedsDeparture /\ HandoverChangesMaster
    BY DEF ScanInv
  <1> QED
    BY <1>1, ScanInvariance, PTL

\* Without orders, a member and its manager agree on their convoy.
THEOREM ConvoyShared ==
  ASSUME MaxOrders = 0
  PROVE  Spec => []MemberSharesConvoy
  <1>1. ScanInv => MemberSharesConvoy
    <2> SUFFICES ASSUME ScanInv, NEW n \in Nodes, NEW m \in Masters, OnRoad(n),
                        pr[n].manager = pr[m].cell
                 PROVE  pr[n].convoy = pr[m].adv
      BY DEF MemberSharesConvoy
    <2>1. m \in Nodes /\ pr[m].cell # 0
      BY OpenedIsMaster DEF Masters, IsMaster, ScanInv
    <2>2. PICK k \in Nodes : Founder(n, k)
      BY <2>1 DEF ScanInv, CellsInv
    <2>3. k = m
      BY <2>1, <2>2 DEF Founder, ScanInv, CellsInv
    <2> QED
      BY <2>2, <2>3 DEF Founder
  <1> QED
    BY <1>1, ScanInvariance, PTL

\* A convoy that a station carries was founded in its direction.
LEMMA ConvoyFounded ==
  ASSUME ScanInv, NEW n \in Nodes, pr[n].convoy # 0
  PROVE  \E m \in Nodes : /\ pr[m].cell # 0 /\ pr[m].adv = pr[n].convoy
                          /\ Direction[m] = Direction[n]
  <1>1. pr[n].manager # 0
    <2>1. ~Fresh(pr[n])
      BY FreshFields
    <2>2. CASE MasterShape(pr[n])
      BY <2>2, MasterFields
    <2>3. CASE MemberShape(pr[n])
      BY <2>3 DEF MemberShape
    <2> QED
      BY <2>1, <2>2, <2>3 DEF ScanInv, DevicesInv
  <1>2. PICK m \in Nodes : Founder(n, m)
    BY <1>1 DEF ScanInv, CellsInv
  <1> QED
    BY <1>2 DEF Founder

\* Without orders, no convoy has stations of both directions, and every convoy
\* with a cluster is one the binder knows.
THEOREM ConvoysKeepDirection ==
  ASSUME MaxOrders = 0
  PROVE  Spec => [](ConvoyOneDirection /\ ConvoysRegistered)
  <1>1. ScanInv => ConvoyOneDirection
    <2> SUFFICES ASSUME ScanInv, NEW n \in Nodes, NEW m \in Nodes,
                        pr[n].convoy # 0, pr[m].convoy = pr[n].convoy
                 PROVE  Direction[n] = Direction[m]
      BY DEF ConvoyOneDirection, InConvoy
    <2> QED
      BY ConvoyFounded DEF ScanInv, CellsInv
  <1>2. ScanInv => ConvoysRegistered
    <2> SUFFICES ASSUME ScanInv, NEW p \in clusters
                 PROVE  p[1] \in convoys
      BY DEF ConvoysRegistered
    <2>1. PICK n \in Masters : p = <<pr[n].adv, pr[n].cell>>
      BY DEF ScanInv, RegistryExact
    <2>2. n \in Nodes /\ pr[n].cell # 0
      BY OpenedIsMaster DEF Masters, IsMaster, ScanInv
    <2> QED
      BY <2>1, <2>2 DEF ScanInv, CellsInv
  <1> QED
    BY <1>1, <1>2, ScanInvariance, PTL

\* Without orders, a convoy id is not given out while a station carries it,
\* although managers leave and the registry forgets their cells.
THEOREM ConvoyIdsNotReused ==
  ASSUME MaxOrders = 0
  PROVE  Spec => NewConvoyIsEmpty
  <1>1. ScanInv => \A id \in convoys' \ convoys : \A n \in Nodes : ~InConvoy(n, id)
    <2> SUFFICES ASSUME ScanInv, NEW n \in Nodes, NEW id, InConvoy(n, id)
                 PROVE  id \in convoys
      OBVIOUS
    <2>1. PICK m \in Nodes : pr[m].cell # 0 /\ pr[m].adv = id
      BY ConvoyFounded DEF InConvoy
    <2> QED
      BY <2>1 DEF ScanInv, CellsInv
  <1> QED
    BY <1>1, ScanInvariance, PTL DEF NewConvoyIsEmpty
-----------------------------------------------------------------------------
(* The refinement.                                                         *)

\* The images of the variables of Convoys.
AbsStatus == [n \in Nodes |-> StatusOf(n)]
AbsServes == [n \in Nodes |-> pr[n].cell]
AbsManager == [n \in Nodes |-> pr[n].manager]
AbsConvoy == [n \in Nodes |-> pr[n].convoy]
AbsAttached == [n \in Nodes |-> pr[n].master]

\* A step that changes no image is a stutter of Convoys.
LEMMA Stutters ==
  ASSUME \A n \in Nodes : /\ StatusOf(n)' = StatusOf(n)
                          /\ pr'[n].cell = pr[n].cell
                          /\ pr'[n].manager = pr[n].manager
                          /\ pr'[n].convoy = pr[n].convoy
                          /\ pr'[n].master = pr[n].master
  PROVE  UNCHANGED Abstract!absVars
  <1>1. AbsStatus' = AbsStatus
    BY DEF AbsStatus
  <1>2. /\ AbsServes' = AbsServes /\ AbsManager' = AbsManager
        /\ AbsConvoy' = AbsConvoy /\ AbsAttached' = AbsAttached
    BY DEF AbsServes, AbsManager, AbsConvoy, AbsAttached
  <1> QED
    BY <1>1, <1>2 DEF Abstract!absVars, AbsStatus, AbsServes, AbsManager,
                      AbsConvoy, AbsAttached

\* The initial states are initial states of Convoys.
LEMMA RefinesInit == Init => Abstract!Init
  <1> SUFFICES ASSUME Init PROVE Abstract!Init
    OBVIOUS
  <1>1. \A n \in Nodes : Fresh(pr[n]) /\ phase[n] = "absent"
    BY DEF Init, Fresh
  <1>2. \A n \in Nodes : /\ pr[n].cell = 0 /\ pr[n].manager = 0
                         /\ pr[n].convoy = 0 /\ pr[n].master = 0
    BY <1>1, FreshFields
  <1>3. \A n \in Nodes : StatusOf(n) = "absent"
    BY <1>1 DEF StatusOf
  <1> QED
    BY <1>2, <1>3 DEF Abstract!Init
\* A station that enters the road enters in Convoys.
LEMMA InitializeRefines ==
  ASSUME ScanInv, NEW n \in Nodes, Initialize(n)
  PROVE  Abstract!Enter(n)
  <1>1. /\ phase[n] = "absent" /\ phase' = [phase EXCEPT ![n] = "scanning"]
        /\ pr' = [pr EXCEPT ![n] = NewUe("MEMBER", 0)]
    BY DEF Initialize
  <1>2. pr \in [Nodes -> Device] /\ phase \in [Nodes -> Phases]
    BY DEF ScanInv, IInv, TypeOK
  <1>3. pr[n] = NewUe("MEMBER", 0)
    BY <1>1 DEF ScanInv, DevicesInv, Fresh
  <1>4. pr' = pr
    BY <1>1, <1>2, <1>3
  <1>5. phase'[n] = "scanning" /\ \A m \in Nodes : m # n => phase'[m] = phase[m]
    BY <1>1, <1>2
  <1>6. /\ StatusOf(n) = "absent" /\ StatusOf(n)' = "scanning"
        /\ \A m \in Nodes : m # n => StatusOf(m)' = StatusOf(m)
    BY <1>1, <1>4, <1>5 DEF StatusOf
  <1>7. AbsStatus' = [AbsStatus EXCEPT ![n] = "scanning"]
    BY <1>6 DEF AbsStatus
  <1> QED
    BY <1>4, <1>6, <1>7 DEF Abstract!Enter, AbsStatus

\* A station that leaves departs in Convoys.
LEMMA LeaveRefines ==
  ASSUME ScanInv, NEW n \in Nodes, Leave(n)
  PROVE  Abstract!Depart(n)
  <1>1. OnRoad(n) /\ phase' = [phase EXCEPT ![n] = "gone"] /\ pr' = pr
    BY DEF Leave
  <1>2. phase \in [Nodes -> Phases]
    BY DEF ScanInv, IInv, TypeOK
  <1>3. phase'[n] = "gone" /\ \A m \in Nodes : m # n => phase'[m] = phase[m]
    BY <1>1, <1>2
  <1>4. /\ StatusOf(n) \in {"scanning", "manager", "member"}
        /\ StatusOf(n)' = "gone"
        /\ \A m \in Nodes : m # n => StatusOf(m)' = StatusOf(m)
    BY <1>1, <1>3 DEF StatusOf, OnRoad
  <1>5. AbsStatus' = [AbsStatus EXCEPT ![n] = "gone"]
    BY <1>4 DEF AbsStatus
  <1> QED
    BY <1>1, <1>4, <1>5 DEF Abstract!Depart, AbsStatus

\* A scan that joins is a join in Convoys.
LEMMA JoinRefines ==
  ASSUME ScanInv, NEW n \in Nodes, NEW m \in Nodes, pr[m].cell # 0,
         Direction[m] = Direction[n], Joins(n, pr[m].adv, pr[m].cell)
  PROVE  Abstract!Join(n, m)
  <1> DEFINE d == JoinedCluster(pr[n], pr[m].adv, pr[m].cell)
  <1>1. /\ phase[n] = "scanning" /\ phase' = [phase EXCEPT ![n] = "settled"]
        /\ pr' = [pr EXCEPT ![n] = d]
    BY DEF Joins
  <1>2. pr \in [Nodes -> Device] /\ phase \in [Nodes -> Phases]
    BY DEF ScanInv, IInv, TypeOK
  <1>3. /\ Fresh(pr[n]) /\ MasterShape(pr[m])
    BY <1>1, OpenedIsMaster DEF ScanInv, DevicesInv
  <1>4. /\ pr[m].adv \in Nat \ {0} /\ pr[m].cell \in Nat \ {0}
        /\ pr[m].convoy = pr[m].adv
    BY <1>2, <1>3, MasterFields DEF Device
  <1>5. /\ MemberShape(d) /\ d.manager = pr[m].cell /\ d.convoy = pr[m].convoy
        /\ d.master = 0
    BY <1>3, <1>4, JoinedShape
  <1> HIDE DEF d
  <1>6. d.cell = 0 /\ d.type = "MEMBER"
    BY <1>5 DEF MemberShape
  <1>7. pr[n].cell = 0 /\ pr[n].master = 0
    BY <1>3, FreshFields
  <1>8. /\ pr'[n] = d /\ phase'[n] = "settled"
        /\ \A k \in Nodes : k # n => pr'[k] = pr[k] /\ phase'[k] = phase[k]
    BY <1>1, <1>2
  <1>9. /\ StatusOf(n) = "scanning" /\ StatusOf(n)' = "member"
        /\ \A k \in Nodes : k # n => StatusOf(k)' = StatusOf(k)
    BY <1>1, <1>6, <1>8 DEF StatusOf
  <1>10. /\ AbsStatus' = [AbsStatus EXCEPT ![n] = "member"]
         /\ AbsManager' = [AbsManager EXCEPT ![n] = pr[m].cell]
         /\ AbsConvoy' = [AbsConvoy EXCEPT ![n] = pr[m].convoy]
         /\ AbsServes' = AbsServes /\ AbsAttached' = AbsAttached
    BY <1>5, <1>6, <1>7, <1>8, <1>9
       DEF AbsStatus, AbsManager, AbsConvoy, AbsServes, AbsAttached
  <1> QED
    BY <1>9, <1>10 DEF Abstract!Join, AbsStatus, AbsManager, AbsConvoy,
                       AbsServes, AbsAttached

\* A scan that opens a cell opens one in Convoys, under a fresh id.
LEMMA OpenRefines ==
  ASSUME ScanInv, NEW n \in Nodes, NEW g \in Nat \ {0}, Suitable(n, g),
         Opens(n, g)
  PROVE  Abstract!Open(n, AbsServes'[n], AbsConvoy'[n])
  <1> DEFINE d == NewMaster(enb, g)
  <1>1. /\ phase[n] = "scanning" /\ phase' = [phase EXCEPT ![n] = "settled"]
        /\ pr' = [pr EXCEPT ![n] = d]
    BY DEF Opens
  <1>2. /\ pr \in [Nodes -> Device] /\ phase \in [Nodes -> Phases]
        /\ enb \in Nat \ {0} /\ \A k \in Nodes : pr[k].cell \in Nat
    BY DEF ScanInv, IInv, TypeOK, Device
  <1>3. MasterShape(d) /\ d.cell = enb /\ d.adv = g
    BY <1>2, NewMasterShape
  <1>4. d.type = "MASTER" /\ d.manager = enb /\ d.convoy = g /\ d.master = enb
    BY <1>3, MasterFields
  <1> HIDE DEF d
  <1>5. /\ pr'[n] = d /\ phase'[n] = "settled"
        /\ \A k \in Nodes : k # n => pr'[k] = pr[k] /\ phase'[k] = phase[k]
    BY <1>1, <1>2
  <1>6. /\ StatusOf(n) = "scanning" /\ StatusOf(n)' = "manager"
        /\ \A k \in Nodes : k # n => StatusOf(k)' = StatusOf(k)
    BY <1>1, <1>4, <1>5 DEF StatusOf
  <1>7. \A k \in Nodes : pr[k].cell # enb
    BY <1>2 DEF ScanInv, CellsInv
  <1>8. \/ \A k \in Nodes : pr[k].convoy # g
        \/ \E k \in Nodes :
             pr[k].cell # 0 /\ pr[k].convoy = g /\ Direction[k] = Direction[n]
    <2>1. CASE g \notin convoys
      BY <2>1, ConvoyFounded DEF ScanInv, CellsInv
    <2>2. CASE \E k \in Nodes :
                 pr[k].cell # 0 /\ pr[k].adv = g /\ Direction[k] = Direction[n]
      BY <2>2, OpenedIsMaster, MasterFields DEF ScanInv
    <2> QED
      BY <2>1, <2>2 DEF Suitable
  <1>9. /\ AbsStatus' = [AbsStatus EXCEPT ![n] = "manager"]
        /\ AbsServes' = [AbsServes EXCEPT ![n] = enb]
        /\ AbsManager' = [AbsManager EXCEPT ![n] = enb]
        /\ AbsConvoy' = [AbsConvoy EXCEPT ![n] = g]
        /\ AbsAttached' = [AbsAttached EXCEPT ![n] = enb]
    BY <1>3, <1>4, <1>5, <1>6
       DEF AbsStatus, AbsManager, AbsConvoy, AbsServes, AbsAttached
  <1>10. AbsServes'[n] = enb /\ AbsConvoy'[n] = g
    BY <1>3, <1>4, <1>5 DEF AbsServes, AbsConvoy
  <1>11. enb # 0 /\ g # 0
    BY <1>2
  <1> DEFINE c == AbsServes'[n]
             v == AbsConvoy'[n]
  <1>12. c = enb /\ v = g
    BY <1>10
  <1> HIDE DEF c, v
  <1>13. Abstract!Open(n, c, v)
    BY <1>6, <1>7, <1>8, <1>9, <1>11, <1>12
       DEF Abstract!Open, AbsStatus, AbsManager, AbsConvoy, AbsServes,
           AbsAttached
  <1> QED
    BY <1>13 DEF c, v
\* A completed handover is an attachment in Convoys, the other events of a NIC
\* are stutters.
LEMMA NicRefines ==
  ASSUME ScanInv, NEW n \in Nodes, NEW i \in Interfaces,
         TriggerHandover(n, i) \/ DoHandover(n, i) \/ UnicastStatus(n, i)
  PROVE  \/ UNCHANGED Abstract!absVars
         \/ \E m \in Nodes : Abstract!Attach(n, m)
  <1>1. i = "PRIMARY" /\ Dev(n, i) = pr[n]
    BY NicIsMember
  <1>2. pr[n] \in Device /\ MemberShape(pr[n])
    BY NicIsMember
  <1>3. pr \in [Nodes -> Device]
    BY DEF ScanInv, IInv, TypeOK
  <1>4. ASSUME NEW d, SetDevice(n, "PRIMARY", d), MemberShape(d),
               d.manager = pr[n].manager, d.convoy = pr[n].convoy
        PROVE  /\ pr'[n] = d /\ \A m \in Nodes : m # n => pr'[m] = pr[m]
               /\ \A m \in Nodes : /\ StatusOf(m)' = StatusOf(m)
                                    /\ pr'[m].cell = pr[m].cell
                                    /\ pr'[m].manager = pr[m].manager
                                    /\ pr'[m].convoy = pr[m].convoy
    <2>1. pr' = [pr EXCEPT ![n] = d] /\ phase' = phase
      BY <1>4 DEF SetDevice
    <2>2. pr'[n] = d /\ \A m \in Nodes : m # n => pr'[m] = pr[m]
      BY <1>3, <2>1
    <2>3. d.cell = pr[n].cell /\ d.type = pr[n].type
      BY <1>2, <1>4 DEF MemberShape
    <2> QED
      BY <1>4, <2>1, <2>2, <2>3 DEF StatusOf
  <1>5. ASSUME NEW why, Abort(why)
        PROVE  UNCHANGED Abstract!absVars
    <2>1. pr' = pr /\ phase' = phase
      BY <1>5 DEF Abort
    <2> QED
      BY <2>1, Stutters DEF StatusOf
  <1>6. ASSUME NEW d, SetDevice(n, "PRIMARY", d), MemberShape(d),
               d.manager = pr[n].manager, d.convoy = pr[n].convoy,
               d.master = pr[n].master
        PROVE  UNCHANGED Abstract!absVars
    BY <1>4, <1>6, Stutters
  <1>7. CASE TriggerHandover(n, i)
    <2>1. pr[n].starter
      BY <1>1, <1>7 DEF TriggerHandover
    <2>2. (\E why : Abort(why)) \/ SetDevice(n, "PRIMARY", Triggered(pr[n]))
      BY <1>1, <1>7 DEF TriggerHandover
    <2> QED
      BY <1>2, <1>5, <1>6, <2>1, <2>2, TriggeredShape
  <1>8. CASE UnicastStatus(n, i)
    <2>1. (\E why : Abort(why)) \/ SetDevice(n, "PRIMARY", Expired(pr[n]))
      BY <1>1, <1>8 DEF UnicastStatus
    <2> QED
      BY <1>2, <1>5, <1>6, <2>1, ExpiredShape
  <1>9. CASE DoHandover(n, i)
    <2> DEFINE e == Completed(pr[n])
    <2>1. pr[n].triggers > 0 /\ OnRoad(n)
      BY <1>1, <1>9 DEF DoHandover
    <2>2. \/ \E why : Abort(why)
          \/ ~Gone(pr[n].candidate) /\ SetDevice(n, "PRIMARY", e)
      BY <1>1, <1>9 DEF DoHandover
    <2>3. CASE ~Gone(pr[n].candidate) /\ SetDevice(n, "PRIMARY", e)
      <3>1. /\ MemberShape(e) /\ e.manager = pr[n].manager
            /\ e.convoy = pr[n].convoy /\ pr[n].master = 0
            /\ e.master = pr[n].manager
        BY <1>2, <2>1, CompletedShape
      <3> HIDE DEF e
      <3>2. /\ pr[n].candidate = pr[n].manager /\ pr[n].manager # 0
            /\ pr[n].type = "MEMBER"
        BY <1>2 DEF MemberShape
      <3>3. PICK m \in Nodes : IsMaster(m) /\ pr[m].cell = pr[n].manager
        BY <2>3, <3>2 DEF Gone, LiveCells
      <3>4. phase[m] = "settled"
        BY <3>2, <3>3, OpenedIsMaster DEF IsMaster, OnRoad, ScanInv
      <3>5. phase[n] = "settled"
        <4>1. ~Fresh(pr[n])
          BY <3>2, FreshFields
        <4> QED
          BY <2>1, <4>1 DEF OnRoad, ScanInv, DevicesInv
      <3>6. StatusOf(n) = "member" /\ StatusOf(m) = "manager"
        BY <3>2, <3>3, <3>4, <3>5 DEF StatusOf, IsMaster
      <3>7. AbsAttached' = [AbsAttached EXCEPT ![n] = pr[n].manager]
        <4>1. pr'[n] = e /\ \A k \in Nodes : k # n => pr'[k] = pr[k]
          BY <1>4, <2>3, <3>1
        <4>2. /\ pr'[n].master = pr[n].manager
              /\ \A k \in Nodes : k # n => pr'[k].master = pr[k].master
          BY <3>1, <4>1
        <4> QED
          BY <4>2 DEF AbsAttached
      <3>8. /\ AbsStatus' = AbsStatus /\ AbsServes' = AbsServes
            /\ AbsManager' = AbsManager /\ AbsConvoy' = AbsConvoy
        BY <1>4, <2>3, <3>1 DEF AbsStatus, AbsServes, AbsManager, AbsConvoy
      <3>9. Abstract!Attach(n, m)
        BY <3>1, <3>3, <3>6, <3>7, <3>8
           DEF Abstract!Attach, AbsStatus, AbsManager, AbsConvoy, AbsServes,
               AbsAttached
      <3> QED
        BY <3>9
    <2> QED
      BY <1>5, <2>2, <2>3
  <1> QED
    BY <1>7, <1>8, <1>9

\* Every step is a step of Convoys or a stutter.
LEMMA RefinesNext ==
  ASSUME MaxOrders = 0
  PROVE  ScanInv /\ [Next]_vars => [Abstract!Next]_(Abstract!absVars)
  <1> SUFFICES ASSUME ScanInv, [Next]_vars
               PROVE  Abstract!Next \/ UNCHANGED Abstract!absVars
    OBVIOUS
  <1>1. CASE UNCHANGED vars
    <2>1. pr' = pr /\ phase' = phase
      BY <1>1 DEF vars
    <2> QED
      BY <2>1, Stutters DEF StatusOf
  <1>2. CASE Next
    <2>1. PICK n \in Nodes : StationStep(n)
      BY <1>2 DEF Next
    <2>2. CASE Initialize(n)
      BY <2>2, InitializeRefines DEF Abstract!Next
    <2>3. CASE \E m \in Nodes, full \in AdvertisedFull, rssi \in Rssi :
                 ReceiveBroadcast(n, m, full, rssi)
      <3>1. pr' = pr /\ phase' = phase
        BY <2>3 DEF ReceiveBroadcast
      <3> QED
        BY <3>1, Stutters DEF StatusOf
    <2>4. CASE HandleBroadcastScanEvent(n)
      <3>1. CASE \E m \in Nodes : /\ pr[m].cell # 0
                                  /\ Direction[m] = Direction[n]
                                  /\ Joins(n, pr[m].adv, pr[m].cell)
        BY <3>1, JoinRefines DEF Abstract!Next
      <3>2. CASE \E g \in Nat \ {0} : Suitable(n, g) /\ Opens(n, g)
        <4>1. Abstract!Open(n, AbsServes'[n], AbsConvoy'[n])
          BY <3>2, OpenRefines
        <4> QED
          BY <4>1 DEF Abstract!Next, AbsServes, AbsConvoy
      <3> QED
        BY <2>4, <3>1, <3>2, ScanOutcome
    <2>5. CASE \E c \in Commands : Orchestrate(n, c)
      <3>1. orders < MaxOrders /\ orders \in 0..MaxOrders
        BY <2>5 DEF Orchestrate, ScanInv, IInv, TypeOK
      <3> QED
        BY <3>1
    <2>6. CASE Leave(n)
      BY <2>6, LeaveRefines DEF Abstract!Next
    <2>7. CASE \E i \in Interfaces :
                 TriggerHandover(n, i) \/ DoHandover(n, i) \/ UnicastStatus(n, i)
      BY <2>7, NicRefines DEF Abstract!Next
    <2> QED
      BY <2>1, <2>2, <2>3, <2>4, <2>5, <2>6, <2>7 DEF StationStep
  <1> QED
    BY <1>1, <1>2

\* Membership without orders implements Convoys, for any number of stations:
\* broadcast caches, registries and two-step handovers add nothing but failures
\* that end the simulation.
THEOREM Refinement ==
  ASSUME MaxOrders = 0
  PROVE  Spec => ImplementsConvoys
  BY RefinesInit, RefinesNext, ScanInvariance, PTL
     DEF Spec, ImplementsConvoys, Abstract!Spec
=============================================================================
