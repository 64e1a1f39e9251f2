------------------------------ MODULE Routing -------------------------------
(***************************************************************************)
(* RoutingControl on top of Membership, and the publisher lists it routes  *)
(* by.  RSUs put themselves on a publisher list; lists spread in the       *)
(* broadcasts of masters and in the status frames members send to their    *)
(* master.  Vehicles subscribe to publishers, report to the backend        *)
(* through them and negotiate maneuvers with vehicles they learnt of from  *)
(* publications.  Every packet goes through forwardToNetwork, which finds  *)
(* the destination's cluster with the binder and knows three routes: to a  *)
(* station of the own cell, to the own manager, to the gateway's manager.  *)
(*                                                                         *)
(* No orders are given: MaxOrders is 0 (Backend shows why none arrives).   *)
(***************************************************************************)
EXTENDS Membership

CONSTANTS
  Rsus,        \* stations of type RSU: they publish, and never leave
  MaxPackets,  \* bound: packets in flight when a station sends more
  MaxHops      \* bound: hops of a packet

ASSUME RsusAssumption == Rsus \subseteq Nodes
ASSUME RoutingBounds == MaxPackets \in Nat /\ MaxHops \in Nat
ASSUME NoOrders == MaxOrders = 0

VARIABLES
  publishers,  \* MembershipControl::_publishers
  onair,       \* LtePhyBase::_publishers_for_transmission of the primary NIC
  partners,    \* addresses of vehicles in the twin of a station: at an RSU, of
               \* all that have subscribed
  net          \* packets on their way

routing == <<publishers, onair, partners, net>>

rvars == <<vars, routing>>

-----------------------------------------------------------------------------
(* Addresses.  A cell's id is its own next hop for good.  A UE device is   *)
(* named after its station; the binder keeps its entry when it is deleted. *)

Cell(c) == <<"cell", c>>
Ue(n) == <<"ue", n>>

\* MembershipControl::getAddressOfPrimaryDevice
PrimaryAddress(n) ==
  IF pr[n].type = "MASTER" THEN Cell(pr[n].cell) ELSE Ue(n)

\* Binder::getNextHop: for a UE the master of its NIC, 0 until it is attached;
\* a UE that a master replaced was never attached
GetNextHop(a) ==
  IF a[1] = "cell" THEN a[2]
  ELSE IF pr[a[2]].type = "MASTER" THEN 0 ELSE pr[a[2]].master

\* The station whose module Binder::getOmnetId and getModule find, if any
Host(a) == {n \in Nodes : OnRoad(n) /\ PrimaryAddress(n) = a}

-----------------------------------------------------------------------------
(* The publisher list.                                                     *)

Entry(n, d) ==
  [name |-> n, id |-> IF d.type = "MASTER" THEN Cell(d.cell) ELSE Ue(n),
   cluster |-> d.manager]

\* Mutant: the list is updated while the old device is still in place
UpdatePublishers_EarlyAddress(n, d) ==
  LET own == IF n \in Rsus
             THEN {[Entry(n, d) EXCEPT !.id = PrimaryAddress(n)]} ELSE {}
      list == {e \in publishers[n] : own = {} \/ e.name # n} \union own
  IN /\ publishers' = [publishers EXCEPT ![n] = list]
     /\ onair' = [onair EXCEPT ![n] = list]

\* Mutant: vehicles put themselves on the list too
UpdatePublishers_AnyStation(n, d) ==
  LET list == {e \in publishers[n] : e.name # n} \union {Entry(n, d)}
  IN /\ publishers' = [publishers EXCEPT ![n] = list]
     /\ onair' = [onair EXCEPT ![n] = list]

\* MembershipControl::updatePublishers with primary device d
UpdatePublishers(n, d) ==
  LET own == IF n \in Rsus THEN {Entry(n, d)} ELSE {}
      list == {e \in publishers[n] : own = {} \/ e.name # n} \union own
  IN /\ publishers' = [publishers EXCEPT ![n] = list]
     /\ onair' = [onair EXCEPT ![n] = list]

\* receiveSignal: entries replace those of the same name, and the cluster is
\* the one the binder gives now
Merged(n, list) ==
  {e \in publishers[n] : \A x \in list : x.name # e.name}
    \union {[x EXCEPT !.cluster = GetNextHop(x.id)] : x \in list}

HearBroadcast(n, m, full, rssi) ==
  /\ ReceiveBroadcast(n, m, full, rssi)
  /\ publishers' = IF rssi >= MinRSSI
                   THEN [publishers EXCEPT ![n] = Merged(n, onair[m])]
                   ELSE publishers
  /\ UNCHANGED <<onair, partners, net>>

\* Opening a cell updates the list, joining one does not
Scan(n) ==
  /\ HandleBroadcastScanEvent(n)
  /\ IF pr'[n].type = "MASTER" THEN UpdatePublishers(n, pr'[n])
                               ELSE UNCHANGED <<publishers, onair>>
  /\ UNCHANGED <<partners, net>>

PublisherUpdate(n) ==
  /\ Running /\ phase[n] = "settled"
  /\ UpdatePublishers(n, pr[n])
  /\ UNCHANGED <<vars, partners, net>>

\* Mutant: the status goes to the manager that was joined, at once
DeliverStatus_Early(n, m) ==
  /\ Running /\ OnRoad(n) /\ IsMaster(m)
  /\ pr[n].timers > 0
  /\ pr[m].cell = pr[n].manager
  /\ publishers' = [publishers EXCEPT ![m] = Merged(m, onair[n])]
  /\ UNCHANGED <<vars, onair, partners, net>>

\* LtePhyEnb::handleBroadcastPkt: the status of n reaches its master m, at a
\* strength above the threshold.  What it says of clusters, a master never reads
DeliverStatus(n, m) ==
  /\ Running /\ OnRoad(n) /\ IsMaster(m)
  /\ TimerDue(pr[n]) /\ ~pr[n].held
  /\ pr[m].cell = pr[n].master
  /\ publishers' = [publishers EXCEPT ![m] = Merged(m, onair[n])]
  /\ UNCHANGED <<vars, onair, partners, net>>

-----------------------------------------------------------------------------
(* forwardToNetwork.  "none" is a packet without a route: it is deleted    *)
(* and then used.  A packet from an application has hop 0, which has no    *)
(* module, so that the simulation ends there at the latest; a relayed one  *)
(* would still carry the id of its last hop (RelayHasRoute: there is none).*)

\* Mutant: the cluster is compared with where the NIC is
ClusterMatch_Nic(n, cluster) ==
  IF cluster = pr[n].master THEN pr[n].type
  ELSE IF cluster = gw[n].manager THEN "GATEWAY" ELSE "UNKNOWN"

\* MembershipControl::clusterMatch
ClusterMatch(n, cluster) ==
  IF cluster = pr[n].manager THEN pr[n].type
  ELSE IF cluster = gw[n].manager THEN "GATEWAY" ELSE "UNKNOWN"

\* Mutant: a manager sends what is for its own cell to itself
NextHopOf_Self(n, dst) ==
  LET match == ClusterMatch(n, GetNextHop(dst))
  IN CASE match \in {"MASTER", "MEMBER"} -> Cell(pr[n].manager)
       [] match = "GATEWAY" -> Cell(gw[n].manager)
       [] match = "UNKNOWN" -> <<"none", 0>>

\* Mutant: a member leaves the question of the route to its manager
NextHopOf_Uphill(n, dst) ==
  LET match == ClusterMatch(n, GetNextHop(dst))
  IN CASE match = "MASTER" -> dst
       [] match = "MEMBER" -> Cell(pr[n].manager)
       [] match = "GATEWAY" -> Cell(gw[n].manager)
       [] match = "UNKNOWN" -> IF pr[n].type = "MEMBER" THEN Cell(pr[n].manager)
                               ELSE <<"none", 0>>

\* The hop to which n sends a packet for dst
NextHopOf(n, dst) ==
  LET match == ClusterMatch(n, GetNextHop(dst))
  IN CASE match = "MASTER" -> dst
       [] match = "MEMBER" -> Cell(pr[n].manager)
       [] match = "GATEWAY" -> Cell(gw[n].manager)
       [] match = "UNKNOWN" -> <<"none", 0>>

HasRoute(n, dst) == NextHopOf(n, dst)[1] # "none"

\* Mutant: a UE sends whether or not it has a master
Transmits_Always(n) == TRUE

\* IP2Nic::fromIpUe: a UE without a master drops what its IP layer sends, one
\* in handover holds it
Transmits(n) == pr[n].type = "MASTER" \/ pr[n].master # 0 \/ pr[n].held

Routed(n, p) ==
  [p EXCEPT !.at = NextHopOf(n, p.dst), !.by = n, !.hops = @ + 1]

UsedAfterDelete(p) ==
  IF p.hops > 0 THEN "relay without a route"
  ELSE IF p.kind = "report" THEN "report without a route"
  ELSE "packet without a route"

\* Station n forwards the packets ps and was given the packets of old
ForwardToNetwork(n, ps, old) ==
  \/ /\ \E p \in ps : ~HasRoute(n, p.dst) /\ Abort(UsedAfterDelete(p))
     /\ net' = net
  \/ /\ \E p \in ps :
          HasRoute(n, p.dst) /\ Host(NextHopOf(n, p.dst)) = {}
     /\ Abort("hop has no module")
     /\ net' = net
  \/ /\ \A p \in ps :
          HasRoute(n, p.dst) /\ Host(NextHopOf(n, p.dst)) # {}
     /\ net' = (net \ old) \union
                 (IF Transmits(n) THEN {Routed(n, p) : p \in ps} ELSE {})
     /\ \A p \in ps : p.hops < MaxHops
     /\ UNCHANGED vars

NewPacket(kind, dst, load) ==
  [kind |-> kind, dst |-> dst, load |-> load, at |-> dst, by |-> dst[2],
   hops |-> 0]

SameDirection(n) == {e \in publishers[n] : Direction[e.name] = Direction[n]}

InCluster(n) == {e \in SameDirection(n) : e.cluster = pr[n].manager}

Originate(n, packets) ==
  /\ Running /\ phase[n] = "settled"
  /\ packets # {} /\ Cardinality(net) < MaxPackets
  /\ ForwardToNetwork(n, packets, {})
  /\ UNCHANGED <<publishers, onair, partners>>

\* A vehicle that is not localized subscribes in its cluster, one that is to
\* the publishers whose field of view it touches
MsgHandlerSubscriber(v) ==
  /\ v \notin Rsus
  /\ \E targets \in {InCluster(v)} \union SUBSET SameDirection(v) :
       Originate(v, {NewPacket("sub", e.id, {PrimaryAddress(v)}) : e \in targets})

\* The publication goes to the subscribers: SubscriberStore::checkSubscriberExpiry
\* leaves any part of those who have subscribed.  It lists objects with the
\* addresses the twin has, also of those whose subscription has expired.  The
\* copy for the backend leaves by wire
MsgHandlerPublisher(r) ==
  /\ r \in Rsus
  /\ \E subs \in SUBSET partners[r] :
       Originate(r, {NewPacket("pub", a, partners[r]) : a \in subs})

MsgHandlerManeuver(v, a) ==
  /\ v \notin Rsus /\ a \in partners[v]
  /\ Originate(v, {NewPacket("man", a, {})})

\* A vehicle's report, to the publishers of its cluster or else to all of them;
\* an RSU sends its own straight to the backend
MsgHandlerMemberReport(v) ==
  /\ v \notin Rsus
  /\ LET targets == IF InCluster(v) # {} THEN InCluster(v) ELSE SameDirection(v)
     IN Originate(v, {NewPacket("report", e.id, {}) : e \in targets})

-----------------------------------------------------------------------------
(* Arrival.  What a UE sent while its handover was under way leaves it     *)
(* when that is done.                                                      *)

Arrived(n, p) ==
  Running /\ n \in Host(p.at) /\ ~pr[p.by].held

\* An RSU takes every report for the backend, whatever its destination
ForBackend(n, p) == n \in Rsus /\ p.kind = "report"

\* forwardToBackend, by wire
ReportToBackend(n, p) ==
  /\ Arrived(n, p)
  /\ ForBackend(n, p)
  /\ net' = net \ {p}
  /\ UNCHANGED <<vars, publishers, onair, partners>>

\* receiveFromNetwork, own address: up to the application it is for.  The address
\* of a subscriber goes into the RSU's twin too, and stays there
Deliver(n, p) ==
  /\ Arrived(n, p)
  /\ ~ForBackend(n, p)
  /\ p.dst = PrimaryAddress(n)
  /\ partners' = IF p.kind \in {"sub", "pub"}
                 THEN [partners EXCEPT ![n] = @ \union (p.load \ {p.dst})]
                 ELSE partners
  /\ net' = net \ {p}
  /\ UNCHANGED <<vars, publishers, onair>>

\* receiveFromNetwork, another address: back to the network
Relay(n, p) ==
  /\ Arrived(n, p)
  /\ ~ForBackend(n, p)
  /\ p.dst # PrimaryAddress(n)
  /\ ForwardToNetwork(n, {p}, {p})
  /\ UNCHANGED <<publishers, onair, partners>>

\* The radio loses a packet
Lose(p) ==
  /\ Running
  /\ net' = net \ {p}
  /\ UNCHANGED <<vars, publishers, onair, partners>>

\* The stores and lists of a station go with it
VehicleLeaves(v) ==
  /\ v \notin Rsus
  /\ Leave(v)
  /\ publishers' = [publishers EXCEPT ![v] = {}]
  /\ onair' = [onair EXCEPT ![v] = {}]
  /\ partners' = [partners EXCEPT ![v] = {}]
  /\ UNCHANGED net

-----------------------------------------------------------------------------
RoutingInit ==
  /\ Init
  /\ publishers = [n \in Nodes |-> {}]
  /\ onair = [n \in Nodes |-> {}]
  /\ partners = [n \in Nodes |-> {}]
  /\ net = {}

\* The steps of Membership, with what they do to the lists
MembershipStep(n) ==
  \/ Initialize(n) /\ UNCHANGED routing
  \/ \E m \in Nodes, full \in AdvertisedFull, rssi \in Rssi :
       HearBroadcast(n, m, full, rssi)
  \/ Scan(n)
  \/ VehicleLeaves(n)
  \/ \E i \in Interfaces :
       /\ TriggerHandover(n, i) \/ DoHandover(n, i) \/ UnicastStatus(n, i)
       /\ UNCHANGED routing

RoutingStep(n) ==
  \/ PublisherUpdate(n)
  \/ \E m \in Nodes : DeliverStatus(n, m)
  \/ MsgHandlerSubscriber(n)
  \/ MsgHandlerPublisher(n)
  \/ \E a \in partners[n] : MsgHandlerManeuver(n, a)
  \/ MsgHandlerMemberReport(n)
  \/ \E p \in net : ReportToBackend(n, p) \/ Deliver(n, p) \/ Relay(n, p)

RoutingNext ==
  \/ \E n \in Nodes : MembershipStep(n) \/ RoutingStep(n)
  \/ \E p \in net : Lose(p)

RoutingSpec == RoutingInit /\ [][RoutingNext]_rvars
-----------------------------------------------------------------------------
(* Properties.                                                             *)

Addresses == ({"cell"} \X Nat) \union ({"ue"} \X Nodes)

Entries == [name : Rsus, id : Addresses, cluster : Nat]

Packets ==
  [kind : {"sub", "pub", "man", "report"}, dst : Addresses,
   load : SUBSET Addresses, at : Addresses, by : Nodes, hops : Nat]

\* Lists, stores and packets keep their types: only RSUs are ever listed.
RoutingTypeOK ==
  /\ publishers \in [Nodes -> SUBSET Entries]
  /\ onair \in [Nodes -> SUBSET Entries]
  /\ partners \in [Nodes -> SUBSET Addresses]
  /\ net \in SUBSET Packets

\* Although entries are passed on from list to list and never expire, the
\* address under which anybody lists an RSU is the address it has now: an RSU
\* lists itself only once its device is the one it keeps.
PublisherEntriesCurrent ==
  \A n \in Nodes : \A e \in publishers[n] \union onair[n] :
    e.id = PrimaryAddress(e.name)

\* The cluster a station noted for another's RSU entry, when it heard of it, is
\* still the cluster in which the binder finds that RSU: only the status of an
\* attached member takes its entry out of its own list.
KnownPublisherAttached ==
  \A n \in Nodes : \A e \in publishers[n] :
    e.name # n => e.cluster # 0 /\ e.cluster = GetNextHop(e.id)

\* A publication always has a route: whoever could subscribe at a station, and
\* whoever is listed to others as a partner, is attached in the same cluster.
SubscribersInCluster ==
  \A n \in Nodes : \A a \in partners[n] :
    GetNextHop(a) = pr[n].manager

\* Forwarding ends: a packet is with its destination after at most two hops,
\* whatever joins and departures happen under way.
TwoHops ==
  \A p \in net : p.hops =< 2 /\ (p.hops = 2 => p.at = p.dst)

\* A packet that a manager passes on always has a route there: the cluster that
\* the sender looked up in the binder is still the destination's.
RelayHasRoute == failure # "relay without a route"

\* A hop without a module is a station that has left, never the cell 0 of a
\* device that is not attached yet.
MissingHopNeedsDeparture ==
  failure = "hop has no module" => \E n \in Nodes : phase[n] = "gone"

\* As long as there is one cluster, no packet is without a route.
OneClusterRoutes ==
  failure \in {"packet without a route", "report without a route"}
    => \E n, m \in Nodes :
         pr[n].cell # 0 /\ pr[m].cell # 0 /\ pr[n].cell # pr[m].cell

\* "If there are no publishers in the same cluster, it is sent to all
\* publishers serving the same convoy direction": a member report is sent,
\* whatever cluster the publisher it is for belongs to.
SentToAllPublishers == failure # "report without a route"
=============================================================================
