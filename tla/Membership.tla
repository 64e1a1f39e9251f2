----------------------------- MODULE Membership -----------------------------
(***************************************************************************)
(* Convoy membership: the MembershipControl agent of every station, its    *)
(* two ClusterDevices (primary and gateway), the cell attachment of their  *)
(* NICs (NRPhyUe) and the convoy registry of the Binder.                   *)
(*                                                                         *)
(* A station enters the road, listens to cluster broadcasts, and when its  *)
(* scan event fires joins the strongest cluster that moves its way, opens  *)
(* a cluster in that convoy, or opens a convoy.  The NIC follows later: an *)
(* attachment is a start event and, after a latency, a completion event.   *)
(* The orchestrator may then order another role, convoy or cluster, and a  *)
(* station leaves when its vehicle does.                                   *)
(*                                                                         *)
(* The simulation kernel runs one event handler at a time, so each handler *)
(* is one action and the interleaving is between events.                   *)
(***************************************************************************)
EXTENDS Integers, FiniteSets

CONSTANTS
  Nodes,           \* stations (vehicles and RSUs) with a MembershipControl
  Direction,       \* Direction[n]: the convoyDirection parameter of n
  Rssi,            \* signal strengths with which a broadcast may arrive
  MinRSSI,         \* minRSSIClusterManager
  AdvertisedFull,  \* <<full_convoy, full_cluster>> pairs a broadcast may carry
  Commands,        \* orchestration orders: role, convoy, cluster, gw cluster
  MaxOrders,       \* bound: orchestration orders handled in a behaviour
  UnicastEnabled   \* convoyCtrlUnicastInterval # 0

Roles == {"UNDEFINED", "MANAGER", "MEMBER", "GATEWAY"}

ASSUME DirectionAssumption == Direction \in [Nodes -> {"TOP", "DOWN"}]
ASSUME RssiAssumption == Rssi \subseteq Int /\ MinRSSI \in Int
ASSUME FullAssumption == AdvertisedFull \subseteq BOOLEAN \X BOOLEAN
ASSUME CommandsAssumption ==
  Commands \subseteq [role : Roles, convoy : Nat, cluster : Nat, gw : Nat]
ASSUME BoundsAssumption == MaxOrders \in Nat /\ UnicastEnabled \in BOOLEAN

VARIABLES
  phase,     \* life of a station: absent, scanning, settled, gone
  role,      \* MembershipControl::_role
  ctl,       \* MembershipControl::_control_state
  pr, gw,    \* the primary and the gateway ClusterDevice of a station
  bcasts,    \* MembershipControl::_broadcasts_received
  enb,       \* Binder::macNodeIdCounter_[0], the next base station id
  convoys,   \* Binder::_id_list_convoys
  clusters,  \* Binder::_cluster_map, as pairs <<convoy, cell>>
  failure,   \* the assertion or dereference that ended the simulation
  orders     \* orchestration orders handled so far

vars == <<phase, role, ctl, pr, gw, bcasts, enb, convoys, clusters, failure,
          orders>>

-----------------------------------------------------------------------------
(* Cluster devices.  A device is the ClusterDevice's own idea of where it  *)
(* is (bound, manager, convoy) next to the state of its NIC.  The binder's *)
(* nextHop_ entry of a UE is always its NIC's masterId_ and is not kept    *)
(* apart; UE addresses are abstracted to whether the device still has one. *)

Device ==
  [type : {"MASTER", "MEMBER", "GATEWAY"},
   cell : Nat,         \* id of the cell a master serves, 0 for a UE
   adv : Nat,          \* convoy id in a master's broadcasts
   bound : BOOLEAN,    \* _address # 0
   manager : Nat,      \* _address_manager
   convoy : Nat,       \* _address_convoy
   master : Nat,       \* NIC: masterId_
   candidate : Nat,    \* NIC: candidateMasterId_
   starter : BOOLEAN,  \* NIC: handoverStarter_ is scheduled
   triggers : Nat,     \* NIC: pending handoverTrigger messages
   held : BOOLEAN,     \* Binder::ueHandoverTriggered_ holds this UE
   timers : Nat]       \* NIC: pending convoyCtrlUnicastStarter messages

\* configureAndStart of a UE device: the binder gives it next hop 0
NewUe(type, convoy) ==
  [type |-> type, cell |-> 0, adv |-> 0, bound |-> TRUE, manager |-> 0,
   convoy |-> convoy, master |-> 0, candidate |-> 0, starter |-> FALSE,
   triggers |-> 0, held |-> FALSE, timers |-> 0]

\* configureAndStart of a master: the binder makes it its own next hop
NewMaster(cell, convoy) ==
  [type |-> "MASTER", cell |-> cell, adv |-> convoy, bound |-> TRUE,
   manager |-> cell, convoy |-> convoy, master |-> cell, candidate |-> cell,
   starter |-> FALSE, triggers |-> 0, held |-> FALSE, timers |-> 0]

\* ClusterDevice::detachFromCluster clears the addresses, not the NIC
Detached(d) == [d EXCEPT !.bound = FALSE, !.manager = 0, !.convoy = 0]

\* Mutant: a handover under way is not redirected
AttachToCluster_NoRedirect(d, cluster) ==
  IF d.triggers > 0
  THEN d
  ELSE [d EXCEPT !.candidate = cluster, !.starter = TRUE]

\* NRPhyUe::attachToCluster: a forced handover and one more status timer
AttachToCluster(d, cluster) ==
  [d EXCEPT !.candidate = cluster, !.starter = TRUE,
            !.timers = @ + (IF UnicastEnabled THEN 1 ELSE 0)]

\* Mutant: the convoy address is left as it was
JoinedCluster_KeepsConvoy(d, convoy, cluster) ==
  [AttachToCluster(d, cluster) EXCEPT !.bound = TRUE, !.manager = cluster]

\* ClusterDevice::joinNewCluster: the addresses change before the NIC does
JoinedCluster(d, convoy, cluster) ==
  IF d.type = "MASTER"
  THEN d
  ELSE [AttachToCluster(d, cluster) EXCEPT !.bound = TRUE,
                                           !.manager = cluster,
                                           !.convoy = convoy]

\* Mutant: a removed master does not inform the binder
Registration_None(d) == {}

\* ClusterDevice::remove: what deRegisterCluster takes out of the registry
Registration(d) ==
  IF d.type = "MASTER" THEN {<<d.convoy, d.manager>>} ELSE {}

-----------------------------------------------------------------------------
(* Handlers of MembershipControl as functions on a view: the state of one  *)
(* station together with the binder state its handlers read and write.     *)

View(n) == [role |-> role[n], ctl |-> ctl[n], pr |-> pr[n], gw |-> gw[n],
            enb |-> enb, convoys |-> convoys, clusters |-> clusters]

Apply(n, s) ==
  /\ role' = [role EXCEPT ![n] = s.role]
  /\ ctl' = [ctl EXCEPT ![n] = s.ctl]
  /\ pr' = [pr EXCEPT ![n] = s.pr]
  /\ gw' = [gw EXCEPT ![n] = s.gw]
  /\ enb' = s.enb
  /\ convoys' = s.convoys
  /\ clusters' = s.clusters

\* Binder::getMaxIdConvoy
MaxIdConvoy(ids) ==
  IF ids = {} THEN 0 ELSE CHOOSE c \in ids : \A i \in ids : i =< c

\* Mutant: the old device is removed after the new one took its place
CreateNewCluster_LateRemove(s, convoy) ==
  [s EXCEPT !.pr = NewMaster(s.enb, convoy),
            !.enb = @ + 1,
            !.clusters = @ \ Registration(NewMaster(s.enb, convoy)),
            !.role = "MANAGER",
            !.ctl = "INITIALIZED"]

\* Mutant: the counter of base station ids is not advanced
CreateNewCluster_SameId(s, convoy) ==
  [s EXCEPT !.pr = NewMaster(s.enb, convoy),
            !.clusters = (@ \ Registration(s.pr)) \union {<<convoy, s.enb>>},
            !.role = "MANAGER",
            !.ctl = "INITIALIZED"]

\* The old primary device is removed, a master takes its place
CreateNewCluster(s, convoy) ==
  [s EXCEPT !.pr = NewMaster(s.enb, convoy),
            !.enb = @ + 1,
            !.clusters = (@ \ Registration(s.pr)) \union {<<convoy, s.enb>>},
            !.role = "MANAGER",
            !.ctl = "INITIALIZED"]

\* Mutant: the new convoy is not registered
CreateNewConvoy_Unregistered(s) ==
  CreateNewCluster(s, MaxIdConvoy(s.convoys) + 1)

CreateNewConvoy(s) ==
  LET id == MaxIdConvoy(s.convoys) + 1
  IN CreateNewCluster([s EXCEPT !.convoys = @ \union {id}], id)

\* Mutant: the role is left as it was
JoinGateway_KeepsRole(s, convoy, cluster) ==
  [s EXCEPT !.gw = JoinedCluster(@, convoy, cluster)]

\* joinNewCluster on the gateway interface
JoinGateway(s, convoy, cluster) ==
  [s EXCEPT !.gw = JoinedCluster(@, convoy, cluster), !.role = "GATEWAY"]

\* Mutant: the control state is not updated
JoinPrimary_KeepsState(s, convoy, cluster) ==
  [s EXCEPT !.pr = JoinedCluster(@, convoy, cluster),
            !.role = IF @ = "GATEWAY" THEN "GATEWAY" ELSE "MEMBER"]

\* joinNewCluster on the primary interface
JoinPrimary(s, convoy, cluster) ==
  [s EXCEPT !.pr = JoinedCluster(@, convoy, cluster),
            !.role = IF @ = "GATEWAY" THEN "GATEWAY" ELSE "MEMBER",
            !.ctl = "INITIALIZED"]

\* Mutant: the master is kept
RecreateMember_KeepsMaster(s, convoy) == s

\* A manager that stops being one: its master is replaced by a member device
RecreateMember(s, convoy) ==
  [s EXCEPT !.pr = NewUe("MEMBER", convoy),
            !.clusters = @ \ Registration(s.pr)]

ChangeClusterMembership(s, c) ==
  IF c.role = "MANAGER"
  THEN CreateNewCluster(s, c.convoy)
  ELSE IF c.role = "UNDEFINED"
  THEN s
  ELSE LET viaGw == IF c.role = "GATEWAY"
                    THEN JoinGateway(s, c.convoy, c.gw) ELSE s
           member == IF s.role = "MANAGER"
                     THEN RecreateMember(viaGw, c.convoy) ELSE viaGw
       IN JoinPrimary(member, c.convoy, c.cluster)

DetachDevices(s) ==
  [s EXCEPT !.pr = Detached(@), !.gw = Detached(@)]

HandleOrchestrationMessage(s, c) ==
  IF c.convoy # s.pr.convoy
  THEN LET free == DetachDevices(s)
           opened == IF c.convoy > MaxIdConvoy(free.convoys)
                     THEN CreateNewConvoy(free) ELSE free
       IN ChangeClusterMembership(opened, c)
  ELSE IF c.role # s.role
  THEN ChangeClusterMembership(DetachDevices(s), c)
  ELSE IF c.cluster # s.pr.manager \/ c.gw # s.gw.manager
  THEN ChangeClusterMembership(s, c)
  ELSE s

-----------------------------------------------------------------------------
(* The events of a station.                                                *)

\* The simulation has not been ended by a failure
Running == failure = "none"

OnRoad(n) == phase[n] \in {"scanning", "settled"}

IsMaster(n) == OnRoad(n) /\ pr[n].type = "MASTER"

LiveCells == {pr[n].cell : n \in {m \in Nodes : IsMaster(m)}}

Init ==
  /\ phase = [n \in Nodes |-> "absent"]
  /\ role = [n \in Nodes |-> "UNDEFINED"]
  /\ ctl = [n \in Nodes |-> "INITIALIZING"]
  /\ pr = [n \in Nodes |-> NewUe("MEMBER", 0)]
  /\ gw = [n \in Nodes |-> NewUe("GATEWAY", 0)]
  /\ bcasts = [n \in Nodes |-> {}]
  /\ enb = 1
  /\ convoys = {}
  /\ clusters = {}
  /\ failure = "none"
  /\ orders = 0

\* MembershipControl::initialize: both devices are UEs, one scan is scheduled
Initialize(n) ==
  /\ Running
  /\ phase[n] = "absent"
  /\ phase' = [phase EXCEPT ![n] = "scanning"]
  /\ pr' = [pr EXCEPT ![n] = NewUe("MEMBER", 0)]
  /\ gw' = [gw EXCEPT ![n] = NewUe("GATEWAY", 0)]
  /\ UNCHANGED <<role, ctl, bcasts, enb, convoys, clusters, failure, orders>>

\* LtePhyBase::createConvoyBroadcastMessage, and the strength it is heard with
ConvoyBroadcast(m, full, rssi) ==
  [convoy |-> pr[m].adv, cluster |-> pr[m].cell,
   full_convoy |-> full[1], full_cluster |-> full[2],
   direction |-> Direction[m], rssi |-> rssi]

\* A master's periodic broadcast reaches the primary NIC of n.  The NIC of a
\* master takes only frames addressed to it
ReceiveBroadcast(n, m, full, rssi) ==
  /\ Running
  /\ OnRoad(n)
  /\ pr[n].type = "MEMBER"
  /\ IsMaster(m)
  /\ LET b == ConvoyBroadcast(m, full, rssi)
     IN bcasts' = [bcasts EXCEPT ![n] =
                     {x \in @ : x.cluster # b.cluster} \union {b}]
  /\ UNCHANGED <<phase, role, ctl, pr, gw, enb, convoys, clusters, failure,
                 orders>>

\* Mutant: the direction of a broadcast is not compared
Qualified_AnyDirection(n) == {b \in bcasts[n] : b.rssi >= MinRSSI}

Qualified(n) ==
  {b \in bcasts[n] : b.direction = Direction[n] /\ b.rssi >= MinRSSI}

\* First entries with room in the convoy, in descending order of strength;
\* std::sort leaves entries of equal strength in any order
Candidates(n) ==
  LET open == {b \in Qualified(n) : ~b.full_convoy}
  IN {b \in open : \A x \in open : x.rssi =< b.rssi}

\* Mutant: the scan is scheduled again as it is
ScanDone_Repeats(n, s) ==
  /\ Running
  /\ phase[n] = "scanning"
  /\ Apply(n, s)
  /\ UNCHANGED <<phase, bcasts, failure, orders>>

ScanDone(n, s) ==
  /\ Running
  /\ phase[n] = "scanning"
  /\ phase' = [phase EXCEPT ![n] = "settled"]
  /\ Apply(n, s)
  /\ UNCHANGED <<bcasts, failure, orders>>

ScanJoinsCluster(n) ==
  \E b \in Candidates(n) :
    ~b.full_cluster /\ ScanDone(n, JoinPrimary(View(n), b.convoy, b.cluster))

ScanCreatesCluster(n) ==
  \E b \in Candidates(n) :
    b.full_cluster /\ ScanDone(n, CreateNewCluster(View(n), b.convoy))

ScanCreatesConvoy(n) ==
  Candidates(n) = {} /\ ScanDone(n, CreateNewConvoy(View(n)))

HandleBroadcastScanEvent(n) ==
  ScanJoinsCluster(n) \/ ScanCreatesCluster(n) \/ ScanCreatesConvoy(n)

\* The orchestrator orders only stations that have reported, after their scan
Orchestrate(n, c) ==
  /\ Running
  /\ phase[n] = "settled"
  /\ orders < MaxOrders
  /\ orders' = orders + 1
  /\ Apply(n, HandleOrchestrationMessage(View(n), c))
  /\ UNCHANGED <<phase, bcasts, failure>>

\* Mutant: a manager that leaves takes its convoy out of the binder's list
Leave_DropsConvoy(n) ==
  /\ Running
  /\ OnRoad(n)
  /\ phase' = [phase EXCEPT ![n] = "gone"]
  /\ clusters' = clusters \ Registration(pr[n])
  /\ convoys' = convoys \ {p[1] : p \in Registration(pr[n])}
  /\ bcasts' = [bcasts EXCEPT ![n] = {}]
  /\ UNCHANGED <<role, ctl, pr, gw, enb, failure, orders>>

\* ~MembershipControl: the vehicle has left, both devices are removed
Leave(n) ==
  /\ Running
  /\ OnRoad(n)
  /\ phase' = [phase EXCEPT ![n] = "gone"]
  /\ clusters' = (clusters \ Registration(pr[n])) \ Registration(gw[n])
  /\ bcasts' = [bcasts EXCEPT ![n] = {}]
  /\ UNCHANGED <<role, ctl, pr, gw, enb, convoys, failure, orders>>

-----------------------------------------------------------------------------
(* The events of a UE's NIC, on interface i of station n.  An Abort is a   *)
(* failed assertion, an exception or a null dereference: nothing runs      *)
(* after it.                                                               *)

Interfaces == {"PRIMARY", "GATEWAY"}

Dev(n, i) == IF i = "PRIMARY" THEN pr[n] ELSE gw[n]

SetDevice(n, i, d) ==
  /\ pr' = IF i = "PRIMARY" THEN [pr EXCEPT ![n] = d] ELSE pr
  /\ gw' = IF i = "GATEWAY" THEN [gw EXCEPT ![n] = d] ELSE gw
  /\ UNCHANGED <<phase, role, ctl, bcasts, enb, convoys, clusters, failure,
                 orders>>

Abort(why) ==
  /\ failure' = why
  /\ UNCHANGED <<phase, role, ctl, pr, gw, bcasts, enb, convoys, clusters,
                 orders>>

\* Mutant: the table of masters is one entry short
KnownMaster_Short(id) == id < enb - 1

\* Ids that Binder::getMasterNode knows: every base station ever registered
KnownMaster(id) == id < enb /\ enb > 1

\* A cell whose module was deleted; the binder still maps its id to it
Gone(cell) == cell # 0 /\ cell \notin LiveCells

\* Mutant: the completion event is not scheduled
Triggered_NoEvent(d) == [d EXCEPT !.starter = FALSE, !.held = TRUE]

Triggered(d) ==
  [d EXCEPT !.starter = FALSE, !.held = TRUE, !.triggers = @ + 1]

\* The start event, in the order of its checks
TriggerHandover(n, i) ==
  LET d == Dev(n, i)
  IN /\ Running /\ OnRoad(n) /\ d.starter
     /\ \/ /\ d.master = d.candidate
           /\ Abort("handover to the current master")
        \/ /\ d.master # d.candidate /\ ~KnownMaster(d.candidate)
           /\ Abort("handover to an unknown id")
        \/ /\ d.master # d.candidate /\ KnownMaster(d.candidate)
           /\ IF Gone(d.master)
              THEN Abort("current master gone")
              ELSE SetDevice(n, i, Triggered(d))

\* Mutant: the completion event is taken off twice
Completed_Twice(d) ==
  [d EXCEPT !.master = d.candidate, !.held = FALSE, !.triggers = @ - 2]

Completed(d) ==
  [d EXCEPT !.master = d.candidate, !.held = FALSE, !.triggers = @ - 1]

\* Mutant: the AMC of the new cell is used unchecked
DoHandover_TargetUnchecked(n, i) ==
  LET d == Dev(n, i)
  IN /\ Running /\ OnRoad(n) /\ d.triggers > 0
     /\ \/ Gone(d.master) /\ Abort("current master gone")
        \/ ~Gone(d.master) /\ SetDevice(n, i, Completed(d))

\* The completion event: the old cell's AMC is used first, then the new one's
DoHandover(n, i) ==
  LET d == Dev(n, i)
  IN /\ Running /\ OnRoad(n) /\ d.triggers > 0
     /\ \/ Gone(d.master) /\ Abort("current master gone")
        \/ ~Gone(d.master) /\ Gone(d.candidate)
             /\ Abort("handover target gone")
        \/ ~Gone(d.master) /\ ~Gone(d.candidate)
             /\ SetDevice(n, i, Completed(d))

Expired(d) == [d EXCEPT !.timers = @ - 1]

\* A join schedules its start event for the same instant and its timer for an
\* interval later: only the timer of an earlier join fires before a start event
TimerDue(d) == d.timers > (IF d.starter THEN 1 ELSE 0)

\* Nothing is sent while a handover is triggered.  The timer is not renewed when
\* the NIC has no master.  A status that reaches its master leaves this state as
\* it is.
UnicastStatus(n, i) ==
  LET d == Dev(n, i)
  IN /\ Running /\ OnRoad(n) /\ TimerDue(d) /\ ~d.held
     /\ \/ d.master = 0 /\ SetDevice(n, i, Expired(d))
        \/ Gone(d.master) /\ Abort("status to a gone master")

-----------------------------------------------------------------------------
StationStep(n) ==
  \/ Initialize(n)
  \/ \E m \in Nodes, full \in AdvertisedFull, rssi \in Rssi :
       ReceiveBroadcast(n, m, full, rssi)
  \/ HandleBroadcastScanEvent(n)
  \/ \E c \in Commands : Orchestrate(n, c)
  \/ Leave(n)
  \/ \E i \in Interfaces :
       TriggerHandover(n, i) \/ DoHandover(n, i) \/ UnicastStatus(n, i)

Next == \E n \in Nodes : StationStep(n)

Spec == Init /\ [][Next]_vars

\* Scheduled events run: the scan, the handover events and the status timer
Fairness ==
  \A n \in Nodes :
    /\ WF_vars(HandleBroadcastScanEvent(n))
    /\ \A i \in Interfaces :
         /\ WF_vars(TriggerHandover(n, i))
         /\ WF_vars(DoHandover(n, i))
         /\ WF_vars(UnicastStatus(n, i))

FairSpec == Spec /\ Fairness
-----------------------------------------------------------------------------
(* Properties.                                                             *)

Phases == {"absent", "scanning", "settled", "gone"}

Broadcast ==
  [convoy : Nat, cluster : Nat, full_convoy : BOOLEAN, full_cluster : BOOLEAN,
   direction : {"TOP", "DOWN"}, rssi : Int]

\* The last two lines hold the failures of routing
Failures ==
  {"none", "handover to the current master", "handover to an unknown id",
   "current master gone", "handover target gone", "status to a gone master",
   "packet without a route", "report without a route", "relay without a route",
   "hop has no module"}

\* Every variable keeps the type of the member it models.
TypeOK ==
  /\ phase \in [Nodes -> Phases]
  /\ role \in [Nodes -> Roles]
  /\ ctl \in [Nodes -> {"INITIALIZING", "INITIALIZED"}]
  /\ pr \in [Nodes -> Device]
  /\ gw \in [Nodes -> Device]
  /\ bcasts \in [Nodes -> SUBSET Broadcast]
  /\ enb \in Nat \ {0}
  /\ convoys \in SUBSET Nat
  /\ clusters \in SUBSET (Nat \X Nat)
  /\ failure \in Failures
  /\ orders \in 0..MaxOrders

Masters == {n \in Nodes : IsMaster(n)}

\* The binder's cluster map lists every cell that is on the air, under the
\* convoy its broadcasts name (createNewCluster, remove, registerCluster).
LiveMastersRegistered ==
  \A n \in Masters : <<pr[n].adv, pr[n].cell>> \in clusters

\* The binder's cluster map lists the cells on the air and no other: a master
\* that is replaced or whose vehicle leaves takes its entry with it.
RegistryExact == clusters = {<<pr[n].adv, pr[n].cell>> : n \in Masters}

\* No two stations serve a cell under one id, whatever they replaced before.
OneManagerPerCell ==
  \A n, m \in Masters : pr[n].cell = pr[m].cell => n = m

\* A station believes it is a manager exactly when its primary device is a
\* base station, however it got its role (scan or orchestration).
RoleMatchesDevice ==
  \A n \in Nodes :
    phase[n] = "settled" => (role[n] = "MANAGER" <=> pr[n].type = "MASTER")

Pending(d) == d.starter \/ d.triggers > 0

\* The address a device hands to routing is ahead of its NIC only while a
\* handover is under way; overlapping handovers end at the last target.
AttachmentFollows ==
  \A n \in Nodes, i \in Interfaces :
    OnRoad(n) /\ Dev(n, i).bound /\ ~Pending(Dev(n, i))
      => Dev(n, i).manager = Dev(n, i).master

InConvoy(n, id) == OnRoad(n) /\ id # 0 /\ pr[n].convoy = id

\* Without orders, a convoy holds stations of one direction only.
ConvoyOneDirection ==
  \A n, m \in Nodes :
    pr[n].convoy # 0 /\ InConvoy(n, pr[n].convoy) /\ InConvoy(m, pr[n].convoy)
      => Direction[n] = Direction[m]

\* Without orders, a member and the manager it names agree on the convoy,
\* although the member learnt it from a broadcast it may have cached long ago.
MemberSharesConvoy ==
  \A n \in Nodes, m \in Masters :
    OnRoad(n) /\ pr[n].manager = pr[m].cell => pr[n].convoy = pr[m].adv

\* Every convoy that has a cluster was registered with the binder.
ConvoysRegistered == \A p \in clusters : p[1] \in convoys

\* A convoy opened as new is nobody's convoy yet: an id is not given out again
\* while a station still carries it, even after its managers have left.
NewConvoyIsEmpty ==
  [][\A id \in convoys' \ convoys : \A n \in Nodes : ~InConvoy(n, id)]_vars

\* Without orders nothing fails as long as every station stays on the road.
FailureNeedsDeparture ==
  failure # "none" => \E n \in Nodes : phase[n] = "gone"

\* triggerHandover asserts that the target is not the current master.
HandoverChangesMaster == failure # "handover to the current master"

\* doHandover asserts that the cell it attaches to exists.
HandoverTargetPresent == failure # "handover target gone"

\* The role an order names is the role the station has afterwards, through any
\* sequence of orders.  The one exception is joinNewCluster's: a gateway that is
\* ordered to be a member stays a gateway.
RoleFollowsOrder ==
  [][\A n \in Nodes, c \in Commands :
       Orchestrate(n, c) /\ c.role # "UNDEFINED"
         => \/ role'[n] = c.role
            \/ /\ role[n] = "GATEWAY" /\ c.role = "MEMBER"
               /\ role'[n] = "GATEWAY"]_vars

\* A scan that was scheduled is carried out unless the vehicle leaves first.
EveryStationSettles ==
  \A n \in Nodes :
    phase[n] = "scanning"
      ~> ctl[n] = "INITIALIZED" \/ phase[n] = "gone" \/ failure # "none"

\* A device that named a manager is attached to it in the end, unless it is
\* sent elsewhere, its vehicle leaves or the simulation fails.
HandoverCompletes ==
  \A n \in Nodes, i \in Interfaces :
    \A cell \in 1..Cardinality(Nodes) + 2 * MaxOrders :
      OnRoad(n) /\ Dev(n, i).bound /\ Dev(n, i).manager = cell
        ~> \/ Dev(n, i).master = cell
           \/ Dev(n, i).manager # cell
           \/ ~OnRoad(n)
           \/ failure # "none"
=============================================================================
