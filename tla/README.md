# ConvoyV2X in TLA+

ConvoyV2X is an OMNeT++ simulation of convoy communication: vehicles and road
side units (RSUs) form clusters and convoys over Simu5G, RSUs detect objects and
publish a digital twin to the vehicles. The project's own code is
`src/convoy-architecture/` and its extensions of `src/simu5G/` (Binder, NRPhyUe,
LtePhyEnb, LtePhyBase); INET, Veins and the rest of Simu5G are third-party.

The modules here model that code's control and data flow; TLC checks them on
small instances and TLAPS proves their main invariants for every instance.
Paths below are relative to `src/convoy-architecture/src/` unless they start
with `simu5G/`.

| Module | Models |
|---|---|
| `Membership` | stations, cluster devices, convoy registry, handover |
| `Convoys`, `MembershipRefinement` | what membership promises, and the mapping to it |
| `Routing` (extends `Membership`) | publisher lists and RoutingControl |
| `Dtwin` | detection, twin and subscriber stores, publication, localization, maneuvers |
| `Backend` | member reports, MemberStore, orchestration |
| `NodeIds` | the binder's ids and next hops |
| `*Proofs` | theorems; `ScanProofs` is about `Membership` without orders, `TwinProofs` goes on from `DtwinProofs` |
| `MC*` | constants for TLC |

## 1. The system

| Component | State | Operations | Talks to |
|---|---|---|---|
| `MembershipControl` (one per station) | `_role`, `_control_state`, two `ClusterDevice`s, `_broadcasts_received`, `_publishers` | initialize, broadcast received (`receiveSignal`), scan event, orchestration message, member report, destructor | ClusterDevice, Binder, routing |
| `ClusterDevice` (primary, gateway) | own, manager's and convoy's address; type | configureAndStart, joinNewCluster, detachFromCluster, remove | its NIC, Binder |
| Binder, convoy part | id counters, `_id_list_convoys`, `_cluster_map`, `nextHop_`, `ueHandoverTriggered_` | register/deregister convoy and cluster, registerNode, getMaxIdConvoy | called by all |
| `NRPhyUe`, convoy part | `masterId_`, `candidateMasterId_`, handover events, status timer | attachToCluster, triggerHandover, doHandover, unicast status | Binder, cells |
| `LtePhyEnb`, `LtePhyBase` | broadcast data | periodic broadcast, sendUnicast | NICs in range |
| `DtwinStore` | object ids, per-object maps, number of objects | updateObjects, readFromStore, updateObjectTypeAndAddress, checkObjectExpiry | Detector/Tracker, Publisher, Subscriber, Localizer, Maneuver |
| `SubscriberStore`, `MemberStore` | records with timestamps | update, periodic expiry | Publisher, orchestration, DtwinStore |
| Detector, Tracker | – | detection cycle | mobility, DtwinStore |
| Publisher, Subscriber | update events | send subscription, publish twin, receive twin | routing (UDP), stores |
| Localizer | localization state, position | start, update | DtwinStore |
| `RoutingControl` | – (reads devices, publisher list, stores, next hops) | one handler per kind of message, forward to network, to applications, to backend | every message path |
| Maneuver | partners | find partners, send and receive messages | twin, Localizer, routing |
| ConvoyOrchestration (backend) | start and update events | read the MemberStore, send orders | MemberStore, routing |
| BaseNode, HighwayScenario | – | create stations | – |

What is hard here:

- **Two levels of attachment.** A device's addresses change in the handler that
  decides; its NIC follows after a start event and a completion event. Another
  decision, or a departure, may come between any two of these.
- **Departures.** A vehicle's modules are deleted while other stations still
  hold its ids: in cached broadcasts, as handover target, as master.
- **Registry.** The binder's lists are updated piecemeal by the stations, in
  destructors among other places.
- **Orders.** Role, convoy, cluster and gateway may change in any sequence; one
  handler composes half a dozen steps depending on the current state.
- **Routes from two sources.** A packet's route compares the destination's next
  hop in the binder (changed when a handover is done) with the device's manager
  (changed when it was decided); lists of publishers spread from station to
  station and never expire.
- **Ids from counters** that nothing compares with the ends of their ranges.
- **Late, lost and overtaking messages** between stores that each apply their
  own age limit, and a store whose id list, maps and counter are not kept in
  step.

What makes the components correct: the binder lists exactly the cells on the
air under unique ids; a station's role, its device and its NIC agree; convoys
hold one direction; every station gets a role; twin data have a bounded age, and
only tracked objects are published; a packet has a route
and reaches the device it is for; the backend has one, young record of a station;
an address leads to one device. `PROJECT.json` lists
the single hazards with their lines.

## 2. Membership

`Membership.tla` covers `controls/MembershipControl.cc`, `devices/ClusterDevice.cc`,
the convoy part of `simu5G/src/common/binder/Binder.cc` and of
`simu5G/src/stack/phy/layer/NRPhyUe.cc`. The simulation kernel runs one handler
at a time, so a handler is one action:

| Action | Code |
|---|---|
| `Initialize` | `MembershipControl::initialize`, both stages |
| `ReceiveBroadcast` | a master's broadcast, `receiveSignal` |
| `ScanJoinsCluster`, `ScanCreatesCluster`, `ScanCreatesConvoy` | the three outcomes of `handleBroadcastScanEvent` |
| `Orchestrate` | `handleOrchestrationMessage`, `changeClusterMembership` |
| `Leave` | the destructor, run when the vehicle leaves |
| `TriggerHandover`, `DoHandover`, `UnicastStatus` | self messages of `NRPhyUe` |

The code called by the handlers (`createNewCluster`, `joinNewCluster`, ...) is
written as operators on a *view*: the state of one station with the binder state
it reads and writes. So the order of calls in the source is the nesting of
operators, and `Apply` makes the result the next state.

Choices:

- An assertion that fails, or a module that is used after its deletion, ends the
  simulation: `failure` names it, and no further action is enabled.
- Cell ids are the binder's counter; UE ids are abstracted to whether a device
  still has an address (`bound`). `nextHop_` of a UE always equals its NIC's
  `masterId_` and is not kept apart. Transmission power, display and what a
  master stores of a status (nobody reads it) are left out.
- The devices of a departed station are deleted with `deleteModule` and no
  `callFinish`, so the binder keeps mapping their ids; `Gone` is that state.
- A join schedules its start event for the same instant and its status timer for
  one interval later, so a timer that is due while a start event is pending
  belongs to an earlier join (`TimerDue`).
- `std::sort` leaves equal strengths in any order: `Candidates` is the set of
  strongest broadcasts, and the scan takes any of them.
- `configureAndStart` advertises clusters that are never full. `AdvertisedFull`
  is a constant, so that the other branches of the scan can be checked as well.
- The orchestrator's policy is empty in the source. Its orders are an input:
  any order of the set `Commands`, to any settled station, `MaxOrders` times.

### The abstract specification

`Convoys.tla` says what membership promises when nobody orders anything, without
broadcasts, caches, registry, timers or handover events: a station enters, opens
a cell under an unused id or joins for good a cell opened in its direction, and
is attached only to that cell while it is on the air. `MembershipRefinement.tla`
maps `Membership` to it: a station's status is its phase and device type, cell,
manager, convoy and attachment are fields of the primary device. With orders the
refinement does not hold, as roles then change.

## 3. Routing, the digital twin, the backend, ids

### Routing

`Routing.tla` extends `Membership`; every step of `Membership` is a step of it,
together with what the handler does to the lists (`HearBroadcast`, `Scan`,
`VehicleLeaves`). It adds:

- the publisher list: `UpdatePublishers` (an RSU enters itself), `Merged` (lists
  received in a broadcast or, by a master, in a member's status frame,
  `DeliverStatus`; the cluster of an entry is what the binder says now);
- `controls/RoutingControl.cc`: a handler for each kind of message that
  originates (`MsgHandlerSubscriber`, `MsgHandlerPublisher`,
  `MsgHandlerManeuver`, `MsgHandlerMemberReport`), the route decision of
  `forwardToNetwork` (`ClusterMatch`, `NextHopOf`), and `receiveFromNetwork`
  (`Deliver`, `Relay`, `ReportToBackend`).

An address is a cell id or the UE of a station. The stores are reduced to the
addresses in the twin (`partners`), since routes depend on nothing else. At an RSU
these are the addresses of all that have subscribed: they outlive the
subscription and are published from then on. Subscriptions expire at whatever
age, so a publication goes to any part of them. The copy of a publication for the
backend, and the backend's own DtwinStore, which nothing reads, are left out.
Ends of the simulation are in `failure`, with a name for each way: a packet without
a route is deleted and used afterwards, and the module of a hop is dereferenced
without a check. Packets are lost and delayed; a UE without a master drops what it sends, one in handover
holds it (`IP2Nic::fromIpUe`). There are no orders, because none arrives
(`order_cast`).

### The digital twin

`Dtwin.tla` covers `stores/DtwinStore.cc`, `stores/SubscriberStore.cc`,
`apps/{Detector,Tracker,Publisher,Subscriber,Localizer,Maneuver}.cc`. Objects are
the vehicles, numbered in the order of their names (`std::map` order, which
decides which entries a reader of a list takes). What is known of an object is
abstracted to the time of its detection; 0 is the value that `operator[]` makes up
for an absent key. A store keeps the three things the code keeps apart: `ids`
(`_object_id`, never erased), `keys` (of the per-object maps) and `n`
(`_n_objects`).

Time is a counter; `Tick` waits for the expiry checks due at an instant, and
the other periodic events run at most once at an instant, in any order with the
checks. The network delays, reorders and loses packets. Which RSUs a
subscription reaches, and which candidates for a maneuver are near enough and
head the same way, is left open. `ReplaceDevice` is the change of address that
Membership's orders cause. Applications start late (90 s) against the age of
entries (5 s): `TimesAssumption` has `StartTime >= MaxAge`, without which time 0
would count as a recent time. They cancel their updates at a stop time
(`Updating`); packets and expiry checks go on.

### The backend

`Backend.tla` covers `stores/MemberStore.cc`, `apps/ConvoyOrchestration.cc`,
`sendMemberReport` of MembershipControl and the backend's side of RoutingControl.
A report carries the time it was sent; it stays in `net` until its last copy has
arrived or is lost, so copies arrive any number of times and reports overtake
each other. The check and the start and update events are kept with the time at
which they are due and the clock stops for them. Their order at one instant is
left open. `MaxDelay` is a bound on the model's network, and
`RecordAgeBounded` says what follows from it.

### Ids

`NodeIds.tla` covers `Binder::registerNode`, `registerNextHop` as `IP2Nic` and
`NRPhyUe` call them, and the id ranges of `LteCommon.h`. Ids are unsigned shorts:
a counter at `UeMax` goes on at 0. `WithinCapacity` is the condition under which
`Membership` and `Routing` may take ids to be unique: as many cells as there are
base station ids, and 1024 UEs in the ranges of the source.

## 4. Runs

| Run | Instance | Question | Result |
|---|---|---|---|
| `deployed` | four stations, one against the others; full and other clusters and convoys; no orders | registry exact, members agree with managers on the convoy, no failure before a departure, no handover to the current master, convoys registered, of one direction, ids not reused while carried; `Convoys` is implemented | holds |
| `orders` | two stations; any two of 48 orders | roles match devices and orders, live cells registered under unique ids, NIC ends where the device says | holds |
| `settling` | three stations of one direction, audible and inaudible broadcasts, fair | every scan ends in a role, every join in an attachment | holds |
| `handover_target` | two stations | `doHandover` asserts that its target exists | violated: the broadcast was cached, the manager has left |
| `twin_pipeline` | one RSU, one vehicle, two subscriptions that expire, a replaced device, two packets in flight, six instants | ages of entries and data; an RSU goes back to a replaced device only by an outdated subscription | holds |
| `twin_counts` | two vehicles, a localizer that makes up entries, a maneuver | a store never counts more objects than it lists, partners are written to at an address of theirs | holds |
| `phantoms` | one RSU, one vehicle | publications only if objects are tracked | violated: expired ids are counted again |
| `routing` | two RSUs, two vehicles, one message in flight (to any number of receivers) | listed addresses current, known publishers attached, subscribers and partners in the cluster, two hops, relays have routes, hops are missing only after a departure, one cluster has all routes | holds |
| `no_route` | one RSU, one vehicle | a report is sent to publishers of other clusters if there is none in its own | violated: the packet has no route and is used after its deletion |
| `backend` | two stations, three reports in flight, eleven seconds | one record each, never older, of bounded age; steps between start and stop | holds |
| `order_cast` | the same | orders are passed on through the RSU | violated: routing casts them to another class |
| `ids` | six devices; ranges of two cells and three UEs, largest id 10 | ids lead to devices and next hops to masters up to the capacity, ids keep their width | holds |

The bounds are chosen so that the cases happen. Two stations are enough for a
manager and a member or for two clusters of a convoy, a third then chooses
between two cells, and the station in the other direction is there for
everything about directions. Two orders are
enough for a role to be changed and changed back while the first handover is
under way. `MaxAge = 2` with a check interval of 1 leaves room for a packet that
arrives late but in time, one that is too late, and for an entry that has
expired at the RSU while its copy lives; the six instants of `twin_pipeline` let
data pass both stores and expire in each. `SubscriberMaxAge = 2` with
subscriptions at 2 and 3 lets the record of the new device expire while the
subscription of the replaced one is still on its way, which is then stored.
The applications stop at 5 there, and what they have sent arrives and expires at
6 and 7; in the other runs they do not stop. The four instants of `twin_counts` are
the fewest in which a vehicle subscribes, is published with its address, and is
then asked by the other for a maneuver.

In `routing` two RSUs are needed for a list to be passed on by a station that is
not on it, two vehicles for partners, and together they form up to four
clusters. A message is sent when fewer than `MaxPackets` packets are in flight,
and all its packets at once. `MaxHops = 3` is one more than `TwoHops` allows. In
`backend`, the age limit of 3 with a check every 2 and a delay of up to 3 lets a
report arrive after its station's record has expired; `StopTime - StartTime` is no
multiple of the rate, so that the last step is after the stop time. In `ids` three
cells or four UEs exceed the capacity, so what lies beyond it is reached as well.

All bounds are constants named `Max...` or `EndTime`. Deadlock is not checked: a
run ends when the vehicles have left, the time is over, all devices exist, or a
failure has ended the simulation. Symmetry is used among stations of one
direction and kind, among reporting stations and among devices, in runs without
liveness only.

Fairness (`FairSpec`) is weak fairness of the scan, the handover events and the
status timer of each station. These are self messages that the code has
scheduled at a finite time and the OMNeT++ kernel executes every scheduled event.
There is none on broadcasts, orders, arrivals, departures or packets.

Every property of a passing run has a mutant, an operator named
`<definition>_<what is wrong>` next to the definition it replaces, which breaks it.

## 5. Proofs

`MembershipProofs.tla` proves, for any set of stations, directions, signal
strengths, orders and any number of orders, from the assumptions of
`Membership.tla` alone (types of the constants):

- `TypeCorrect`: `TypeOK`;
- `MastersStayRegistered`: `LiveMastersRegistered`;
- `CellsAreUnique`: `OneManagerPerCell`;
- `RolesMatchDevices`: `RoleMatchesDevice`;
- `AddressesFollowed`: `AttachmentFollows`;
- `OrdersAreFollowed`: `RoleFollowsOrder`, an action property.

All follow from one inductive invariant `IInv` (theorem `Invariance`). None of
the properties is inductive alone. Uniqueness of cells needs that every id in use
is below the counter. Registration survives another station's `remove` only
because that takes out the entry of an id nobody else serves, or, after a
detach, the entry of cell 0. `AttachmentFollows` needs the candidate: while a
handover is pending the *candidate* is the manager named, so the completion of an
earlier, overlapping handover already attaches to the last target. Roles need
that a station which has not scanned is still `UNDEFINED` with a member device.
The proof has a lemma per operator on views (what `CreateNewCluster`,
`JoinPrimary`, ... preserve of the station's own part and of the registry), so
that `Orchestrate`, which composes them, is a case split over the order. The role
after an order is computed along the same operators (`ChangedRole`,
`OrderedRole`): a gateway keeps its role only on the paths on which it has not
opened a convoy before it joins as a member.

`ScanProofs.tla` proves about the same specification, with the further
assumption `MaxOrders = 0`:

- `RegistryStaysExact`: `RegistryExact`;
- `FailuresExplained`: `FailureNeedsDeparture` and `HandoverChangesMaster`;
- `ConvoyShared`: `MemberSharesConvoy`;
- `ConvoysKeepDirection`: `ConvoyOneDirection` and `ConvoysRegistered`;
- `ConvoyIdsNotReused`: `NewConvoyIsEmpty`;
- `Refinement`: `ImplementsConvoys`.

Its invariant `ScanInv` adds to `IInv` what a device can look like without orders
(fresh, a master, or a member with exactly one handover: scheduled, under way or
done) and who founded what: every manager's address is a cell that some station,
perhaps departed, opened in the same direction and convoy, and every cached
broadcast names such a cell (`Founder`, `Genuine`). Convoys of one direction are
then a matter of founders, whatever the caches hold and whoever has left. The
refinement proof takes each action to a step of `Convoys` or a stutter; only the
scan and the completion of a handover need the invariant.

`DtwinProofs.tla` proves for any stations, age limits, check intervals and any
number of packets, from `VehiclesAssumption` and `TimesAssumption`:

- `TypeCorrect`: `TypeOK`;
- `EntriesExpire`: `EntryAgeBounded`;
- `DataExpire`: `DataAgeBounded`;
- `CountsBounded`: `CountWithinIds`.

The inductive invariant `AInv` bounds an entry's age not now but at the time of
its store's *next check*, which `Tick` does not change. A check skips a store
that counts no objects and looks at the keys of the maps only, so the invariant
says that an entry with a timestamp is a key, is listed and is counted. The count
after a check is the number of keys left: entries made up by reads have timestamp
0 and go in that check because the time is past `MaxAge`, so the keys left are
listed. For the age of data, what an RSU has stored it has seen itself, and a
published list is no older than the store lets an entry become.

`TwinProofs.tla` goes on from `AInv`, with one more invariant for each question:

- `PartnersAddressed`: `PartnerAddressed`;
- `EarlierDevicesOutdated`: `EarlierDeviceOutdated`, a temporal property;
- `SetbacksAreBounded`: `SetbackBounded`, stated in `TwinProofs`.

For partners, `AddressInv` follows an address on its way from a subscription into
the twin of an RSU, into a list and into the twin of a vehicle: the 0 or -1 of an
object without an address never meets the mark of a connected vehicle, because
every operation writes or erases the mark with the address or keeps both.

For subscribers, `SubscriptionsInv` orders all records in stores and in flight: one
with a later timestamp has no older device, so replacing by timestamp cannot go
back. An RSU can go back by expiry, because a subscription is stored without a
look at its age when its vehicle has no record (`SubscriberStore.cc:69`). `Moved`
is what the RSU keeps through expiry of having had a device: a record of it or of
a later one, or the certainty that all subscriptions of earlier devices, wherever
they are, are past the age limit. A record only goes by a check when it is
outdated itself, and those of earlier devices are older; none is sent any more
because addresses only move on. So what comes back is outdated, and goes with the
next check.

For data, the stores compare stamps, and a stamp is the time at which a list was
read, not the time of detection. With two RSUs an entry is therefore replaced by
older data: one publishes at 3 what it saw at 1, the other at 2 what it saw at 2.
`SetbackBounded` says by how much, for any number of RSUs: never by more than
`MaxAge + CheckInterval - 1`, the longest an RSU keeps an entry. The invariant is
`StampInv`: data were detected no later than their stamp says. It is proved only;
no run checks it.

`RoutingProofs.tla` proves about `RoutingSpec`, for any stations, any RSUs among
them, any number of packets and without orders (`MaxOrders = 0`, as in the run):

- `RoutingTypes`: `RoutingTypeOK`;
- `EntriesStayCurrent`: `PublisherEntriesCurrent`;
- `KnownPublishersStayAttached`: `KnownPublisherAttached`;
- `StoresStayInCluster`: `SubscribersInCluster`;
- `ForwardingEnds`: `TwoHops`;
- `RelaysHaveRoutes`: `RelayHasRoute`;
- `MissingHopsExplained`: `MissingHopNeedsDeparture`;
- `OneClusterSuffices`: `OneClusterRoutes`;
- `RoutingRefinement`: `ImplementsConvoys`.

`RoutingInv` keeps of `ScanInv` what does not depend on failures (`RoadInv`: a
routing failure needs no departure) and adds that the binder buffers for a UE
exactly while its completion event is pending. A scan that is over fixes the
device, its address and its manager, and the next hop of an address changes once
only, from 0 to that manager. So an entry written by a settled RSU cannot go
stale (`ListsInv`), whoever is in a store is in the keeper's cluster for good
(`StoresInv`), and a packet is at its destination or at the master of its
destination's cell (`PacketsInv`). The difficult state is a sender whose handover
is under way: its own address is in the packet although its next hop is still 0.
The packet is held until the handover is done, so that the address has a next hop
when the packet arrives. A membership step keeps every address and every next hop that is set, whether a
station enters, scans, is handed over or leaves; a routing step leaves the
stations alone. The refinement follows from `ScanProofs` for the former, and the
latter are stutters.

`BackendProofs.tla` proves for any stations, ages, delays and schedules, from
`StoreParameters` and `OrchestrationParameters`:

- `BackendTypes`: `BackendTypeOK`;
- `RecordsUnique`: `OneRecordEach`;
- `RecordsAgeBounded`: `RecordAgeBounded`;
- `YoungestStays`: `YoungestKept`;
- `OrchestrationWindow`: `StepsInWindow`.

`BInv` again bounds ages at the next check (`AgeAtCheck`), for which reports under
way must be no older than the delay (`ReportsTimely`) and events must lie ahead of
the clock (`EventsAhead`).

`NodeIdsProofs.tla` proves for any ranges that satisfy `IdRanges` and any devices:

- `IdTypes`: `IdsTypeOK`;
- `AddressesLeadToDevices`: `AddressLeadsToDevice`;
- `NextHopsAreMasters`: `NextHopIsMaster`.

`IdInv` ties the counters to the numbers of cells and UEs (within the capacity
they are the start of their range plus that number), so that an id given out is
different from all earlier ones and in the range of its kind.

Only model-checked: the leads-to properties `EveryStationSettles` and
`HandoverCompletes`, because liveness under fairness is outside the prover. Every
other property of a passing run is stated by a theorem. The four properties of
the runs that expect a violation are false.

## 6. Seen while modelling, without a run

- A member sends its status to a manager that has left: `sendUnicast` drops
  frames whose destination the binder no longer knows, but the binder still knows
  it (`"status to a gone master"` in the model).
- `MembershipControl.cc:53` says "periodically scan", but the scan is scheduled
  once: a station whose manager has left stays a member of nothing.
- `detachFromCluster` clears the addresses of a device (`ClusterDevice.cc:35`), and
  a `remove` after it deregisters cell 0: the entry of a master that was ordered
  to another convoy stays in the registry. `RegistryExact` is therefore about
  runs without orders, and `LiveMastersRegistered` about all.
- An order that changes only the role or the gateway sends the primary NIC to the
  cell it is attached to, against the assertion of `NRPhyUe.cc:277`;
  `HandoverChangesMaster` holds without orders.
- `readFromStore` stamps a list with the time of reading (`DtwinStore.cc:153`), so
  with two RSUs older data replace younger ones, although `DtwinStore.cc:112` says
  "Update or insert the object information if it is either younger than the
  existing entry or if its non-existent". The model agrees
  with the code here; the theorem `SetbacksAreBounded` says how far data fall back.
- After a record has expired a subscription is stored whatever its age
  (`SubscriberStore.cc:69`), so for up to one check interval an RSU publishes to
  the replaced device of a vehicle again; `EarlierDeviceOutdated` says that this
  is the only way back.
- A `GATEWAY` ordered to be `MEMBER` stays `GATEWAY` (`MembershipControl.cc:286`);
  `RoleFollowsOrder` states it as the one exception.
- An order for a convoy id beyond the next free one registers max + 1, not the id
  of the order (`MembershipControl.cc:469`), so `ConvoysRegistered` is checked
  without orders only.
- The age check of a localized vehicle is commented out (`Localizer.cc:124`): a
  vehicle stays localized at a position made up for an absent entry.
- A subscription overtaken by a newer one is ignored by the records, but its
  address still goes into the twin (`SubscriberStore.cc:52`). `PartnerAddressed`
  therefore allows an address the partner had before.
- Orchestration takes one step after its stop time, because the event is
  scheduled before the time is compared (`ConvoyOrchestration.cc:64`);
  `StepsInWindow` includes it.
- After 1024 UEs the LTE ids run into the NR ids: the next UE takes the table
  entries of the first one, which is then unreachable. `WithinCapacity` is the
  premise of the two properties of `NodeIds` for that reason.

## 7. Not modelled, and plan

Not modelled:

- BaseNode and HighwayScenario, which create stations: `Initialize` lets any
  station enter at any time. Messages and NED files are declarations.
- The geometry of the field of view, of maneuver partners and of radio range:
  inputs, left open.
- Radio, channel, D2D, RLC and MAC of Simu5G, INET, Veins: third party, unchanged
  here, and by far most of the repository's lines. The project's own C++ is a few
  thousand lines, of which what changes state is modelled.
- The copy of each publication that an RSU sends to the backend
  (`RoutingControl.cc:150`) and the DtwinStore of the backend: nothing reads it
  but its own expiry check.
- An `Orchestration` message that reaches an RSU: no code creates one.
- Display, logging, statistics, transmission power.

Left to do:

1. `Routing` with orders, once the orders of the source can arrive.
2. Theorems without `MaxOrders = 0` where an order cannot interfere: which part of
   `ScanInv` survives orders that name clusters on the air.
