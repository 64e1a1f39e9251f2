------------------------------- MODULE Dtwin --------------------------------
(***************************************************************************)
(* The digital twin: what an RSU detects goes into its DtwinStore, is      *)
(* published to the vehicles that subscribed, and is stored again in the   *)
(* DtwinStore of each of them, where the Localizer finds the vehicle's own *)
(* position.  Stores forget entries by age, in a periodic check.           *)
(*                                                                         *)
(* An object is a vehicle, named by a number in the order of its name.     *)
(* What is known of it (position, heading) is abstracted to the time at    *)
(* which it was detected; 0 is the value that std::map::operator[] makes   *)
(* up for an absent key.  Packets may be delayed, reordered and lost.      *)
(***************************************************************************)
EXTENDS Integers, FiniteSets

CONSTANTS
  Rsus,                \* stations that detect and publish
  Vehicles,            \* stations that subscribe, as numbers
  MaxAge,              \* dTwinMaxAge
  SubscriberMaxAge,    \* subscriberMaxAge
  CheckInterval,       \* dTwinExpiryCheckInterval, subscriberCheckInterval
  MinLocalization,     \* minDurationLocalization
  Localizing,          \* vehicles whose Localizer has a start time
  SubscribeTimes,      \* instants of the Subscribers' updates
  StartTime,           \* startTime of the applications
  StopTime,            \* last instant of their updates: stopTime, or the end of the
                       \* period it lies in
  EndTime,             \* bound: the last instant
  MaxPackets,          \* bound: packets in flight
  MaxReplaced          \* bound: devices replaced

Stations == Rsus \union Vehicles

ASSUME VehiclesAssumption ==
  /\ Vehicles \subseteq Nat \ {0} /\ IsFiniteSet(Vehicles)
  /\ Rsus \intersect Vehicles = {}
\* By default the applications start at 90 s and entries live for 5 s
ASSUME TimesAssumption ==
  /\ MaxAge \in Nat \ {0} /\ CheckInterval \in Nat \ {0}
  /\ StartTime \in Nat /\ StopTime \in Nat /\ EndTime \in Nat
  /\ StartTime >= MaxAge
  /\ SubscriberMaxAge \in Nat /\ SubscribeTimes \subseteq Nat
  /\ MinLocalization \in Nat
  /\ Localizing \subseteq Vehicles
ASSUME TwinBoundsAssumption == MaxPackets \in Nat /\ MaxReplaced \in Nat

VARIABLES
  now,      \* simulation time
  store,    \* the DtwinStore of each station
  check,    \* time of the next expiry checks of a station
  done,     \* periodic events that have run at this instant
  subs,     \* SubscriberStore::_subscriber_record of each RSU
  address,  \* address of a vehicle's primary device
  loc,      \* the Localizer of each vehicle
  packets   \* subscriptions and publications in flight

vars == <<now, store, check, done, subs, address, loc, packets>>

-----------------------------------------------------------------------------
(* DtwinStore.  The maps of a store have the keys `keys`, apart from the   *)
(* addresses, which are never erased; `ids` is _object_id.                 *)

Unknown == [o \in Vehicles |-> 0]

EmptyStore ==
  [ids |-> {}, keys |-> {}, ts |-> Unknown, seen |-> Unknown,
   addr |-> Unknown, v2v |-> {}, n |-> 0]

Erase(f, gone) == [o \in Vehicles |-> IF o \in gone THEN 0 ELSE f[o]]

\* Mutant: the entries are counted before the old ones are erased
CheckObjectExpiry_CountsFirst(st, t) ==
  LET old == {o \in st.keys : t - st.ts[o] >= MaxAge}
  IN IF st.n = 0 THEN st
     ELSE [st EXCEPT !.keys = @ \ old, !.ts = Erase(@, old),
                     !.seen = Erase(@, old), !.v2v = @ \ old,
                     !.n = Cardinality(st.keys)]

\* Mutant: erased entries are taken off the count again
CheckObjectExpiry_CountsTwice(st, t) ==
  LET old == {o \in st.keys : t - st.ts[o] >= MaxAge}
  IN IF st.n = 0 THEN st
     ELSE [st EXCEPT !.keys = @ \ old, !.ts = Erase(@, old),
                     !.seen = Erase(@, old), !.v2v = @ \ old,
                     !.n = Cardinality(st.keys \ old) - Cardinality(old)]

\* _object_id and the addresses keep what has expired
CheckObjectExpiry(st, t) ==
  LET old == {o \in st.keys : t - st.ts[o] >= MaxAge}
  IN IF st.n = 0 THEN st
     ELSE [st EXCEPT !.keys = @ \ old, !.ts = Erase(@, old),
                     !.seen = Erase(@, old), !.v2v = @ \ old,
                     !.n = Cardinality(st.keys \ old)]

\* The part of an ObjectList its reader takes: the first n_objects entries
Listed(m) == {o \in m.ids : Cardinality({p \in m.ids : p =< o}) =< m.n}

\* What updateObjects makes of a list once it has chosen the entries to take
Taken(st, m, fresh, ts) ==
  LET addressed == {o \in fresh : m.addr[o] >= 0}
  IN [ids |-> st.ids \union fresh,
      keys |-> st.keys \union fresh,
      ts |-> [o \in Vehicles |-> IF o \in fresh THEN ts ELSE st.ts[o]],
      seen |-> [o \in Vehicles |-> IF o \in fresh THEN m.seen[o] ELSE st.seen[o]],
      addr |-> [o \in Vehicles |->
                  IF o \in addressed THEN m.addr[o] ELSE st.addr[o]],
      v2v |-> (st.v2v \ addressed) \union (addressed \intersect m.v2v),
      n |-> Cardinality(st.ids \union fresh)]

Newer(st, m) == {o \in Listed(m) : o \notin st.ids \/ m.ts >= st.ts[o]}

\* Mutant: a list is taken however late it is
UpdateObjects_Late(st, m, t) == Taken(st, m, Newer(st, m), m.ts)

\* Mutant: the entry is stamped when it arrives
UpdateObjects_Restamps(st, m, t) ==
  Taken(st, m, IF t - m.ts < MaxAge THEN Newer(st, m) ELSE {}, t)

\* The number of objects is set even when the list comes too late
UpdateObjects(st, m, t) ==
  Taken(st, m, IF t - m.ts < MaxAge THEN Newer(st, m) ELSE {}, m.ts)

\* Reading makes up entries for ids that have none
AfterRead(st) == [st EXCEPT !.keys = @ \union st.ids]

\* readFromStore: all ids, but as many objects as the store last counted
ReadFromStore(st) ==
  [ts |-> now, n |-> st.n, ids |-> st.ids, seen |-> st.seen,
   addr |-> st.addr, v2v |-> st.v2v]

UpdateObjectTypeAndAddress(st, v, a) ==
  IF v \in st.ids
  THEN [st EXCEPT !.v2v = @ \union {v}, !.addr = [@ EXCEPT ![v] = a]]
  ELSE st

-----------------------------------------------------------------------------
Init ==
  /\ now = StartTime
  /\ store = [s \in Stations |-> EmptyStore]
  /\ check \in [Stations -> StartTime .. StartTime + CheckInterval - 1]
  /\ done = {}
  /\ subs = [r \in Rsus |-> {}]
  /\ address = [v \in Vehicles |-> v]
  /\ loc = [v \in Vehicles |->
              [state |-> "INIT", init |-> 0, ts |-> 0, seen |-> 0]]
  /\ packets = {}

\* The stores whose expiry check is due at this instant
Due == {s \in Stations : check[s] = now}

\* Time passes once the checks of this instant have run
Tick ==
  /\ now < EndTime
  /\ \A s \in Due : <<s, "objects">> \in done
  /\ \A r \in Due \intersect Rsus : <<r, "subscribers">> \in done
  /\ now' = now + 1
  /\ check' = [s \in Stations |->
                 IF s \in Due THEN now + CheckInterval ELSE check[s]]
  /\ done' = {}
  /\ UNCHANGED <<store, subs, address, loc, packets>>

\* A periodic event runs at most once at an instant
Once(event) == event \notin done /\ done' = done \union {event}

\* An application cancels its update event at the first event after its stop time
Updating == now =< StopTime

ObjectExpiryCheck(s) ==
  /\ s \in Due /\ Once(<<s, "objects">>)
  /\ store' = [store EXCEPT ![s] = CheckObjectExpiry(@, now)]
  /\ UNCHANGED <<now, check, subs, address, loc, packets>>

CheckSubscriberExpiry(r) ==
  /\ r \in Due /\ Once(<<r, "subscribers">>)
  /\ subs' = [subs EXCEPT ![r] = {x \in @ : now - x.ts < SubscriberMaxAge}]
  /\ UNCHANGED <<now, store, check, address, loc, packets>>

\* Detector: the list of the objects in view, without addresses; which vehicles
\* are in view is left open
DetectedObjects(objects) ==
  [ts |-> now, n |-> Cardinality(objects), ids |-> objects,
   seen |-> [o \in Vehicles |-> now], addr |-> [o \in Vehicles |-> -1],
   v2v |-> {}]

\* The Tracker passes the Detector's list on to the store as it is
Detect(r, objects) ==
  /\ Updating /\ Once(<<r, "detect">>)
  /\ store' = [store EXCEPT ![r] =
                 UpdateObjects(@, DetectedObjects(objects), now)]
  /\ UNCHANGED <<now, check, subs, address, loc, packets>>

Send(new) ==
  /\ packets' = packets \union new
  /\ Cardinality(packets') =< MaxPackets

\* Subscriber: which RSUs it is routed to is left open
Subscribe(v, to) ==
  /\ now \in SubscribeTimes
  /\ Updating /\ Once(<<v, "subscribe">>)
  /\ Send({[kind |-> "sub", to |-> r, v |-> v, a |-> address[v], ts |-> now] :
             r \in to})
  /\ UNCHANGED <<now, store, check, subs, address, loc>>

\* Mutant: a record is replaced whatever its timestamp
UpdatedRecords_Overwrites(recs, new) == {x \in recs : x.v # new.v} \union {new}

\* A record is replaced by a more recent one only, and added however late
UpdatedRecords(recs, new) ==
  LET old == {x \in recs : x.v = new.v}
  IN IF \A x \in old : x.ts < new.ts THEN (recs \ old) \union {new} ELSE recs

\* The address in the DtwinStore is set before the timestamps are compared
UpdateSubscriberList(m) ==
  /\ m \in packets /\ m.kind = "sub"
  /\ packets' = packets \ {m}
  /\ store' = [store EXCEPT ![m.to] = UpdateObjectTypeAndAddress(@, m.v, m.a)]
  /\ subs' = [subs EXCEPT ![m.to] =
                UpdatedRecords(@, [v |-> m.v, a |-> m.a, ts |-> m.ts])]
  /\ UNCHANGED <<now, check, done, address, loc>>

\* Publisher: the twin is read, and sent to every subscriber if not empty
Publish(r) ==
  /\ Updating /\ Once(<<r, "publish">>)
  /\ store' = [store EXCEPT ![r] = AfterRead(@)]
  /\ IF store[r].n > 0
     THEN Send({[kind |-> "pub", to |-> x.a, list |-> ReadFromStore(store[r])] :
                  x \in subs[r]})
     ELSE UNCHANGED packets
  /\ UNCHANGED <<now, check, subs, address, loc>>

\* A publication reaches the vehicle whose device has the address
ReceiveDtwinMessage(v, m) ==
  /\ m \in packets /\ m.kind = "pub" /\ m.to = address[v]
  /\ packets' = packets \ {m}
  /\ store' = [store EXCEPT ![v] = UpdateObjects(@, m.list, now)]
  /\ UNCHANGED <<now, check, done, subs, address, loc>>

Lose(m) ==
  /\ m \in packets
  /\ packets' = packets \ {m}
  /\ UNCHANGED <<now, store, check, done, subs, address, loc>>

\* Membership replaces the primary device, and with it the address
ReplaceDevice(v) ==
  /\ address[v] < v + MaxReplaced * Cardinality(Vehicles)
  /\ address' = [address EXCEPT ![v] = @ + Cardinality(Vehicles)]
  /\ UNCHANGED <<now, store, check, done, subs, loc, packets>>

-----------------------------------------------------------------------------
(* The Localizer of a vehicle.  It reads its own entry by key, which makes *)
(* one up if there is none.                                                *)

LocalizerStart(v) ==
  /\ v \in Localizing
  /\ loc[v].state = "INIT"
  /\ loc' = [loc EXCEPT ![v].state = "LOCALIZING", ![v].init = now]
  /\ UNCHANGED <<now, store, check, done, subs, address, packets>>

ReadCurrentLocation(v) ==
  /\ loc' = [loc EXCEPT ![v].state = "LOCALIZED", ![v].ts = store[v].ts[v],
                        ![v].seen = store[v].seen[v]]
  /\ store' = [store EXCEPT ![v].keys = @ \union {v}]

LocalizerUpdate(v) ==
  /\ Updating /\ Once(<<v, "localize">>)
  /\ \/ loc[v].state = "LOCALIZING" /\ now - loc[v].init >= MinLocalization
     \/ loc[v].state = "LOCALIZED"
  /\ ReadCurrentLocation(v)
  /\ UNCHANGED <<now, check, subs, address, packets>>

-----------------------------------------------------------------------------
(* The Maneuver application of a vehicle.                                  *)

\* Mutant: the type of an object is not asked for
FindCoopManeuverPartner_AnyType(v) ==
  {o \in Listed(ReadFromStore(store[v])) : o # v}

\* findCoopManeuverPartner, but for distance and heading
FindCoopManeuverPartner(v) ==
  {o \in Listed(ReadFromStore(store[v])) : o # v /\ o \in store[v].v2v}

\* A localized vehicle writes to partners; which candidates are near enough and
\* head the same way is left open
SendCoopManeuverMessage(v, partners) ==
  /\ loc[v].state = "LOCALIZED"
  /\ Updating /\ Once(<<v, "maneuver">>)
  /\ store' = [store EXCEPT ![v] = AfterRead(@)]
  /\ Send({[kind |-> "man", to |-> store[v].addr[o], with |-> o] : o \in partners})
  /\ UNCHANGED <<now, check, subs, address, loc>>

\* The partner deletes the message
ReceiveCoopManeuverMessage(v, m) ==
  /\ m \in packets /\ m.kind = "man" /\ m.to = address[v]
  /\ packets' = packets \ {m}
  /\ UNCHANGED <<now, store, check, done, subs, address, loc>>

-----------------------------------------------------------------------------
Next ==
  \/ Tick
  \/ \E s \in Stations : ObjectExpiryCheck(s)
  \/ \E r \in Rsus : CheckSubscriberExpiry(r) \/ Publish(r)
  \/ \E r \in Rsus, objects \in SUBSET Vehicles : Detect(r, objects)
  \/ \E v \in Vehicles, to \in SUBSET Rsus : Subscribe(v, to)
  \/ \E m \in packets : UpdateSubscriberList(m) \/ Lose(m)
  \/ \E v \in Vehicles, m \in packets : ReceiveDtwinMessage(v, m)
  \/ \E v \in Vehicles :
       ReplaceDevice(v) \/ LocalizerStart(v) \/ LocalizerUpdate(v)
  \/ \E v \in Vehicles : \E partners \in SUBSET FindCoopManeuverPartner(v) :
       SendCoopManeuverMessage(v, partners)
  \/ \E v \in Vehicles, m \in packets : ReceiveCoopManeuverMessage(v, m)

Spec == Init /\ [][Next]_vars
-----------------------------------------------------------------------------
(* Properties.                                                             *)

Times == [Vehicles -> Nat]

StoreType ==
  [ids : SUBSET Vehicles, keys : SUBSET Vehicles, ts : Times, seen : Times,
   addr : Times, v2v : SUBSET Vehicles, n : Nat]

ListType ==
  [ts : Nat, n : Nat, ids : SUBSET Vehicles, seen : Times, addr : Times,
   v2v : SUBSET Vehicles]

PacketType ==
  [kind : {"sub"}, to : Rsus, v : Vehicles, a : Nat, ts : Nat]
    \union [kind : {"pub"}, to : Nat, list : ListType]
    \union [kind : {"man"}, to : Nat, with : Vehicles]

Events == {"objects", "subscribers", "detect", "publish", "subscribe",
           "localize", "maneuver"}

\* Every variable keeps the type of the members it models.
TypeOK ==
  /\ now \in Nat
  /\ store \in [Stations -> StoreType]
  /\ check \in [Stations -> Nat]
  /\ done \subseteq Stations \X Events
  /\ subs \in [Rsus -> SUBSET [v : Vehicles, a : Nat, ts : Nat]]
  /\ address \in [Vehicles -> Nat]
  /\ loc \in [Vehicles -> [state : {"INIT", "LOCALIZING", "LOCALIZED"},
                           init : Nat, ts : Nat, seen : Nat]]
  /\ packets \subseteq PacketType

\* An entry is never older than the age limit plus one check interval, however
\* late the lists come and whatever the store counts.
EntryAgeBounded ==
  \A s \in Stations, o \in Vehicles :
    store[s].ts[o] # 0 => now - store[s].ts[o] < MaxAge + CheckInterval

\* What a vehicle knows of an object was detected within the ages that the two
\* stores on the way allow; time in the network counts for the second of them.
DataAgeBounded ==
  \A v \in Vehicles, o \in Vehicles :
    store[v].seen[o] # 0
      => now - store[v].seen[o] =< 2 * (MaxAge + CheckInterval - 1)

\* A store never counts more objects than its list has entries: the readers of
\* a list index its arrays up to n_objects.
CountWithinIds ==
  \A s \in Stations : store[s].n =< Cardinality(store[s].ids)

\* The addresses that the devices of a vehicle may have, in their order
Devices(v) == {v + k * Cardinality(Vehicles) : k \in 0..MaxReplaced}

HasDevice(r, v, a) == \E x \in subs[r] : x.v = v /\ x.a = a

Outdated(x) == now - x.ts >= SubscriberMaxAge

\* Once an RSU has had a device of a vehicle as a subscriber it goes back to an
\* earlier device, one that has been replaced, only by a subscription that is past
\* its age limit: after the later record has expired a subscription is stored
\* however late it comes, until the next check.  The first device is v itself.
EarlierDeviceOutdated ==
  \A r \in Rsus, v \in Vehicles : \A a \in Devices(v) \ {v} :
    [](HasDevice(r, v, a)
         => [](\A x \in subs[r] : x.v = v /\ x.a < a => Outdated(x)))

\* A maneuver is negotiated with the device its partner has or had, although the
\* address of an object comes from subscriptions and lists of other stations, is
\* never erased, and is made up where there is none.
PartnerAddressed ==
  \A m \in packets :
    m.kind = "man"
      => m.to \in Devices(m.with) /\ m.to =< address[m.with]

\* A publication is sent only if objects are being tracked.
PublicationsTrack ==
  \A m \in packets :
    m.kind = "pub" => \E o \in Listed(m.list) : m.list.seen[o] # 0

=============================================================================
