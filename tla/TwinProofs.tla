----------------------------- MODULE TwinProofs -----------------------------
(***************************************************************************)
(* More proofs about Dtwin, for any stations, age limits and packets:      *)
(* where the addresses of objects come from, which device of a vehicle a   *)
(* subscriber record names, and by how much data may go back in time.      *)
(***************************************************************************)
EXTENDS DtwinProofs

-----------------------------------------------------------------------------
(* Addresses of objects.                                                   *)

\* A device that o has or had.
Had(o, a) == a \in Devices(o) /\ a =< address[o]

\* Only an object that is marked as a connected vehicle has a real address.
AddressedOK(v2v, addr) == \A o \in v2v : Had(o, addr[o])

CarriedOK(m) ==
  /\ m.kind = "sub" => Had(m.v, m.a)
  /\ m.kind = "pub" => AddressedOK(m.list.v2v, m.list.addr)
  /\ m.kind = "man" => Had(m.with, m.to)

AddressInv ==
  /\ \A v \in Vehicles : Had(v, address[v])
  /\ \A s \in Stations : AddressedOK(store[s].v2v, store[s].addr)
  /\ \A m \in packets : CarriedOK(m)

-----------------------------------------------------------------------------
(* Subscriptions.                                                          *)

\* The record that a packet brings.
Record(m) == [v |-> m.v, a |-> m.a, ts |-> m.ts]

\* The records that stores hold or packets bring.
Subscriptions ==
  (UNION {subs[r] : r \in Rsus}) \union
    {Record(m) : m \in {p \in packets : p.kind = "sub"}}

SubscriptionsInv ==
  /\ \A i \in Subscriptions : i.ts =< now /\ i.a =< address[i.v]
  /\ \A i, j \in Subscriptions : i.v = j.v /\ i.ts < j.ts => i.a =< j.a
  /\ \A r \in Rsus : \A x, y \in subs[r] : x.v = y.v => x = y

-----------------------------------------------------------------------------
(* Addresses of objects: the steps.                                        *)

\* The device after the next replacement, as long as the bound allows one.
LEMMA NextDevice ==
  ASSUME NEW o \in Vehicles, NEW a \in Devices(o),
         a < o + MaxReplaced * Cardinality(Vehicles)
  PROVE  a + Cardinality(Vehicles) \in Devices(o)
<1> DEFINE c == Cardinality(Vehicles)
<1>1. c \in Nat /\ o \in Nat /\ MaxReplaced \in Nat
  BY Counting, VehiclesAssumption, TwinBoundsAssumption
<1>2. PICK k \in 0..MaxReplaced : a = o + k * c
  BY DEF Devices
<1>3. k \in Nat /\ k =< MaxReplaced
  BY <1>1, <1>2
<1>4. k # MaxReplaced
  BY <1>1, <1>2, <1>3
<1>5. k + 1 \in 0..MaxReplaced
  BY <1>1, <1>3, <1>4
<1> HIDE DEF c
<1>6. (k + 1) * c = k * c + c
  BY <1>1, <1>3
<1>7. k * c \in Nat
  BY <1>1, <1>3
<1>8. a + c = o + (k + 1) * c
  BY <1>1, <1>2, <1>6, <1>7
<1> QED BY <1>5, <1>8 DEF Devices, c

\* The first device of a vehicle has its number as address.
LEMMA FirstDevice ==
  ASSUME NEW o \in Vehicles
  PROVE  o \in Devices(o)
<1>1. o \in Nat /\ Cardinality(Vehicles) \in Nat /\ MaxReplaced \in Nat
  BY Counting, VehiclesAssumption, TwinBoundsAssumption
<1>2. o = o + 0 * Cardinality(Vehicles) /\ 0 \in 0..MaxReplaced
  BY <1>1
<1> QED BY <1>2 DEF Devices

LEMMA DeviceNumbers ==
  ASSUME NEW o \in Vehicles, NEW a \in Devices(o)
  PROVE  a \in Nat
<1>1. Cardinality(Vehicles) \in Nat /\ o \in Nat /\ MaxReplaced \in Nat
  BY Counting, VehiclesAssumption, TwinBoundsAssumption
<1>2. PICK k \in 0..MaxReplaced : a = o + k * Cardinality(Vehicles)
  BY DEF Devices
<1>3. k \in Nat
  BY <1>1, <1>2
<1>4. k * Cardinality(Vehicles) \in Nat
  BY <1>1, <1>3
<1> QED BY <1>1, <1>2, <1>4

\* updateObjects takes the address of a list together with the mark.
LEMMA UpdateAddressed ==
  ASSUME NEW st, NEW m, NEW t, AddressedOK(st.v2v, st.addr),
         AddressedOK(m.v2v, m.addr), st.v2v \subseteq Vehicles,
         m.v2v \subseteq Vehicles
  PROVE  LET u == UpdateObjects(st, m, t) IN AddressedOK(u.v2v, u.addr)
<1> DEFINE fresh == IF t - m.ts < MaxAge THEN Newer(st, m) ELSE {}
           addressed == {o \in fresh : m.addr[o] >= 0}
           u == UpdateObjects(st, m, t)
<1>1. /\ u.addr = [o \in Vehicles |->
                     IF o \in addressed THEN m.addr[o] ELSE st.addr[o]]
      /\ u.v2v = (st.v2v \ addressed) \union (addressed \intersect m.v2v)
  BY DEF UpdateObjects, Taken
<1> HIDE DEF u, fresh, addressed
<1>2. ASSUME NEW o \in u.v2v PROVE Had(o, u.addr[o])
  <2>1. CASE o \in st.v2v /\ o \notin addressed
    BY <1>1, <2>1 DEF AddressedOK
  <2>2. CASE o \in addressed /\ o \in m.v2v
    BY <1>1, <2>2 DEF AddressedOK
  <2> QED BY <1>1, <2>1, <2>2
<1> QED BY <1>2 DEF AddressedOK, u

\* The other operations of a store mark nothing without an address.
LEMMA OthersAddressed ==
  ASSUME NEW st \in StoreType, AddressedOK(st.v2v, st.addr)
  PROVE  /\ AddressedOK(AfterRead(st).v2v, AfterRead(st).addr)
         /\ \A t : LET u == CheckObjectExpiry(st, t)
                   IN AddressedOK(u.v2v, u.addr)
         /\ \A v \in Vehicles, a \in Nat :
              Had(v, a) => LET u == UpdateObjectTypeAndAddress(st, v, a)
                           IN AddressedOK(u.v2v, u.addr)
<1>1. AfterRead(st).v2v = st.v2v /\ AfterRead(st).addr = st.addr
  BY DEF AfterRead, StoreType
<1>2. ASSUME NEW t
      PROVE  /\ CheckObjectExpiry(st, t).v2v \subseteq st.v2v
             /\ CheckObjectExpiry(st, t).addr = st.addr
  BY DEF CheckObjectExpiry, StoreType
<1>3. ASSUME NEW v \in Vehicles, NEW a \in Nat, Had(v, a)
      PROVE  LET u == UpdateObjectTypeAndAddress(st, v, a)
             IN AddressedOK(u.v2v, u.addr)
  <2> DEFINE u == UpdateObjectTypeAndAddress(st, v, a)
  <2>1. CASE v \in st.ids
    <3>1. /\ u.v2v = st.v2v \union {v} /\ u.addr = [st.addr EXCEPT ![v] = a]
      BY <2>1 DEF UpdateObjectTypeAndAddress, StoreType
    <3>2. st.addr \in [Vehicles -> Nat] /\ st.v2v \subseteq Vehicles
      BY DEF StoreType, Times
    <3> HIDE DEF u
    <3>3. ASSUME NEW o \in u.v2v PROVE Had(o, u.addr[o])
      <4>1. CASE o = v
        BY <1>3, <3>1, <3>2, <4>1
      <4>2. CASE o # v
        BY <3>1, <3>2, <4>2 DEF AddressedOK
      <4> QED BY <4>1, <4>2
    <3> QED BY <3>3 DEF AddressedOK, u
  <2>2. CASE v \notin st.ids
    BY <2>2 DEF UpdateObjectTypeAndAddress
  <2> QED BY <2>1, <2>2
<1> QED BY <1>1, <1>2, <1>3 DEF AddressedOK

\* A step that changes one store at most, and sends nothing made up.
LEMMA AddressFrame ==
  ASSUME AInv, AddressInv, address' = address,
         \/ store' = store
         \/ \E s \in Stations : \E st :
              store' = [store EXCEPT ![s] = st] /\ AddressedOK(st.v2v, st.addr),
         \A m \in packets' : m \in packets \/ CarriedOK(m)
  PROVE  AddressInv'
<1>1. \A o, a : Had(o, a)' <=> Had(o, a)
  BY DEF Had, Devices
<1>2. \A s \in Stations : AddressedOK(store'[s].v2v, store'[s].addr)
  <2>1. store \in [Stations -> StoreType]
    BY DEF AInv, TypeOK
  <2> QED BY <2>1 DEF AddressInv
<1>3. \A m \in packets' : CarriedOK(m)
  BY DEF AddressInv
<1>4. \A v \in Vehicles : Had(v, address[v])'
  BY <1>1 DEF AddressInv
<1>5. \A s \in Stations : AddressedOK(store[s].v2v, store[s].addr)'
  BY <1>1, <1>2 DEF AddressedOK
<1>6. \A m \in packets' : CarriedOK(m)'
  BY <1>1, <1>3 DEF CarriedOK, AddressedOK
<1> QED BY <1>4, <1>5, <1>6 DEF AddressInv

\* What a subscription carries.
LEMMA SubPacket ==
  ASSUME AInv, NEW m \in packets, m.kind = "sub"
  PROVE  /\ m.to \in Rsus /\ m.to \in Stations /\ m.v \in Vehicles
         /\ m.a \in Nat /\ m.ts \in Nat
<1>1. m \in PacketType
  BY DEF AInv, TypeOK
<1>2. m \in [kind : {"sub"}, to : Rsus, v : Vehicles, a : Nat, ts : Nat]
  BY <1>1 DEF PacketType
<1> QED BY <1>2 DEF Stations

\* What a publication carries.
LEMMA PubPacket ==
  ASSUME AInv, NEW m \in packets, m.kind = "pub"
  PROVE  m.to \in Nat /\ m.list \in ListType
<1>1. m \in PacketType
  BY DEF AInv, TypeOK
<1>2. m \in [kind : {"pub"}, to : Nat, list : ListType]
  BY <1>1 DEF PacketType
<1> QED BY <1>2

\* Every step keeps the addresses real.
LEMMA NextAddressInv ==
  ASSUME AInv, AddressInv, [Next]_vars
  PROVE  AddressInv'
<1>1. /\ store \in [Stations -> StoreType] /\ address \in [Vehicles -> Nat]
      /\ \A s \in Stations : AddressedOK(store[s].v2v, store[s].addr)
      /\ \A s \in Stations : store[s].v2v \subseteq Vehicles
  BY DEF AInv, TypeOK, AddressInv, StoreType
<1>2. CASE address' = address /\ store' = store /\ packets' \subseteq packets
  BY <1>2, AddressFrame
<1>3. ASSUME NEW s \in Stations, ObjectExpiryCheck(s) PROVE AddressInv'
  <2> DEFINE st == CheckObjectExpiry(store[s], now)
  <2>1. /\ store' = [store EXCEPT ![s] = st] /\ address' = address
        /\ packets' = packets
    BY <1>3 DEF ObjectExpiryCheck
  <2>2. AddressedOK(st.v2v, st.addr)
    BY <1>1, OthersAddressed
  <2> HIDE DEF st
  <2> QED BY <2>1, <2>2, AddressFrame
<1>4. ASSUME NEW r \in Rsus, Publish(r) PROVE AddressInv'
  <2> DEFINE st == AfterRead(store[r])
             list == ReadFromStore(store[r])
  <2>1. /\ store' = [store EXCEPT ![r] = st] /\ address' = address
        /\ \/ packets' = packets
           \/ packets' = packets \union
                {[kind |-> "pub", to |-> x.a, list |-> list] : x \in subs[r]}
    BY <1>4 DEF Publish, Send
  <2>2. r \in Stations /\ store[r] \in StoreType
    BY <1>1 DEF Stations
  <2>3. AddressedOK(st.v2v, st.addr)
    BY <1>1, <2>2, OthersAddressed
  <2>4. list.v2v = store[r].v2v /\ list.addr = store[r].addr
    BY DEF ReadFromStore
  <2> HIDE DEF st, list
  <2>5. ASSUME NEW m \in packets', m \notin packets
        PROVE  m.kind = "pub" /\ m.list = list
    <3>1. PICK x \in subs[r] : m = [kind |-> "pub", to |-> x.a, list |-> list]
      BY <2>1, <2>5
    <3> QED BY <3>1
  <2>6. \A m \in packets' : m \in packets \/ CarriedOK(m)
    BY <1>1, <2>2, <2>4, <2>5 DEF CarriedOK
  <2> QED BY <2>1, <2>2, <2>3, <2>6, AddressFrame
<1>5. ASSUME NEW r \in Rsus, NEW objects \in SUBSET Vehicles, Detect(r, objects)
      PROVE  AddressInv'
  <2> DEFINE m == DetectedObjects(objects)
             st == UpdateObjects(store[r], m, now)
  <2>1. /\ store' = [store EXCEPT ![r] = st] /\ address' = address
        /\ packets' = packets
    BY <1>5 DEF Detect
  <2>2. r \in Stations
    BY DEF Stations
  <2>3. m.v2v = {}
    BY DEF DetectedObjects
  <2> HIDE DEF m
  <2>4. AddressedOK(m.v2v, m.addr) /\ m.v2v \subseteq Vehicles
    BY <2>3 DEF AddressedOK
  <2>5. AddressedOK(st.v2v, st.addr)
    BY <1>1, <2>2, <2>4, UpdateAddressed
  <2> HIDE DEF st
  <2> QED BY <2>1, <2>2, <2>5, AddressFrame
<1>6. ASSUME NEW m \in packets, UpdateSubscriberList(m) PROVE AddressInv'
  <2> DEFINE st == UpdateObjectTypeAndAddress(store[m.to], m.v, m.a)
  <2>1. /\ store' = [store EXCEPT ![m.to] = st] /\ address' = address
        /\ packets' \subseteq packets /\ m.kind = "sub"
    BY <1>6 DEF UpdateSubscriberList
  <2>2. m.to \in Stations /\ m.v \in Vehicles /\ m.a \in Nat
    BY <2>1, SubPacket
  <2>3. Had(m.v, m.a)
    BY <2>1 DEF AddressInv, CarriedOK
  <2>4. AddressedOK(st.v2v, st.addr)
    BY <1>1, <2>2, <2>3, OthersAddressed
  <2> HIDE DEF st
  <2> QED BY <2>1, <2>2, <2>4, AddressFrame
<1>7. ASSUME NEW v \in Vehicles, NEW m \in packets, ReceiveDtwinMessage(v, m)
      PROVE  AddressInv'
  <2> DEFINE st == UpdateObjects(store[v], m.list, now)
  <2>1. /\ store' = [store EXCEPT ![v] = st] /\ address' = address
        /\ packets' \subseteq packets /\ m.kind = "pub"
    BY <1>7 DEF ReceiveDtwinMessage
  <2>2. v \in Stations /\ m.list.v2v \subseteq Vehicles
    BY <2>1, PubPacket DEF Stations, ListType
  <2>3. AddressedOK(m.list.v2v, m.list.addr)
    BY <2>1 DEF AddressInv, CarriedOK
  <2>4. AddressedOK(st.v2v, st.addr)
    BY <1>1, <2>2, <2>3, UpdateAddressed
  <2> HIDE DEF st
  <2> QED BY <2>1, <2>2, <2>4, AddressFrame
<1>8. ASSUME NEW v \in Vehicles, LocalizerUpdate(v) PROVE AddressInv'
  <2> DEFINE st == [store[v] EXCEPT !.keys = @ \union {v}]
  <2>1. /\ store' = [store EXCEPT ![v] = st] /\ address' = address
        /\ packets' = packets
    BY <1>8 DEF LocalizerUpdate, ReadCurrentLocation
  <2>2. v \in Stations /\ store[v] \in StoreType
    BY <1>1 DEF Stations
  <2>3. st.v2v = store[v].v2v /\ st.addr = store[v].addr
    BY <2>2 DEF StoreType
  <2> HIDE DEF st
  <2> QED BY <1>1, <2>1, <2>2, <2>3, AddressFrame
<1>9. ASSUME NEW v \in Vehicles,
             NEW partners \in SUBSET FindCoopManeuverPartner(v),
             SendCoopManeuverMessage(v, partners)
      PROVE  AddressInv'
  <2> DEFINE st == AfterRead(store[v])
  <2>1. /\ store' = [store EXCEPT ![v] = st] /\ address' = address
        /\ \A m \in packets' :
             \/ m \in packets
             \/ \E o \in partners : /\ m.kind = "man" /\ m.with = o
                                    /\ m.to = store[v].addr[o]
    BY <1>9 DEF SendCoopManeuverMessage, Send
  <2>2. v \in Stations /\ store[v] \in StoreType
    BY <1>1 DEF Stations
  <2>3. \A o \in partners : Had(o, store[v].addr[o])
    BY <1>1, <2>2 DEF FindCoopManeuverPartner, AddressedOK
  <2>4. AddressedOK(st.v2v, st.addr)
    BY <1>1, <2>2, OthersAddressed
  <2> HIDE DEF st
  <2>5. \A m \in packets' : m \in packets \/ CarriedOK(m)
    BY <2>1, <2>3 DEF CarriedOK
  <2> QED BY <2>1, <2>2, <2>4, <2>5, AddressFrame
<1>10. ASSUME NEW v \in Vehicles, NEW to \in SUBSET Rsus, Subscribe(v, to)
       PROVE  AddressInv'
  <2>1. /\ store' = store /\ address' = address
        /\ packets' = packets \union
             {[kind |-> "sub", to |-> r, v |-> v, a |-> address[v],
               ts |-> now] : r \in to}
    BY <1>10 DEF Subscribe, Send
  <2>2. Had(v, address[v])
    BY DEF AddressInv
  <2>3. ASSUME NEW m \in packets', m \notin packets PROVE CarriedOK(m)
    <3>1. PICK r \in to : m = [kind |-> "sub", to |-> r, v |-> v,
                               a |-> address[v], ts |-> now]
      BY <2>1, <2>3
    <3>2. m.kind = "sub" /\ m.v = v /\ m.a = address[v]
      BY <3>1
    <3> QED BY <2>2, <3>2 DEF CarriedOK
  <2> QED BY <2>1, <2>3, AddressFrame
<1>11. ASSUME NEW v \in Vehicles, ReplaceDevice(v) PROVE AddressInv'
  <2> DEFINE c == Cardinality(Vehicles)
             a == address[v] + c
  <2>1. /\ address[v] < v + MaxReplaced * c
        /\ address' = [address EXCEPT ![v] = a]
        /\ store' = store /\ packets' = packets
    BY <1>11 DEF ReplaceDevice
  <2>2. Had(v, address[v]) /\ address[v] \in Nat /\ c \in Nat
    BY <1>1, Counting DEF AddressInv
  <2>3. a \in Devices(v)
    BY <2>1, <2>2, NextDevice DEF Had
  <2>4. a \in Nat /\ address[v] =< a
    BY <2>2
  <2> HIDE DEF a, c
  <2>5. /\ address'[v] = a
        /\ \A o \in Vehicles : address'[o] \in Nat /\ address[o] =< address'[o]
    BY <1>1, <2>1, <2>4
  <2>6. \A o \in Vehicles : \A x \in Devices(o) : x \in Nat
    BY Counting, VehiclesAssumption, TwinBoundsAssumption DEF Devices
  <2>7. \A o \in Vehicles : \A x : Had(o, x) => Had(o, x)'
    BY <1>1, <2>5, <2>6 DEF Had, Devices
  <2>8. \A o \in Vehicles : Had(o, address[o])'
    <3> SUFFICES ASSUME NEW o \in Vehicles PROVE Had(o, address[o])'
      OBVIOUS
    <3>1. CASE o = v
      <4>1. a =< a
        BY <2>4
      <4> QED BY <2>3, <2>5, <3>1, <4>1 DEF Had, Devices
    <3>2. CASE o # v
      <4>1. address'[o] = address[o]
        BY <1>1, <2>1, <3>2
      <4> QED BY <2>7, <4>1 DEF AddressInv, Had, Devices
    <3> QED BY <3>1, <3>2
  <2>9. \A s \in Stations : AddressedOK(store[s].v2v, store[s].addr)'
    BY <1>1, <2>1, <2>7 DEF AddressedOK
  <2>10. ASSUME NEW m \in packets' PROVE CarriedOK(m)'
    <3>1. m \in packets /\ m \in PacketType /\ CarriedOK(m)
      BY <2>1, <2>10 DEF AInv, TypeOK, AddressInv
    <3>2. /\ m.kind = "sub" => m.v \in Vehicles
          /\ m.kind = "pub" => m.list.v2v \subseteq Vehicles
          /\ m.kind = "man" => m.with \in Vehicles
      BY <3>1 DEF PacketType, ListType
    <3> QED BY <2>7, <3>1, <3>2 DEF CarriedOK, AddressedOK
  <2> QED BY <2>8, <2>9, <2>10 DEF AddressInv
<1>12. ASSUME \/ UNCHANGED vars \/ Tick
              \/ \E r \in Rsus : CheckSubscriberExpiry(r)
              \/ \E m \in packets : Lose(m)
              \/ \E v \in Vehicles : LocalizerStart(v)
              \/ \E v \in Vehicles, m \in packets :
                   ReceiveCoopManeuverMessage(v, m)
       PROVE  address' = address /\ store' = store /\ packets' \subseteq packets
  BY <1>12 DEF vars, Tick, CheckSubscriberExpiry, Lose, LocalizerStart,
               ReceiveCoopManeuverMessage
<1> QED
  BY <1>2, <1>3, <1>4, <1>5, <1>6, <1>7, <1>8, <1>9, <1>10, <1>11, <1>12
     DEF Next

\* A vehicle writes to a device that its partner has or had, for any number of
\* vehicles, replaced devices and RSUs.
THEOREM PartnersAddressed == Spec => []PartnerAddressed
<1>1. Init => AddressInv
  <2> SUFFICES ASSUME Init PROVE AddressInv
    OBVIOUS
  <2>1. \A v \in Vehicles : address[v] = v /\ v \in Nat
    BY VehiclesAssumption DEF Init
  <2>2. \A v \in Vehicles : Had(v, address[v])
    BY <2>1, FirstDevice DEF Had
  <2>3. \A s \in Stations : store[s].v2v = {}
    BY DEF Init, EmptyStore
  <2> QED BY <2>2, <2>3 DEF AddressInv, AddressedOK, Init
<1>2. AInv /\ AddressInv /\ [Next]_vars => AddressInv'
  BY NextAddressInv
<1>3. AddressInv => PartnerAddressed
  BY DEF AddressInv, CarriedOK, Had, Devices, PartnerAddressed
<1> QED BY <1>1, <1>2, <1>3, Invariance, PTL DEF Spec

-----------------------------------------------------------------------------
(* Subscriptions: the steps.                                               *)

LEMMA SubscriptionIs ==
  \A i : i \in Subscriptions <=>
           \/ \E r \in Rsus : i \in subs[r]
           \/ \E m \in packets : m.kind = "sub" /\ i = Record(m)
  BY DEF Subscriptions

LEMMA SubscriptionType ==
  ASSUME TypeOK, NEW i \in Subscriptions
  PROVE  i.v \in Vehicles /\ i.a \in Nat /\ i.ts \in Nat
<1>1. CASE \E r \in Rsus : i \in subs[r]
  BY <1>1 DEF TypeOK
<1>2. ASSUME NEW m \in packets, m.kind = "sub", i = Record(m)
      PROVE  i.v \in Vehicles /\ i.a \in Nat /\ i.ts \in Nat
  <2>1. m.v \in Vehicles /\ m.a \in Nat /\ m.ts \in Nat
    BY <1>2 DEF TypeOK, PacketType
  <2> QED BY <1>2, <2>1 DEF Record
<1> QED BY <1>1, <1>2, SubscriptionIs

\* A step that subscribes nobody.
LEMMA SubscriptionsFrame ==
  ASSUME AInv, SubscriptionsInv, now' \in Nat, now =< now',
         \A v \in Vehicles : address'[v] \in Nat /\ address[v] =< address'[v],
         \A i \in Subscriptions' : i \in Subscriptions,
         \A r \in Rsus : \A x, y \in subs'[r] : x.v = y.v => x = y
  PROVE  SubscriptionsInv'
<1>1. TypeOK /\ now \in Nat /\ address \in [Vehicles -> Nat]
  BY DEF AInv, TypeOK
<1>2. \A i \in Subscriptions : i.v \in Vehicles /\ i.a \in Nat /\ i.ts \in Nat
  BY <1>1, SubscriptionType
<1>3. \A i \in Subscriptions' : i.ts =< now' /\ i.a =< address'[i.v]
  BY <1>1, <1>2 DEF SubscriptionsInv
<1>4. \A i, j \in Subscriptions' : i.v = j.v /\ i.ts < j.ts => i.a =< j.a
  BY DEF SubscriptionsInv
<1> QED BY <1>3, <1>4 DEF SubscriptionsInv

\* Fewer records, and packets other than subscriptions.
LEMMA FewerSubscriptions ==
  ASSUME AInv, SubscriptionsInv, now' \in Nat, now =< now',
         \A v \in Vehicles : address'[v] \in Nat /\ address[v] =< address'[v],
         \A r \in Rsus : subs'[r] \subseteq subs[r],
         \A m \in packets' : m \in packets \/ m.kind # "sub"
  PROVE  SubscriptionsInv'
<1>1. \A i \in Subscriptions' :
        \/ \E r \in Rsus : i \in subs'[r]
        \/ \E m \in packets' : m.kind = "sub" /\ i = Record(m)
  BY DEF Subscriptions
<1>2. \A i \in Subscriptions' : i \in Subscriptions
  BY <1>1, SubscriptionIs
<1>3. \A r \in Rsus : \A x, y \in subs'[r] : x.v = y.v => x = y
  BY DEF SubscriptionsInv
<1> QED BY <1>2, <1>3, SubscriptionsFrame

\* A record is replaced by one of the records or of the packets.
LEMMA RecordsUpdated ==
  ASSUME AInv, NEW m \in packets, UpdateSubscriberList(m)
  PROVE  /\ m.kind = "sub" /\ m.to \in Rsus
         /\ subs' = [subs EXCEPT ![m.to] =
                       UpdatedRecords(subs[m.to], Record(m))]
         /\ Record(m) \in Subscriptions
<1>1. m.kind = "sub"
  BY DEF UpdateSubscriberList
<1>2. m.to \in Rsus
  BY <1>1, SubPacket
<1>3. subs' = [subs EXCEPT ![m.to] = UpdatedRecords(subs[m.to], Record(m))]
  BY DEF UpdateSubscriberList, Record
<1> QED BY <1>1, <1>2, <1>3, SubscriptionIs

LEMMA SubscribeStep ==
  ASSUME AInv, SubscriptionsInv, NEW v \in Vehicles, NEW to \in SUBSET Rsus,
         Subscribe(v, to)
  PROVE  SubscriptionsInv'
<1> DEFINE a == address[v]
           new == [v |-> v, a |-> a, ts |-> now]
<1>1. /\ now' = now /\ address' = address /\ subs' = subs
      /\ packets' = packets \union
           {[kind |-> "sub", to |-> r, v |-> v, a |-> a, ts |-> now] : r \in to}
  BY DEF Subscribe, Send
<1>2. TypeOK /\ now \in Nat /\ a \in Nat
  BY DEF AInv, TypeOK
<1>3. new.v = v /\ new.a = a /\ new.ts = now
  OBVIOUS
<1> HIDE DEF a
<1>4. ASSUME NEW m \in packets', m \notin packets PROVE Record(m) = new
  <2>1. PICK r \in to : m = [kind |-> "sub", to |-> r, v |-> v, a |-> a,
                             ts |-> now]
    BY <1>1, <1>4
  <2> QED BY <2>1 DEF Record
<1> HIDE DEF new
<1>5. \A i \in Subscriptions' : i \in Subscriptions \/ i = new
  <2>1. \A i \in Subscriptions' :
          \/ \E r \in Rsus : i \in subs'[r]
          \/ \E m \in packets' : m.kind = "sub" /\ i = Record(m)
    BY DEF Subscriptions
  <2> QED BY <1>1, <1>4, <2>1, SubscriptionIs
<1>6. \A i \in Subscriptions : i.v \in Vehicles /\ i.a \in Nat /\ i.ts \in Nat
  BY <1>2, SubscriptionType
<1>7. \A i \in Subscriptions : i.ts =< now /\ i.a =< address[i.v]
  BY DEF SubscriptionsInv
<1>8. \A i \in Subscriptions' : i.ts =< now' /\ i.a =< address'[i.v]
  BY <1>1, <1>2, <1>3, <1>5, <1>7 DEF a
<1>9. ASSUME NEW i \in Subscriptions', NEW j \in Subscriptions', i.v = j.v,
             i.ts < j.ts
      PROVE  i.a =< j.a
  <2>1. CASE i = new
    BY <1>2, <1>3, <1>5, <1>6, <1>7, <1>9, <2>1
  <2>2. CASE i \in Subscriptions /\ j = new
    BY <1>3, <1>7, <1>9, <2>2 DEF a
  <2>3. CASE i \in Subscriptions /\ j \in Subscriptions
    BY <1>9, <2>3 DEF SubscriptionsInv
  <2> QED BY <1>5, <2>1, <2>2, <2>3
<1> QED BY <1>1, <1>8, <1>9 DEF SubscriptionsInv

LEMMA UpdateListStep ==
  ASSUME AInv, SubscriptionsInv, NEW m \in packets, UpdateSubscriberList(m)
  PROVE  SubscriptionsInv'
<1> DEFINE new == Record(m)
<1>1. /\ now' = now /\ address' = address /\ packets' \subseteq packets
  BY DEF UpdateSubscriberList
<1>2. /\ m.to \in Rsus /\ new \in Subscriptions
      /\ subs' = [subs EXCEPT ![m.to] = UpdatedRecords(subs[m.to], new)]
  BY RecordsUpdated
<1>3. now \in Nat /\ address \in [Vehicles -> Nat] /\ DOMAIN subs = Rsus
  BY DEF AInv, TypeOK
<1> HIDE DEF new
<1>4. \A r \in Rsus : subs'[r] = IF r = m.to
                                 THEN UpdatedRecords(subs[r], new) ELSE subs[r]
  BY <1>2, <1>3
<1>5. \A r \in Rsus : \A x \in subs'[r] : x \in subs[r] \/ x = new
  BY <1>4 DEF UpdatedRecords
<1>6. \A r \in Rsus : \A x, y \in subs'[r] : x.v = y.v => x = y
  BY <1>4 DEF UpdatedRecords, SubscriptionsInv
<1>7. \A i \in Subscriptions' : i \in Subscriptions
  <2>1. \A i \in Subscriptions' :
          \/ \E r \in Rsus : i \in subs'[r]
          \/ \E p \in packets' : p.kind = "sub" /\ i = Record(p)
    BY DEF Subscriptions
  <2> QED BY <1>1, <1>2, <1>5, <2>1, SubscriptionIs
<1>8. now' \in Nat /\ now =< now' /\ \A v \in Vehicles :
        address'[v] \in Nat /\ address[v] =< address'[v]
  BY <1>1, <1>3
<1> QED BY <1>6, <1>7, <1>8, SubscriptionsFrame

\* Every step keeps the subscriptions in order.
LEMMA NextSubscriptionsInv ==
  ASSUME AInv, SubscriptionsInv, [Next]_vars
  PROVE  SubscriptionsInv'
<1>1. now \in Nat /\ address \in [Vehicles -> Nat] /\ DOMAIN subs = Rsus
  BY DEF AInv, TypeOK
<1>2. CASE /\ now' \in {now, now + 1} /\ address' = address /\ subs' = subs
           /\ \A m \in packets' : m \in packets \/ m.kind # "sub"
  <2>1. now' \in Nat /\ now =< now' /\ \A v \in Vehicles :
          address'[v] \in Nat /\ address[v] =< address'[v]
    BY <1>1, <1>2
  <2> QED BY <1>2, <2>1, FewerSubscriptions
<1>3. ASSUME NEW r \in Rsus, CheckSubscriberExpiry(r) PROVE SubscriptionsInv'
  <2>1. /\ now' = now /\ address' = address /\ packets' = packets
        /\ \A s \in Rsus : subs'[s] \subseteq subs[s]
    BY <1>1, <1>3 DEF CheckSubscriberExpiry
  <2>2. now' \in Nat /\ now =< now' /\ \A v \in Vehicles :
          address'[v] \in Nat /\ address[v] =< address'[v]
    BY <1>1, <2>1
  <2> QED BY <2>1, <2>2, FewerSubscriptions
<1>4. ASSUME NEW r \in Rsus, Publish(r) PROVE SubscriptionsInv'
  <2> DEFINE list == ReadFromStore(store[r])
  <2>1. /\ now' = now /\ address' = address /\ subs' = subs
        /\ \/ packets' = packets
           \/ packets' = packets \union
                {[kind |-> "pub", to |-> x.a, list |-> list] : x \in subs[r]}
    BY <1>4 DEF Publish, Send
  <2> HIDE DEF list
  <2>2. ASSUME NEW m \in packets', m \notin packets PROVE m.kind # "sub"
    <3>1. PICK x \in subs[r] : m = [kind |-> "pub", to |-> x.a, list |-> list]
      BY <2>1, <2>2
    <3> QED BY <3>1
  <2> QED BY <1>2, <2>1, <2>2
<1>5. ASSUME NEW v \in Vehicles, NEW partners \in SUBSET Vehicles,
             SendCoopManeuverMessage(v, partners)
      PROVE  SubscriptionsInv'
  <2>1. /\ now' = now /\ address' = address /\ subs' = subs
        /\ \A m \in packets' : m \in packets \/ m.kind = "man"
    BY <1>5 DEF SendCoopManeuverMessage, Send
  <2> QED BY <1>2, <2>1
<1>6. ASSUME NEW v \in Vehicles, ReplaceDevice(v) PROVE SubscriptionsInv'
  <2> DEFINE c == Cardinality(Vehicles)
  <2>1. /\ now' = now /\ address' = [address EXCEPT ![v] = @ + c]
        /\ subs' = subs /\ packets' = packets
    BY <1>6 DEF ReplaceDevice
  <2>2. c \in Nat
    BY Counting
  <2> HIDE DEF c
  <2>3. now' \in Nat /\ now =< now' /\ \A o \in Vehicles :
          address'[o] \in Nat /\ address[o] =< address'[o]
    BY <1>1, <2>1, <2>2
  <2> QED BY <2>1, <2>3, FewerSubscriptions
<1>7. ASSUME NEW v \in Vehicles, NEW to \in SUBSET Rsus, Subscribe(v, to)
      PROVE  SubscriptionsInv'
  BY <1>7, SubscribeStep
<1>8. ASSUME NEW m \in packets, UpdateSubscriberList(m) PROVE SubscriptionsInv'
  BY <1>8, UpdateListStep
<1>9. ASSUME \/ UNCHANGED vars \/ Tick
             \/ \E s \in Stations : ObjectExpiryCheck(s)
             \/ \E r \in Rsus, objects \in SUBSET Vehicles : Detect(r, objects)
             \/ \E m \in packets : Lose(m)
             \/ \E v \in Vehicles, m \in packets : ReceiveDtwinMessage(v, m)
             \/ \E v \in Vehicles : LocalizerStart(v) \/ LocalizerUpdate(v)
             \/ \E v \in Vehicles, m \in packets :
                  ReceiveCoopManeuverMessage(v, m)
      PROVE  /\ now' \in {now, now + 1} /\ address' = address /\ subs' = subs
             /\ packets' \subseteq packets
  BY <1>9 DEF vars, Tick, ObjectExpiryCheck, Detect, Lose, ReceiveDtwinMessage,
              LocalizerStart, LocalizerUpdate, ReceiveCoopManeuverMessage
<1>10. \A v \in Vehicles : FindCoopManeuverPartner(v) \subseteq Vehicles
  BY DEF FindCoopManeuverPartner, Listed, ReadFromStore, AInv, TypeOK,
         StoreType, Stations
<1> QED
  BY <1>2, <1>3, <1>4, <1>5, <1>6, <1>7, <1>8, <1>9, <1>10 DEF Next

LEMMA InitSubscriptionsInv == Init => SubscriptionsInv
<1> SUFFICES ASSUME Init PROVE SubscriptionsInv
  OBVIOUS
<1>1. \A r \in Rsus : subs[r] = {}
  BY DEF Init
<1>2. packets = {}
  BY DEF Init
<1>3. \A i : i \notin Subscriptions
  BY <1>1, <1>2, SubscriptionIs
<1> QED BY <1>1, <1>3 DEF SubscriptionsInv

\* What a step does to subscriptions: new ones come from current devices, and a
\* record stays, is outdated, or gives way to a more recent one.
LEMMA SubscriptionSteps ==
  ASSUME AInv, [Next]_vars
  PROVE  /\ now' \in Nat /\ now =< now'
         /\ \A v \in Vehicles : address'[v] \in Nat /\ address[v] =< address'[v]
         /\ \A i \in Subscriptions' : i \in Subscriptions \/ i.a = address[i.v]
         /\ \A r \in Rsus : \A y \in subs[r] :
              \/ y \in subs'[r] \/ Outdated(y)
              \/ \E z \in subs'[r] :
                   z \in Subscriptions /\ z.v = y.v /\ y.ts < z.ts
<1> DEFINE Later == /\ now' \in Nat /\ now =< now'
                    /\ \A v \in Vehicles :
                         address'[v] \in Nat /\ address[v] =< address'[v]
           Sources == \A i \in Subscriptions' :
                        i \in Subscriptions \/ i.a = address[i.v]
           Successors == \A r \in Rsus : \A y \in subs[r] :
                           \/ y \in subs'[r] \/ Outdated(y)
                           \/ \E z \in subs'[r] : /\ z \in Subscriptions
                                                  /\ z.v = y.v /\ y.ts < z.ts
<1>1. now \in Nat /\ address \in [Vehicles -> Nat] /\ DOMAIN subs = Rsus
  BY DEF AInv, TypeOK
<1>2. \A i \in Subscriptions' :
        \/ \E r \in Rsus : i \in subs'[r]
        \/ \E m \in packets' : m.kind = "sub" /\ i = Record(m)
  BY DEF Subscriptions
<1>3. ASSUME \A r \in Rsus : subs'[r] \subseteq subs[r],
             \A m \in packets' : m \in packets \/ m.kind # "sub"
      PROVE  Sources
  BY <1>2, <1>3, SubscriptionIs
<1>4. ASSUME now' \in {now, now + 1}, address' = address
      PROVE  Later
  BY <1>1, <1>4
<1>5. ASSUME /\ now' \in {now, now + 1} /\ address' = address /\ subs' = subs
             /\ \A m \in packets' : m \in packets \/ m.kind # "sub"
      PROVE  Later /\ Sources /\ Successors
  BY <1>3, <1>4, <1>5
<1>6. ASSUME NEW r \in Rsus, CheckSubscriberExpiry(r)
      PROVE  Later /\ Sources /\ Successors
  <2>1. /\ now' = now /\ address' = address /\ packets' = packets
        /\ subs' = [subs EXCEPT ![r] =
                      {x \in subs[r] : now - x.ts < SubscriberMaxAge}]
    BY <1>6 DEF CheckSubscriberExpiry
  <2>2. \A q \in Rsus : subs'[q] \subseteq subs[q]
    BY <1>1, <2>1
  <2>3. \A q \in Rsus : \A y \in subs[q] : y.ts \in Nat
    BY DEF AInv, TypeOK
  <2>4. Successors
    BY <1>1, <2>1, <2>3, TimesAssumption DEF Outdated
  <2> QED BY <1>3, <1>4, <2>1, <2>2, <2>4
<1>7. ASSUME NEW m \in packets, UpdateSubscriberList(m)
      PROVE  Later /\ Sources /\ Successors
  <2> DEFINE new == Record(m)
  <2>1. now' = now /\ address' = address /\ packets' \subseteq packets
    BY <1>7 DEF UpdateSubscriberList
  <2>2. /\ m.to \in Rsus /\ new \in Subscriptions
        /\ subs' = [subs EXCEPT ![m.to] = UpdatedRecords(subs[m.to], new)]
    BY <1>7, RecordsUpdated
  <2> HIDE DEF new
  <2>3. \A r \in Rsus : subs'[r] = IF r = m.to
                                   THEN UpdatedRecords(subs[r], new)
                                   ELSE subs[r]
    BY <1>1, <2>2
  <2>4. \A r \in Rsus : \A x \in subs'[r] : x \in subs[r] \/ x = new
    BY <2>3 DEF UpdatedRecords
  <2>5. Sources
    BY <1>2, <2>1, <2>2, <2>4, SubscriptionIs
  <2>6. Successors
    BY <2>2, <2>3 DEF UpdatedRecords
  <2> QED BY <1>4, <2>1, <2>5, <2>6
<1>8. ASSUME NEW v \in Vehicles, NEW to \in SUBSET Rsus, Subscribe(v, to)
      PROVE  Later /\ Sources /\ Successors
  <2>1. /\ now' = now /\ address' = address /\ subs' = subs
        /\ packets' = packets \union
             {[kind |-> "sub", to |-> r, v |-> v, a |-> address[v],
               ts |-> now] : r \in to}
    BY <1>8 DEF Subscribe, Send
  <2>2. ASSUME NEW m \in packets', m \notin packets
        PROVE  Record(m).a = address[Record(m).v]
    <3>1. PICK r \in to : m = [kind |-> "sub", to |-> r, v |-> v,
                               a |-> address[v], ts |-> now]
      BY <2>1, <2>2
    <3> QED BY <3>1 DEF Record
  <2>3. Sources
    BY <1>2, <2>1, <2>2, SubscriptionIs
  <2> QED BY <1>4, <2>1, <2>3
<1>9. ASSUME NEW v \in Vehicles, ReplaceDevice(v)
      PROVE  Later /\ Sources /\ Successors
  <2> DEFINE c == Cardinality(Vehicles)
  <2>1. /\ now' = now /\ address' = [address EXCEPT ![v] = @ + c]
        /\ subs' = subs /\ packets' = packets
    BY <1>9 DEF ReplaceDevice
  <2>2. c \in Nat
    BY Counting
  <2> HIDE DEF c
  <2>3. Later
    BY <1>1, <2>1, <2>2
  <2> QED BY <1>3, <2>1, <2>3
<1>10. ASSUME NEW r \in Rsus, Publish(r) PROVE Later /\ Sources /\ Successors
  <2> DEFINE list == ReadFromStore(store[r])
  <2>1. /\ now' = now /\ address' = address /\ subs' = subs
        /\ \/ packets' = packets
           \/ packets' = packets \union
                {[kind |-> "pub", to |-> x.a, list |-> list] : x \in subs[r]}
    BY <1>10 DEF Publish, Send
  <2> HIDE DEF list
  <2>2. ASSUME NEW m \in packets', m \notin packets PROVE m.kind # "sub"
    <3>1. PICK x \in subs[r] : m = [kind |-> "pub", to |-> x.a, list |-> list]
      BY <2>1, <2>2
    <3> QED BY <3>1
  <2> QED BY <1>5, <2>1, <2>2
<1>11. ASSUME NEW v \in Vehicles,
              NEW partners \in SUBSET FindCoopManeuverPartner(v),
              SendCoopManeuverMessage(v, partners)
       PROVE  Later /\ Sources /\ Successors
  <2>1. /\ now' = now /\ address' = address /\ subs' = subs
        /\ \A m \in packets' : m \in packets \/ m.kind = "man"
    BY <1>11 DEF SendCoopManeuverMessage, Send
  <2> QED BY <1>5, <2>1
<1>12. ASSUME \/ UNCHANGED vars \/ Tick
              \/ \E s \in Stations : ObjectExpiryCheck(s)
              \/ \E r \in Rsus, objects \in SUBSET Vehicles : Detect(r, objects)
              \/ \E m \in packets : Lose(m)
              \/ \E v \in Vehicles, m \in packets : ReceiveDtwinMessage(v, m)
              \/ \E v \in Vehicles : LocalizerStart(v) \/ LocalizerUpdate(v)
              \/ \E v \in Vehicles, m \in packets :
                   ReceiveCoopManeuverMessage(v, m)
       PROVE  /\ now' \in {now, now + 1} /\ address' = address /\ subs' = subs
              /\ packets' \subseteq packets
  BY <1>12 DEF vars, Tick, ObjectExpiryCheck, Detect, Lose,
               ReceiveDtwinMessage, LocalizerStart, LocalizerUpdate,
               ReceiveCoopManeuverMessage
<1> HIDE DEF Later, Sources, Successors
<1>13. Later /\ Sources /\ Successors
  BY <1>5, <1>6, <1>7, <1>8, <1>9, <1>10, <1>11, <1>12 DEF Next
<1> QED BY <1>13 DEF Later, Sources, Successors

\* What an RSU keeps of having had device a of v: a record of that device or of a
\* later one, or the certainty that all subscriptions of earlier ones are too old.
Moved(r, v, a) ==
  /\ a =< address[v]
  /\ \/ \E y \in subs[r] : y.v = v /\ y.a >= a
     \/ \A i \in Subscriptions : i.v = v /\ i.a < a => Outdated(i)

LEMMA MovedStays ==
  ASSUME AInv, SubscriptionsInv, [Next]_vars, NEW r \in Rsus, NEW v \in Vehicles,
         NEW a \in Nat, Moved(r, v, a)
  PROVE  Moved(r, v, a)'
<1>1. /\ now \in Nat /\ now' \in Nat /\ now =< now'
      /\ address[v] \in Nat /\ address'[v] \in Nat /\ address[v] =< address'[v]
      /\ SubscriberMaxAge \in Nat
  BY SubscriptionSteps, TimesAssumption DEF AInv, TypeOK
<1>2. \A i \in Subscriptions : i.v \in Vehicles /\ i.a \in Nat /\ i.ts \in Nat
  BY SubscriptionType DEF AInv
<1>3. a =< address'[v]
  BY <1>1 DEF Moved
<1>4. ASSUME \A i \in Subscriptions : i.v = v /\ i.a < a => Outdated(i)
      PROVE  \A i \in Subscriptions' : i.v = v /\ i.a < a => Outdated(i)'
  <2> SUFFICES ASSUME NEW i \in Subscriptions', i.v = v, i.a < a
               PROVE  Outdated(i)'
    OBVIOUS
  <2>1. i \in Subscriptions
    <3>1. a =< address[v]
      BY DEF Moved
    <3>2. i.a # address[i.v]
      BY <1>1, <3>1
    <3> QED BY <3>2, SubscriptionSteps
  <2>2. now - i.ts >= SubscriberMaxAge
    BY <1>4, <2>1 DEF Outdated
  <2> QED BY <1>1, <1>2, <2>1, <2>2 DEF Outdated
<1>5. ASSUME NEW y \in subs[r], y.v = v, y.a >= a
      PROVE  \/ \E z \in subs'[r] : z.v = v /\ z.a >= a
             \/ \A i \in Subscriptions : i.v = v /\ i.a < a => Outdated(i)
  <2>1. y \in Subscriptions
    BY SubscriptionIs
  <2>2. CASE y \in subs'[r]
    BY <1>5, <2>2
  <2>3. CASE Outdated(y)
    <3> SUFFICES ASSUME NEW i \in Subscriptions, i.v = v, i.a < a
                 PROVE  Outdated(i)
      OBVIOUS
    <3>1. ~(y.ts < i.ts)
      BY <1>2, <1>5, <2>1 DEF SubscriptionsInv
    <3> QED BY <1>1, <1>2, <2>1, <2>3, <3>1 DEF Outdated
  <2>4. ASSUME NEW z \in subs'[r], z \in Subscriptions, z.v = y.v, y.ts < z.ts
        PROVE  z.v = v /\ z.a >= a
    <3>1. y.a =< z.a
      BY <2>1, <2>4 DEF SubscriptionsInv
    <3> QED BY <1>2, <1>5, <2>1, <2>4, <3>1
  <2> QED BY <2>2, <2>3, <2>4, SubscriptionSteps
<1>6. \/ \E z \in subs'[r] : z.v = v /\ z.a >= a
      \/ \A i \in Subscriptions : i.v = v /\ i.a < a => Outdated(i)
  BY <1>5 DEF Moved
<1> QED BY <1>3, <1>4, <1>6 DEF Moved

\* Once an RSU has had a device of a vehicle, it has an earlier one only by a
\* subscription past its age limit, for any RSUs, vehicles, age limits,
\* replacements and delays.
THEOREM EarlierDevicesOutdated == Spec => EarlierDeviceOutdated
<1> DEFINE Back(r, v, a) == \A x \in subs[r] : x.v = v /\ x.a < a => Outdated(x)
<1> SUFFICES ASSUME NEW r \in Rsus, NEW v \in Vehicles,
                    NEW a \in Devices(v) \ {v}
             PROVE  Spec => [](HasDevice(r, v, a) => []Back(r, v, a))
  BY DEF EarlierDeviceOutdated
<1>1. a \in Nat
  BY DeviceNumbers
<1>2. AInv /\ SubscriptionsInv /\ HasDevice(r, v, a) => Moved(r, v, a)
  <2> SUFFICES ASSUME AInv, SubscriptionsInv, NEW x \in subs[r], x.v = v, x.a = a
               PROVE  Moved(r, v, a)
    BY DEF HasDevice
  <2>1. x \in Subscriptions
    BY SubscriptionIs
  <2>2. a =< address[v] /\ x.a >= a
    BY <1>1, <2>1 DEF SubscriptionsInv
  <2> QED BY <2>2 DEF Moved
<1>3. AInv /\ SubscriptionsInv /\ Moved(r, v, a) => Back(r, v, a)
  <2> SUFFICES ASSUME AInv, SubscriptionsInv, Moved(r, v, a),
                      NEW x \in subs[r], x.v = v, x.a < a
               PROVE  Outdated(x)
    OBVIOUS
  <2>1. x \in Subscriptions /\ x.a \in Nat
    BY SubscriptionIs, SubscriptionType DEF AInv
  <2>2. \A y \in subs[r] : y.v = v => y = x
    BY DEF SubscriptionsInv
  <2> QED BY <1>1, <2>1, <2>2 DEF Moved
<1>4. AInv /\ SubscriptionsInv /\ [Next]_vars /\ Moved(r, v, a)
        => Moved(r, v, a)'
  BY <1>1, MovedStays
<1>5. AInv /\ SubscriptionsInv /\ [Next]_vars => SubscriptionsInv'
  BY NextSubscriptionsInv
<1> HIDE DEF Back
<1> QED
  BY <1>2, <1>3, <1>4, <1>5, InitSubscriptionsInv, Invariance, PTL DEF Spec

-----------------------------------------------------------------------------
(* The age of data that replace each other: the steps.                     *)

\* What updateObjects does to one entry.
LEMMA UpdateEffect ==
  ASSUME NEW st, NEW m, NEW t, NEW o \in Vehicles
  PROVE  LET u == UpdateObjects(st, m, t)
         IN  \/ u.ts[o] = st.ts[o] /\ u.seen[o] = st.seen[o]
             \/ /\ o \in Newer(st, m)
                /\ u.ts[o] = m.ts /\ u.seen[o] = m.seen[o]
<1> DEFINE fresh == IF t - m.ts < MaxAge THEN Newer(st, m) ELSE {}
           u == UpdateObjects(st, m, t)
<1>1. /\ u.ts[o] = IF o \in fresh THEN m.ts ELSE st.ts[o]
      /\ u.seen[o] = IF o \in fresh THEN m.seen[o] ELSE st.seen[o]
  BY DEF UpdateObjects, Taken
<1>2. o \in fresh => o \in Newer(st, m)
  OBVIOUS
<1> HIDE DEF fresh, u
<1> QED BY <1>1, <1>2 DEF u

\* What an expiry check does to one entry.
LEMMA ExpiryEffect ==
  ASSUME NEW st \in StoreType, NEW t, NEW o \in Vehicles
  PROVE  LET u == CheckObjectExpiry(st, t)
         IN  \/ u.ts[o] = st.ts[o] /\ u.seen[o] = st.seen[o]
             \/ u.ts[o] = 0 /\ u.seen[o] = 0
  BY DEF CheckObjectExpiry, StoreType, Erase

\* An entry of a store stays as it is, or is erased.
Quiet(s, o) ==
  \/ store'[s].ts[o] = store[s].ts[o] /\ store'[s].seen[o] = store[s].seen[o]
  \/ store'[s].ts[o] = 0 /\ store'[s].seen[o] = 0

\* The steps that bring no data.
QuietStep ==
  /\ \A s \in Stations, o \in Vehicles : Quiet(s, o)
  /\ \A m \in packets' : m.kind = "pub" => m \in packets
  /\ now' \in {now, now + 1}

\* Only a detection, a publication and its arrival bring data.
LEMMA DataSteps ==
  ASSUME AInv, [Next]_vars
  PROVE  \/ QuietStep
         \/ \E q \in Rsus : Publish(q)
         \/ \E q \in Rsus, objects \in SUBSET Vehicles : Detect(q, objects)
         \/ \E v \in Vehicles, m \in packets : ReceiveDtwinMessage(v, m)
<1>1. store \in [Stations -> StoreType] /\ Rsus \subseteq Stations
      /\ Vehicles \subseteq Stations
  BY DEF AInv, TypeOK, Stations
<1>2. CASE /\ store' = store /\ packets' \subseteq packets
           /\ now' \in {now, now + 1}
  BY <1>2 DEF QuietStep, Quiet
<1>3. ASSUME \/ UNCHANGED vars \/ Tick
             \/ \E q \in Rsus : CheckSubscriberExpiry(q)
             \/ \E m \in packets : Lose(m)
             \/ \E v \in Vehicles : ReplaceDevice(v) \/ LocalizerStart(v)
             \/ \E v \in Vehicles, m \in packets :
                  ReceiveCoopManeuverMessage(v, m)
      PROVE  /\ store' = store /\ packets' \subseteq packets
             /\ now' \in {now, now + 1}
  BY <1>3 DEF vars, Tick, CheckSubscriberExpiry, Lose, ReplaceDevice,
              LocalizerStart, ReceiveCoopManeuverMessage
<1>4. ASSUME NEW s \in Stations, ObjectExpiryCheck(s) PROVE QuietStep
  <2> DEFINE st == CheckObjectExpiry(store[s], now)
  <2>1. /\ store' = [store EXCEPT ![s] = st] /\ now' = now
        /\ packets' = packets
    BY <1>4 DEF ObjectExpiryCheck
  <2>2. \A o \in Vehicles :
          \/ st.ts[o] = store[s].ts[o] /\ st.seen[o] = store[s].seen[o]
          \/ st.ts[o] = 0 /\ st.seen[o] = 0
    BY <1>1, ExpiryEffect
  <2> HIDE DEF st
  <2> QED BY <1>1, <2>1, <2>2 DEF QuietStep, Quiet
<1>5. ASSUME NEW m \in packets, UpdateSubscriberList(m) PROVE QuietStep
  <2> DEFINE st == UpdateObjectTypeAndAddress(store[m.to], m.v, m.a)
  <2>1. /\ store' = [store EXCEPT ![m.to] = st] /\ now' = now
        /\ packets' \subseteq packets /\ m.kind = "sub"
    BY <1>5 DEF UpdateSubscriberList
  <2>2. m.to \in Stations
    BY <2>1, SubPacket
  <2>3. st.ts = store[m.to].ts /\ st.seen = store[m.to].seen
    BY <1>1, <2>2 DEF UpdateObjectTypeAndAddress, StoreType
  <2> HIDE DEF st
  <2> QED BY <1>1, <2>1, <2>2, <2>3 DEF QuietStep, Quiet
<1>6. ASSUME NEW v \in Vehicles, LocalizerUpdate(v) PROVE QuietStep
  <2> DEFINE st == [store[v] EXCEPT !.keys = @ \union {v}]
  <2>1. /\ store' = [store EXCEPT ![v] = st] /\ now' = now
        /\ packets' = packets
    BY <1>6 DEF LocalizerUpdate, ReadCurrentLocation
  <2>2. st.ts = store[v].ts /\ st.seen = store[v].seen
    BY <1>1 DEF StoreType
  <2> HIDE DEF st
  <2> QED BY <1>1, <2>1, <2>2 DEF QuietStep, Quiet
<1>7. ASSUME NEW v \in Vehicles,
             NEW partners \in SUBSET FindCoopManeuverPartner(v),
             SendCoopManeuverMessage(v, partners)
      PROVE  QuietStep
  <2> DEFINE st == AfterRead(store[v])
  <2>1. /\ store' = [store EXCEPT ![v] = st] /\ now' = now
        /\ \A m \in packets' : m \in packets \/ m.kind = "man"
       
    BY <1>7 DEF SendCoopManeuverMessage, Send
  <2>2. st.ts = store[v].ts /\ st.seen = store[v].seen
    BY <1>1 DEF AfterRead, StoreType
  <2> HIDE DEF st
  <2> QED BY <1>1, <2>1, <2>2 DEF QuietStep, Quiet
<1>8. ASSUME NEW v \in Vehicles, NEW to \in SUBSET Rsus, Subscribe(v, to)
      PROVE  QuietStep
  <2>1. /\ store' = store /\ now' = now
        /\ packets' = packets \union
             {[kind |-> "sub", to |-> q, v |-> v, a |-> address[v],
               ts |-> now] : q \in to}
    BY <1>8 DEF Subscribe, Send
  <2>2. ASSUME NEW m \in packets', m \notin packets PROVE m.kind # "pub"
    <3>1. PICK q \in to : m = [kind |-> "sub", to |-> q, v |-> v,
                               a |-> address[v], ts |-> now]
      BY <2>1, <2>2
    <3> QED BY <3>1
  <2> QED BY <2>1, <2>2 DEF QuietStep, Quiet
<1> QED
  BY <1>2, <1>3, <1>4, <1>5, <1>6, <1>7, <1>8 DEF Next

\* Detections are the RSU's own data, and as new as can be.
LEMMA DetectEffect ==
  ASSUME AInv, NEW r \in Rsus, NEW objects \in SUBSET Vehicles,
         Detect(r, objects)
  PROVE  /\ now' = now /\ packets' = packets
         /\ \A s \in Stations : s # r => store'[s] = store[s]
         /\ \A o \in Vehicles :
              \/ /\ store'[r].ts[o] = store[r].ts[o]
                 /\ store'[r].seen[o] = store[r].seen[o]
              \/ store'[r].ts[o] = now /\ store'[r].seen[o] = now
<1> DEFINE m == DetectedObjects(objects)
           st == UpdateObjects(store[r], m, now)
<1>1. /\ store' = [store EXCEPT ![r] = st] /\ now' = now
      /\ packets' = packets
  BY DEF Detect
<1>2. m.ts = now /\ \A o \in Vehicles : m.seen[o] = now
  BY DEF DetectedObjects
<1> HIDE DEF m
<1>3. \A o \in Vehicles :
        \/ st.ts[o] = store[r].ts[o] /\ st.seen[o] = store[r].seen[o]
        \/ st.ts[o] = m.ts /\ st.seen[o] = m.seen[o]
  BY UpdateEffect
<1>4. r \in Stations /\ DOMAIN store = Stations
  BY DEF AInv, TypeOK, Stations
<1> HIDE DEF st
<1> QED BY <1>1, <1>2, <1>3, <1>4

\* A vehicle takes an entry of a publication as it is, or keeps its own.
LEMMA ReceiveEffect ==
  ASSUME AInv, NEW v \in Vehicles, NEW m \in packets, ReceiveDtwinMessage(v, m)
  PROVE  /\ now' = now /\ packets' \subseteq packets
         /\ m.kind = "pub"
         /\ \A s \in Stations : s # v => store'[s] = store[s]
         /\ \A o \in Vehicles :
              \/ /\ store'[v].ts[o] = store[v].ts[o]
                 /\ store'[v].seen[o] = store[v].seen[o]
              \/ /\ o \in Newer(store[v], m.list)
                 /\ store'[v].ts[o] = m.list.ts
                 /\ store'[v].seen[o] = m.list.seen[o]
<1> DEFINE st == UpdateObjects(store[v], m.list, now)
<1>1. /\ store' = [store EXCEPT ![v] = st] /\ now' = now
      /\ packets' \subseteq packets /\ m.kind = "pub"
  BY DEF ReceiveDtwinMessage
<1>2. \A o \in Vehicles :
        \/ st.ts[o] = store[v].ts[o] /\ st.seen[o] = store[v].seen[o]
        \/ /\ o \in Newer(store[v], m.list)
           /\ st.ts[o] = m.list.ts /\ st.seen[o] = m.list.seen[o]
  BY UpdateEffect
<1>3. v \in Stations /\ DOMAIN store = Stations
  BY DEF AInv, TypeOK, Stations
<1> HIDE DEF st
<1> QED BY <1>1, <1>2, <1>3

\* A publication carries what its RSU has seen, under the time at which it is
\* sent.
LEMMA PublishEffect ==
  ASSUME AInv, NEW r \in Rsus, Publish(r)
  PROVE  /\ now' = now
         /\ \A s \in Stations : /\ store'[s].ts = store[s].ts
                                /\ store'[s].seen = store[s].seen
         /\ \A m \in packets' :
              \/ m \in packets
              \/ m.list.ts = now /\ m.list.seen = store[r].seen
<1> DEFINE st == AfterRead(store[r])
           list == ReadFromStore(store[r])
<1>1. /\ store' = [store EXCEPT ![r] = st] /\ now' = now
      /\ \/ packets' = packets
         \/ packets' = packets \union
              {[kind |-> "pub", to |-> x.a, list |-> list] : x \in subs[r]}
  BY DEF Publish, Send
<1>2. r \in Stations /\ store \in [Stations -> StoreType]
  BY DEF AInv, TypeOK, Stations
<1>3. st.ts = store[r].ts /\ st.seen = store[r].seen
  BY <1>2 DEF AfterRead, StoreType
<1>4. list.ts = now /\ list.seen = store[r].seen
  BY DEF ReadFromStore
<1> HIDE DEF st, list
<1>5. ASSUME NEW m \in packets', m \notin packets
      PROVE  m.list.ts = now /\ m.list.seen = store[r].seen
  <2>1. PICK x \in subs[r] : m = [kind |-> "pub", to |-> x.a, list |-> list]
    BY <1>1, <1>5
  <2>2. m.list = list
    BY <2>1
  <2> QED BY <1>4, <2>2
<1>6. \A s \in Stations : /\ store'[s].ts = store[s].ts
                          /\ store'[s].seen = store[s].seen
  BY <1>1, <1>2, <1>3
<1> QED BY <1>1, <1>5, <1>6

\* No store and no publication has data from after the time it is stamped with,
\* and no stamp is ahead of the clock.
StampInv ==
  /\ \A s \in Stations, o \in Vehicles :
       store[s].seen[o] =< store[s].ts[o] /\ store[s].ts[o] =< now
  /\ \A m \in packets : m.kind = "pub" =>
       m.list.ts =< now /\ \A o \in Vehicles : m.list.seen[o] =< m.list.ts

\* Two RSUs publish at different times what they saw at different times, so an
\* entry may give way to older data; but never to data that are older by more
\* than the time for which an RSU keeps an entry.
SetbackBounded ==
  [][\A s \in Stations, o \in Vehicles :
       store[s].seen[o] # 0 /\ store'[s].seen[o] # 0
         => store'[s].seen[o] >= store[s].seen[o] - Oldest]_vars

\* Every step keeps the stamps ahead of the data.
LEMMA NextStampInv ==
  ASSUME AInv, StampInv, [Next]_vars
  PROVE  StampInv'
<1>1. /\ now \in Nat /\ Rsus \subseteq Stations /\ Vehicles \subseteq Stations
      /\ \A s \in Stations, o \in Vehicles :
           store[s].seen[o] \in Nat /\ store[s].ts[o] \in Nat
  BY DEF AInv, TypeOK, StoreType, Times, Stations
<1>2. ASSUME NEW m \in packets, m.kind = "pub"
      PROVE  /\ m.list.ts \in Nat
             /\ \A o \in Vehicles : m.list.seen[o] \in Nat
  BY <1>2, PubPacket DEF ListType, Times
<1>3. CASE QuietStep
  <2>1. now' \in Nat /\ now =< now'
    BY <1>1, <1>3 DEF QuietStep
  <2>2. \A s \in Stations, o \in Vehicles :
          store'[s].seen[o] =< store'[s].ts[o] /\ store'[s].ts[o] =< now'
    BY <1>1, <1>3, <2>1 DEF QuietStep, Quiet, StampInv
  <2>3. \A m \in packets' : m.kind = "pub" =>
          m.list.ts =< now' /\ \A o \in Vehicles : m.list.seen[o] =< m.list.ts
    BY <1>1, <1>2, <1>3, <2>1 DEF QuietStep, StampInv
  <2> QED BY <2>2, <2>3 DEF StampInv
<1>4. ASSUME NEW r \in Rsus, Publish(r) PROVE StampInv'
  <2>1. \A s \in Stations, o \in Vehicles :
          store'[s].seen[o] =< store'[s].ts[o] /\ store'[s].ts[o] =< now'
    BY <1>4, PublishEffect DEF StampInv
  <2>2. \A o \in Vehicles : store[r].seen[o] =< now
    BY <1>1 DEF StampInv
  <2>3. ASSUME NEW m \in packets', m.kind = "pub"
        PROVE  /\ m.list.ts =< now'
               /\ \A o \in Vehicles : m.list.seen[o] =< m.list.ts
    <3>1. now' = now
      BY <1>4, PublishEffect
    <3>2. now =< now
      BY <1>1
    <3>3. CASE m \in packets
      BY <2>3, <3>1, <3>3 DEF StampInv
    <3>4. CASE m.list.ts = now /\ m.list.seen = store[r].seen
      BY <2>2, <3>1, <3>2, <3>4
    <3> QED BY <1>4, <3>3, <3>4, PublishEffect
  <2> QED BY <2>1, <2>3 DEF StampInv
<1>5. ASSUME NEW r \in Rsus, NEW objects \in SUBSET Vehicles, Detect(r, objects)
      PROVE  StampInv'
  <2>1. \A s \in Stations, o \in Vehicles :
          store'[s].seen[o] =< store'[s].ts[o] /\ store'[s].ts[o] =< now'
    BY <1>1, <1>5, DetectEffect DEF StampInv
  <2>2. now' = now /\ packets' = packets
    BY <1>5, DetectEffect
  <2> QED BY <2>1, <2>2 DEF StampInv
<1>6. ASSUME NEW v \in Vehicles, NEW m \in packets, ReceiveDtwinMessage(v, m)
      PROVE  StampInv'
  <2>1. now' = now /\ packets' \subseteq packets /\ m.kind = "pub"
    BY <1>6, ReceiveEffect
  <2>2. \A s \in Stations, o \in Vehicles :
          store'[s].seen[o] =< store'[s].ts[o] /\ store'[s].ts[o] =< now'
    BY <1>6, <2>1, ReceiveEffect DEF StampInv
  <2> QED BY <2>1, <2>2 DEF StampInv
<1> QED BY <1>3, <1>4, <1>5, <1>6, DataSteps

LEMMA SetbackStep ==
  ASSUME AInv, StampInv, [Next]_vars, NEW s \in Stations, NEW o \in Vehicles,
         store[s].seen[o] # 0, store'[s].seen[o] # 0
  PROVE  store'[s].seen[o] >= store[s].seen[o] - Oldest
<1>1. /\ now \in Nat /\ store[s].seen[o] \in Nat /\ store[s].ts[o] \in Nat
      /\ Oldest \in Nat
  BY TimesAssumption DEF AInv, TypeOK, StoreType, Times, Oldest
<1>2. CASE store'[s].seen[o] = store[s].seen[o]
  BY <1>1, <1>2
<1>3. CASE QuietStep
  BY <1>2, <1>3 DEF QuietStep, Quiet
<1>4. ASSUME NEW r \in Rsus, Publish(r)
      PROVE  store'[s].seen[o] >= store[s].seen[o] - Oldest
  BY <1>2, <1>4, PublishEffect
<1>5. ASSUME NEW r \in Rsus, NEW objects \in SUBSET Vehicles, Detect(r, objects)
      PROVE  store'[s].seen[o] >= store[s].seen[o] - Oldest
  <2>1. CASE store'[s].seen[o] = now
    BY <1>1, <2>1 DEF StampInv
  <2> QED BY <1>2, <1>5, <2>1, DetectEffect
<1>6. ASSUME NEW v \in Vehicles, NEW m \in packets, ReceiveDtwinMessage(v, m),
             s = v, o \in Newer(store[v], m.list),
             store'[v].seen[o] = m.list.seen[o]
      PROVE  store'[s].seen[o] >= store[s].seen[o] - Oldest
  <2>1. m.kind = "pub" /\ m.list \in ListType
    BY <1>6, ReceiveEffect, PubPacket
  <2>2. m.list.ts \in Nat /\ m.list.seen[o] \in Nat
    BY <2>1 DEF ListType, Times
  <2>3. o \in store[v].ids
    BY <1>6 DEF AInv, StoreOK
  <2>4. store[v].ts[o] =< m.list.ts
    BY <1>1, <1>6, <2>2, <2>3 DEF Newer
  <2>5. m.list.ts - m.list.seen[o] =< Oldest
    BY <1>6, <2>1 DEF AInv, ListOK
  <2>6. store[v].seen[o] =< store[v].ts[o]
    BY <1>6 DEF StampInv
  <2> QED BY <1>1, <1>6, <2>2, <2>4, <2>5, <2>6
<1>7. ASSUME NEW v \in Vehicles, NEW m \in packets, ReceiveDtwinMessage(v, m)
      PROVE  store'[s].seen[o] >= store[s].seen[o] - Oldest
  BY <1>2, <1>6, <1>7, ReceiveEffect
<1> QED BY <1>3, <1>4, <1>5, <1>7, DataSteps

\* However many RSUs publish, what a twin knows of an object never falls back by
\* more than the age to which an RSU keeps an entry.
THEOREM SetbacksAreBounded == Spec => SetbackBounded
<1> DEFINE Bounded == \A s \in Stations, o \in Vehicles :
                        store[s].seen[o] # 0 /\ store'[s].seen[o] # 0
                          => store'[s].seen[o] >= store[s].seen[o] - Oldest
<1>1. Init => StampInv
  <2> SUFFICES ASSUME Init PROVE StampInv
    OBVIOUS
  <2>1. now \in Nat /\ packets = {}
    BY TimesAssumption DEF Init
  <2>2. \A s \in Stations, o \in Vehicles :
          store[s].seen[o] = 0 /\ store[s].ts[o] = 0
    BY DEF Init, EmptyStore, Unknown
  <2> QED BY <2>1, <2>2 DEF StampInv
<1>2. AInv /\ StampInv /\ [Next]_vars => StampInv'
  BY NextStampInv
<1>3. AInv /\ StampInv /\ [Next]_vars => [Bounded]_vars
  BY SetbackStep
<1> QED
  BY <1>1, <1>2, <1>3, Invariance, PTL DEF Spec, SetbackBounded
=============================================================================
