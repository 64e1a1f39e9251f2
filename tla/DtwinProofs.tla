---------------------------- MODULE DtwinProofs -----------------------------
(***************************************************************************)
(* Proofs about Dtwin, for any stations, age limits and packets: the types *)
(* and the ages of entries and data, and the number of objects a store     *)
(* counts.                                                                 *)
(***************************************************************************)
EXTENDS Dtwin, FiniteSetTheorems, TLAPS

\* The oldest an entry may become: it passed a check just below the age limit.
Oldest == MaxAge + CheckInterval - 1

\* The time of the next expiry check of s that has not run.
NextCheck(s) ==
  IF <<s, "objects">> \in done THEN now + CheckInterval ELSE check[s]

\* A store whose next check is at d.  The check skips a store that counts no
\* objects, and looks at the keys only: an entry that is not made up is a key,
\* is listed and is counted.
StoreOK(st, d) ==
  /\ st \in StoreType
  /\ \A o \in Vehicles :
       /\ st.ts[o] # 0 => /\ o \in st.keys /\ o \in st.ids /\ st.n # 0
                          /\ d - st.ts[o] =< Oldest
       /\ st.seen[o] # 0 => st.ts[o] # 0 /\ st.ts[o] - st.seen[o] =< Oldest
  /\ st.n =< Cardinality(st.ids)

\* What an RSU knows it has seen itself.
OwnData(st) == \A o \in Vehicles : st.seen[o] = st.ts[o]

\* A list as the Detector and the Publisher make it.
List ==
  [ts : Nat, n : Nat, ids : SUBSET Vehicles, seen : Times,
   addr : [Vehicles -> Int], v2v : SUBSET Vehicles]

ListOK(m) ==
  /\ m \in List
  /\ m.ts # 0
  /\ \A o \in Vehicles : m.seen[o] # 0 => m.ts - m.seen[o] =< Oldest

\* The inductive invariant.
AInv ==
  /\ TypeOK
  /\ now >= MaxAge
  /\ \A s \in Stations :
       /\ now =< check[s] /\ check[s] < now + CheckInterval
       /\ <<s, "objects">> \in done => check[s] = now
       /\ StoreOK(store[s], NextCheck(s))
  /\ \A r \in Rsus : OwnData(store[r])
  /\ \A m \in packets : m.kind = "pub" => ListOK(m.list)

-----------------------------------------------------------------------------
(* The operations of a store.                                              *)

\* Lists of vehicles are finite, and a longer list counts more.
LEMMA Counting ==
  ASSUME NEW S \in SUBSET Vehicles
  PROVE  /\ IsFiniteSet(S)
         /\ Cardinality(S) \in Nat
         /\ Cardinality(S) = 0 <=> S = {}
         /\ \A T \in SUBSET S : Cardinality(T) =< Cardinality(S)
<1>1. IsFiniteSet(S)
  BY FS_Subset, VehiclesAssumption
<1>2. Cardinality(S) \in Nat
  BY <1>1, FS_CardinalityType
<1>3. Cardinality(S) = 0 <=> S = {}
  BY <1>1, FS_EmptySet
<1>4. \A T \in SUBSET S : Cardinality(T) =< Cardinality(S)
  BY <1>1, FS_Subset
<1> QED BY <1>1, <1>2, <1>3, <1>4

\* updateObjects takes only lists below the age limit, so an entry it stamps is
\* not too old when the next check comes.
LEMMA UpdateKeepsStore ==
  ASSUME NEW st, NEW d \in Nat, NEW t \in Nat, NEW m,
         StoreOK(st, d), ListOK(m), d =< t + CheckInterval
  PROVE  LET u == UpdateObjects(st, m, t)
         IN  /\ StoreOK(u, d)
             /\ OwnData(st) /\ (\A o \in Vehicles : m.seen[o] = m.ts)
                  => OwnData(u)
<1> DEFINE fresh == IF t - m.ts < MaxAge THEN Newer(st, m) ELSE {}
           addressed == {o \in fresh : m.addr[o] >= 0}
           ids == st.ids \union fresh
           u == UpdateObjects(st, m, t)
<1>1. fresh \in SUBSET Vehicles
  BY DEF ListOK, List, Newer, Listed
<1>2. u = [ids |-> ids,
           keys |-> st.keys \union fresh,
           ts |-> [o \in Vehicles |-> IF o \in fresh THEN m.ts ELSE st.ts[o]],
           seen |-> [o \in Vehicles |->
                       IF o \in fresh THEN m.seen[o] ELSE st.seen[o]],
           addr |-> [o \in Vehicles |->
                       IF o \in addressed THEN m.addr[o] ELSE st.addr[o]],
           v2v |-> (st.v2v \ addressed) \union (addressed \intersect m.v2v),
           n |-> Cardinality(ids)]
  BY DEF UpdateObjects, Taken
<1>3. fresh # {} => t - m.ts < MaxAge
  OBVIOUS
<1> HIDE DEF fresh
<1>4. ids \in SUBSET Vehicles
  BY <1>1 DEF StoreOK, StoreType
<1>5. Cardinality(ids) \in Nat /\ (Cardinality(ids) = 0 <=> ids = {})
  BY <1>4, Counting
<1> HIDE DEF u
<1>6. st \in StoreType /\ m \in List
  BY DEF StoreOK, ListOK
<1>7. u \in StoreType
  <2>1. u.ts \in Times /\ u.seen \in Times
    BY <1>2, <1>6 DEF StoreType, List, Times
  <2>2. u.addr \in Times
    BY <1>2, <1>6 DEF StoreType, List, Times
  <2>3. u.ids \in SUBSET Vehicles /\ u.keys \in SUBSET Vehicles
    BY <1>1, <1>2, <1>4, <1>6 DEF StoreType
  <2>4. u.v2v \in SUBSET Vehicles
    BY <1>1, <1>2, <1>6 DEF StoreType
  <2>5. u.n \in Nat
    BY <1>2, <1>5
  <2> HIDE DEF ids, addressed
  <2> QED BY <1>2, <2>1, <2>2, <2>3, <2>4, <2>5 DEF StoreType
<1>8. ASSUME NEW o \in Vehicles, u.ts[o] # 0
      PROVE  o \in u.keys /\ o \in u.ids /\ u.n # 0 /\ d - u.ts[o] =< Oldest
  <2>1. o \in fresh \/ st.ts[o] # 0
    BY <1>2, <1>8
  <2>2. o \in u.keys /\ o \in u.ids
    BY <1>2, <2>1 DEF StoreOK
  <2>3. u.n # 0
    BY <1>2, <1>5, <2>2
  <2>4. CASE o \in fresh
    BY <1>2, <1>3, <1>6, <2>2, <2>3, <2>4, TimesAssumption DEF List, Oldest
  <2>5. CASE o \notin fresh
    BY <1>2, <2>1, <2>2, <2>3, <2>5 DEF StoreOK
  <2> QED BY <2>4, <2>5
<1>9. ASSUME NEW o \in Vehicles, u.seen[o] # 0
      PROVE  u.ts[o] # 0 /\ u.ts[o] - u.seen[o] =< Oldest
  BY <1>2, <1>9 DEF StoreOK, ListOK
<1>10. u.n =< Cardinality(u.ids)
  BY <1>2, <1>5
<1>11. StoreOK(u, d)
  BY <1>7, <1>8, <1>9, <1>10 DEF StoreOK
<1>12. OwnData(st) /\ (\A o \in Vehicles : m.seen[o] = m.ts) => OwnData(u)
  BY <1>2 DEF OwnData
<1> QED BY <1>11, <1>12 DEF u

\* checkObjectExpiry leaves entries below the age limit, whether the store
\* counts them or skips the check; entries made up by reads go as well, so the
\* count is one of listed objects.
LEMMA CheckKeepsStore ==
  ASSUME NEW st, NEW d \in Nat, NEW t \in Nat, StoreOK(st, d), t >= MaxAge
  PROVE  LET u == CheckObjectExpiry(st, t)
         IN  /\ StoreOK(u, t + CheckInterval)
             /\ OwnData(st) => OwnData(u)
<1> DEFINE old == {o \in st.keys : t - st.ts[o] >= MaxAge}
           u == CheckObjectExpiry(st, t)
           next == t + CheckInterval
<1>1. st \in StoreType
  BY DEF StoreOK
<1>2. CASE st.n = 0
  <2>1. u = st
    BY <1>2 DEF CheckObjectExpiry
  <2>2. \A o \in Vehicles : st.ts[o] = 0 /\ st.seen[o] = 0
    BY <1>2 DEF StoreOK
  <2>3. StoreOK(st, t + CheckInterval)
    BY <2>2 DEF StoreOK
  <2> QED BY <2>1, <2>3
<1>3. CASE st.n # 0
  <2>1. u = [st EXCEPT !.keys = @ \ old, !.ts = Erase(@, old),
                       !.seen = Erase(@, old), !.v2v = @ \ old,
                       !.n = Cardinality(st.keys \ old)]
    BY <1>3 DEF CheckObjectExpiry
  <2>2. st.keys \ old \in SUBSET Vehicles /\ st.ids \in SUBSET Vehicles
    BY <1>1 DEF StoreType
  <2>3. \A o \in st.keys \ old : st.ts[o] # 0 /\ t - st.ts[o] < MaxAge
    BY <1>1, <2>2, TimesAssumption DEF StoreType, Times
  <2> HIDE DEF old, u
  <2>4. st.keys \ old \in SUBSET st.ids
    BY <2>2, <2>3 DEF StoreOK
  <2>5. /\ Cardinality(st.keys \ old) \in Nat
        /\ Cardinality(st.keys \ old) = 0 <=> st.keys \ old = {}
        /\ Cardinality(st.keys \ old) =< Cardinality(st.ids)
    BY <2>2, <2>4, Counting
  <2>6. /\ u.ids = st.ids /\ u.addr = st.addr /\ u.keys = st.keys \ old
        /\ u.v2v = st.v2v \ old /\ u.n = Cardinality(st.keys \ old)
        /\ u.ts = [o \in Vehicles |-> IF o \in old THEN 0 ELSE st.ts[o]]
        /\ u.seen = [o \in Vehicles |-> IF o \in old THEN 0 ELSE st.seen[o]]
    BY <1>1, <2>1 DEF StoreType, Erase
  <2>7. u \in StoreType
    <3>1. u.ts \in Times /\ u.seen \in Times
      BY <1>1, <2>6 DEF StoreType, Times
    <3>2. u.keys \in SUBSET Vehicles /\ u.v2v \in SUBSET Vehicles /\ u.n \in Nat
      BY <1>1, <2>2, <2>5, <2>6 DEF StoreType
    <3>3. u = [ids |-> u.ids, keys |-> u.keys, ts |-> u.ts, seen |-> u.seen,
               addr |-> u.addr, v2v |-> u.v2v, n |-> u.n]
      BY <1>1, <2>1 DEF StoreType
    <3> QED BY <1>1, <2>6, <3>1, <3>2, <3>3 DEF StoreType
  <2>8. ASSUME NEW o \in Vehicles, u.ts[o] # 0
        PROVE  /\ o \in u.keys /\ o \in u.ids /\ u.n # 0
               /\ next - u.ts[o] =< Oldest
    <3>1. o \notin old /\ st.ts[o] # 0
      BY <2>6, <2>8
    <3>2. o \in st.keys \ old /\ o \in st.ids
      BY <3>1 DEF StoreOK
    <3>3. t - st.ts[o] < MaxAge /\ st.ts[o] \in Nat
      BY <1>1, <2>3, <3>2 DEF StoreType, Times
    <3> QED BY <2>5, <2>6, <3>1, <3>2, <3>3, TimesAssumption DEF Oldest
  <2>9. ASSUME NEW o \in Vehicles, u.seen[o] # 0
        PROVE  u.ts[o] # 0 /\ u.ts[o] - u.seen[o] =< Oldest
    BY <2>6, <2>9 DEF StoreOK
  <2>10. StoreOK(u, t + CheckInterval)
    <3>1. u.n =< Cardinality(u.ids)
      BY <2>5, <2>6
    <3> HIDE DEF next
    <3>2. StoreOK(u, next)
      BY <2>7, <2>8, <2>9, <3>1 DEF StoreOK
    <3> QED BY <3>2 DEF next
  <2>11. OwnData(st) => OwnData(u)
    BY <2>6 DEF OwnData
  <2> QED BY <2>10, <2>11 DEF u
<1> QED BY <1>2, <1>3

\* Keys made up by reads carry no data.
LEMMA KeysKeepStore ==
  ASSUME NEW st, NEW d \in Nat, StoreOK(st, d), NEW K \in SUBSET Vehicles
  PROVE  LET u == [st EXCEPT !.keys = @ \union K]
         IN  StoreOK(u, d) /\ (OwnData(st) => OwnData(u))
<1> DEFINE u == [st EXCEPT !.keys = @ \union K]
<1>1. st \in StoreType
  BY DEF StoreOK
<1>2. /\ u \in StoreType
      /\ u.ids = st.ids /\ u.ts = st.ts /\ u.seen = st.seen /\ u.n = st.n
      /\ st.keys \subseteq u.keys
  BY <1>1 DEF StoreType
<1> QED BY <1>2 DEF StoreOK, OwnData

\* A subscription changes the address and the type of an object only.
LEMMA AddressKeepsStore ==
  ASSUME NEW st, NEW d \in Nat, StoreOK(st, d), NEW v \in Vehicles, NEW a \in Nat
  PROVE  LET u == UpdateObjectTypeAndAddress(st, v, a)
         IN  StoreOK(u, d) /\ (OwnData(st) => OwnData(u))
<1> DEFINE u == UpdateObjectTypeAndAddress(st, v, a)
<1>1. st \in StoreType
  BY DEF StoreOK
<1>2. /\ u \in StoreType
      /\ u.ids = st.ids /\ u.ts = st.ts /\ u.seen = st.seen /\ u.n = st.n
      /\ u.keys = st.keys
  <2>1. CASE v \in st.ids
    <3>1. [st.addr EXCEPT ![v] = a] \in Times
      BY <1>1 DEF StoreType, Times
    <3>2. u = [st EXCEPT !.v2v = @ \union {v}, !.addr = [@ EXCEPT ![v] = a]]
      BY <2>1 DEF UpdateObjectTypeAndAddress
    <3> QED BY <1>1, <3>1, <3>2 DEF StoreType
  <2>2. CASE v \notin st.ids
    BY <1>1, <2>2 DEF UpdateObjectTypeAndAddress
  <2> QED BY <2>1, <2>2
<1> HIDE DEF u
<1> QED BY <1>2 DEF StoreOK, OwnData, u

-----------------------------------------------------------------------------
(* The invariant.                                                          *)

\* The next check of a station is ahead by at most one interval.
LEMMA NextCheckAhead ==
  ASSUME AInv, NEW s \in Stations
  PROVE  /\ NextCheck(s) \in Nat
         /\ now =< NextCheck(s) /\ NextCheck(s) =< now + CheckInterval
<1>1. now \in Nat /\ check[s] \in Nat
  BY DEF AInv, TypeOK
<1> QED BY <1>1, TimesAssumption DEF AInv, NextCheck

\* At the start no store has an entry.
LEMMA InitAInv == Init => AInv
<1> SUFFICES ASSUME Init PROVE AInv
  OBVIOUS
<1>1. Unknown \in Times
  BY DEF Unknown, Times
<1>2. Cardinality({}) = 0
  BY FS_EmptySet
<1>3. EmptyStore \in StoreType
  BY <1>1 DEF EmptyStore, StoreType
<1>4. \A d : StoreOK(EmptyStore, d)
  BY <1>2, <1>3 DEF StoreOK, EmptyStore, Unknown
<1>5. OwnData(EmptyStore)
  BY DEF OwnData, EmptyStore
<1>6. check \in [Stations -> Nat]
  BY TimesAssumption DEF Init
<1>7. TypeOK
  <2>1. store \in [Stations -> StoreType]
    BY <1>3 DEF Init
  <2>2. now \in Nat /\ done \subseteq Stations \X Events /\ packets \subseteq PacketType
    BY TimesAssumption DEF Init
  <2>3. subs \in [Rsus -> SUBSET [v : Vehicles, a : Nat, ts : Nat]]
    BY DEF Init
  <2>4. address \in [Vehicles -> Nat]
    BY VehiclesAssumption DEF Init
  <2>5. loc \in [Vehicles -> [state : {"INIT", "LOCALIZING", "LOCALIZED"},
                              init : Nat, ts : Nat, seen : Nat]]
    BY DEF Init
  <2> QED BY <1>6, <2>1, <2>2, <2>3, <2>4, <2>5 DEF TypeOK
<1>8. \A s \in Stations : now =< check[s] /\ check[s] < now + CheckInterval
  BY TimesAssumption DEF Init
<1> QED
  BY <1>4, <1>5, <1>7, <1>8, TimesAssumption DEF AInv, Init, Stations

\* A step that is not an expiry check.
SameChecks ==
  \A x \in Stations : <<x, "objects">> \in done' <=> <<x, "objects">> \in done

\* A step that leaves time, checks and events alone, changes the store of one
\* station and adds lists that are in order.
LEMMA StoreStep ==
  ASSUME AInv, TypeOK', NEW s \in Stations, NEW st,
         UNCHANGED <<now, check>>,
         SameChecks,
         store' = [store EXCEPT ![s] = st],
         StoreOK(st, NextCheck(s)),
         s \in Rsus => OwnData(st),
         \A m \in packets' : m.kind = "pub" => m \in packets \/ ListOK(m.list)
  PROVE  AInv'
<1>1. store \in [Stations -> StoreType]
  BY DEF AInv, TypeOK
<1>2. \A x \in Stations : NextCheck(x)' = NextCheck(x)
  BY DEF NextCheck, SameChecks
<1>3. \A x \in Stations : StoreOK(store[x], NextCheck(x))'
  <2> SUFFICES ASSUME NEW x \in Stations
               PROVE  StoreOK(store'[x], NextCheck(x))
    BY <1>2 DEF StoreOK
  <2> QED BY <1>1 DEF AInv
<1>4. \A r \in Rsus : OwnData(store[r])'
  <2> SUFFICES ASSUME NEW r \in Rsus PROVE OwnData(store'[r])
    BY DEF OwnData
  <2> QED BY <1>1 DEF AInv, Stations
<1>5. \A m \in packets' : m.kind = "pub" => ListOK(m.list)
  BY DEF AInv
<1>6. (now >= MaxAge)'
  BY DEF AInv
<1>7. \A x \in Stations :
        (/\ now =< check[x] /\ check[x] < now + CheckInterval
         /\ <<x, "objects">> \in done => check[x] = now)'
  BY DEF AInv, SameChecks
<1> QED BY <1>3, <1>4, <1>5, <1>6, <1>7 DEF AInv, ListOK, Oldest

\* A step that leaves the stores alone.
LEMMA OtherStep ==
  ASSUME AInv, TypeOK', UNCHANGED <<now, check, store>>,
         SameChecks,
         \A m \in packets' : m.kind = "pub" => m \in packets
  PROVE  AInv'
<1>1. \A x \in Stations : NextCheck(x)' = NextCheck(x)
  BY DEF NextCheck, SameChecks
<1>2. \A x \in Stations : StoreOK(store[x], NextCheck(x))'
  BY <1>1 DEF AInv, StoreOK
<1>3. \A r \in Rsus : OwnData(store[r])'
  BY DEF AInv, OwnData
<1>4. \A m \in packets' : m.kind = "pub" => ListOK(m.list)
  BY DEF AInv
<1> QED BY <1>2, <1>3, <1>4 DEF AInv, ListOK, Oldest, SameChecks

\* An event other than the expiry check.
LEMMA OnceOther ==
  ASSUME NEW s \in Stations, NEW e \in Events \ {"objects"}, TypeOK,
         Once(<<s, e>>)
  PROVE  /\ done' \subseteq Stations \X Events
         /\ SameChecks
<1>1. done \subseteq Stations \X Events /\ done' = done \union {<<s, e>>}
  BY DEF TypeOK, Once
<1> QED BY <1>1 DEF SameChecks

\* Time passes only when the checks that are due have run.
LEMMA TickStep == ASSUME AInv, Tick PROVE AInv'
<1>1. /\ now \in Nat /\ now' = now + 1 /\ check \in [Stations -> Nat]
      /\ done' = {} /\ UNCHANGED <<store, subs, address, loc, packets>>
      /\ check' = [s \in Stations |->
                     IF s \in Due THEN now + CheckInterval ELSE check[s]]
  BY DEF AInv, TypeOK, Tick
<1>2. TypeOK'
  <2>1. check' \in [Stations -> Nat]
    BY <1>1, TimesAssumption
  <2> QED BY <1>1, <2>1 DEF AInv, TypeOK
<1>3. \A s \in Stations : NextCheck(s)' = NextCheck(s)
  <2> SUFFICES ASSUME NEW s \in Stations PROVE NextCheck(s)' = NextCheck(s)
    OBVIOUS
  <2>1. NextCheck(s)' = check'[s]
    BY <1>1 DEF NextCheck
  <2>2. CASE s \in Due
    BY <1>1, <2>1, <2>2 DEF Tick, NextCheck
  <2>3. CASE s \notin Due
    BY <1>1, <2>1, <2>3 DEF AInv, Due, NextCheck
  <2> QED BY <2>2, <2>3
<1>4. \A s \in Stations : now' =< check'[s] /\ check'[s] < now' + CheckInterval
  <2> SUFFICES ASSUME NEW s \in Stations
               PROVE  now' =< check'[s] /\ check'[s] < now' + CheckInterval
    OBVIOUS
  <2>1. check[s] \in Nat /\ now =< check[s] /\ check[s] < now + CheckInterval
    BY <1>1 DEF AInv
  <2>2. CASE s \in Due
    BY <1>1, <2>2, TimesAssumption
  <2>3. CASE s \notin Due
    BY <1>1, <2>1, <2>3, TimesAssumption DEF Due
  <2> QED BY <2>2, <2>3
<1>5. \A s \in Stations : StoreOK(store[s], NextCheck(s))'
  BY <1>1, <1>3 DEF AInv, StoreOK
<1>6. (now >= MaxAge)'
  BY <1>1, TimesAssumption DEF AInv
<1>7. (\A r \in Rsus : OwnData(store[r]))'
  BY <1>1 DEF AInv, OwnData
<1>8. (\A m \in packets : m.kind = "pub" => ListOK(m.list))'
  BY <1>1 DEF AInv, ListOK
<1>9. \A s \in Stations : <<s, "objects">> \notin done'
  BY <1>1
<1> QED BY <1>2, <1>4, <1>5, <1>6, <1>7, <1>8, <1>9 DEF AInv

\* A check erases what has reached the age limit, so that the next one comes in
\* time for what it leaves.
LEMMA ObjectExpiryCheckStep ==
  ASSUME AInv, NEW s \in Stations, ObjectExpiryCheck(s)
  PROVE  AInv'
<1> DEFINE st == CheckObjectExpiry(store[s], now)
<1>1. /\ now \in Nat /\ check \in [Stations -> Nat] /\ check[s] = now
      /\ store \in [Stations -> StoreType]
      /\ done \subseteq Stations \X Events
      /\ done' = done \union {<<s, "objects">>}
      /\ store' = [store EXCEPT ![s] = st]
      /\ UNCHANGED <<now, check, subs, address, loc, packets>>
  BY DEF AInv, TypeOK, ObjectExpiryCheck, Once, Due
<1>2. NextCheck(s) \in Nat /\ StoreOK(store[s], NextCheck(s)) /\ now >= MaxAge
  BY NextCheckAhead DEF AInv
<1>3. StoreOK(st, now + CheckInterval) /\ (OwnData(store[s]) => OwnData(st))
  BY <1>1, <1>2, CheckKeepsStore
<1> HIDE DEF st
<1>4. TypeOK'
  <2>1. st \in StoreType
    BY <1>3 DEF StoreOK
  <2>2. store' \in [Stations -> StoreType]
    BY <1>1, <2>1
  <2>3. done' \subseteq Stations \X Events
    BY <1>1 DEF Events
  <2> QED BY <1>1, <2>2, <2>3 DEF AInv, TypeOK
<1>5. \A x \in Stations : StoreOK(store'[x], NextCheck(x)')
  <2> SUFFICES ASSUME NEW x \in Stations PROVE StoreOK(store'[x], NextCheck(x)')
    OBVIOUS
  <2>1. CASE x = s
    <3>1. NextCheck(s)' = now + CheckInterval /\ store'[s] = st
      BY <1>1 DEF NextCheck
    <3> QED BY <1>3, <2>1, <3>1
  <2>2. CASE x # s
    <3>1. NextCheck(x)' = NextCheck(x) /\ store'[x] = store[x]
      BY <1>1, <2>2 DEF NextCheck
    <3> QED BY <3>1 DEF AInv
  <2> QED BY <2>1, <2>2
<1>6. \A r \in Rsus : OwnData(store'[r])
  BY <1>1, <1>3 DEF AInv, Stations
<1>7. \A x \in Stations : <<x, "objects">> \in done' => check'[x] = now'
  BY <1>1 DEF AInv
<1>8. \A x \in Stations : now' =< check'[x] /\ check'[x] < now' + CheckInterval
  BY <1>1 DEF AInv
<1>9. \A m \in packets' : m.kind = "pub" => ListOK(m.list)
  BY <1>1 DEF AInv
<1> QED
  BY <1>1, <1>2, <1>4, <1>5, <1>6, <1>7, <1>8, <1>9
  DEF AInv, StoreOK, OwnData, ListOK, Oldest

\* A detection is the RSU's own and as old as the list.
LEMMA DetectStep ==
  ASSUME AInv, NEW r \in Rsus, NEW objects \in SUBSET Vehicles, Detect(r, objects)
  PROVE  AInv'
<1> DEFINE m == DetectedObjects(objects)
           st == UpdateObjects(store[r], m, now)
<1>1. /\ now \in Nat /\ now >= MaxAge /\ r \in Stations /\ TypeOK
      /\ StoreOK(store[r], NextCheck(r)) /\ OwnData(store[r])
  BY DEF AInv, TypeOK, Stations
<1>2. ListOK(m) /\ \A o \in Vehicles : m.seen[o] = m.ts
  <2>1. Cardinality(objects) \in Nat
    BY Counting
  <2>2. /\ [o \in Vehicles |-> now] \in Times
        /\ [o \in Vehicles |-> -1] \in [Vehicles -> Int]
    BY <1>1 DEF Times
  <2>3. m \in List
    BY <1>1, <2>1, <2>2 DEF List, DetectedObjects
  <2>4. m.ts = now /\ \A o \in Vehicles : m.seen[o] = now
    BY DEF DetectedObjects
  <2> HIDE DEF m
  <2> QED BY <1>1, <2>3, <2>4, TimesAssumption DEF ListOK, Oldest
<1> HIDE DEF m
<1>3. StoreOK(st, NextCheck(r)) /\ OwnData(st)
  <2>1. NextCheck(r) \in Nat /\ NextCheck(r) =< now + CheckInterval
    BY <1>1, NextCheckAhead
  <2> QED BY <1>1, <1>2, <2>1, UpdateKeepsStore
<1>4. /\ store' = [store EXCEPT ![r] = st]
      /\ UNCHANGED <<now, check, subs, address, loc, packets>>
  BY DEF Detect, m
<1> HIDE DEF st
<1>5. /\ done' \subseteq Stations \X Events
      /\ SameChecks
  <2>1. Once(<<r, "detect">>) /\ "detect" \in Events \ {"objects"}
    BY DEF Detect, Events
  <2> QED BY <1>1, <2>1, OnceOther
<1>6. TypeOK'
  <2>1. store' \in [Stations -> StoreType]
    BY <1>1, <1>3, <1>4 DEF TypeOK, StoreOK
  <2> QED BY <1>1, <1>4, <1>5, <2>1 DEF TypeOK
<1> QED BY <1>1, <1>3, <1>4, <1>5, <1>6, StoreStep

\* A subscription leaves the ages in the RSU's store alone.
LEMMA UpdateSubscriberListStep ==
  ASSUME AInv, NEW m \in packets, UpdateSubscriberList(m)
  PROVE  AInv'
<1> DEFINE s == m.to
           st == UpdateObjectTypeAndAddress(store[s], m.v, m.a)
           new == [v |-> m.v, a |-> m.a, ts |-> m.ts]
<1>1. TypeOK
  BY DEF AInv
<1>2. m \in [kind : {"sub"}, to : Rsus, v : Vehicles, a : Nat, ts : Nat]
  <2>1. m \in PacketType /\ m.kind = "sub"
    BY <1>1 DEF TypeOK, UpdateSubscriberList
  <2> QED BY <2>1 DEF PacketType
<1>3. /\ s \in Rsus /\ s \in Stations /\ m.v \in Vehicles /\ m.a \in Nat
      /\ new \in [v : Vehicles, a : Nat, ts : Nat]
  BY <1>2 DEF Stations
<1>4. StoreOK(st, NextCheck(s)) /\ OwnData(st)
  <2>1. /\ NextCheck(s) \in Nat /\ StoreOK(store[s], NextCheck(s))
        /\ OwnData(store[s])
    BY <1>3, NextCheckAhead DEF AInv
  <2> QED BY <1>3, <2>1, AddressKeepsStore
<1>5. /\ store' = [store EXCEPT ![s] = st]
      /\ subs' = [subs EXCEPT ![s] = UpdatedRecords(subs[s], new)]
      /\ packets' \subseteq packets
      /\ UNCHANGED <<now, check, done, address, loc>>
  BY DEF UpdateSubscriberList
<1> HIDE DEF st, new, s
<1>6. TypeOK'
  <2>1. store' \in [Stations -> StoreType]
    BY <1>1, <1>4, <1>5 DEF TypeOK, StoreOK
  <2>2. UpdatedRecords(subs[s], new) \in SUBSET [v : Vehicles, a : Nat, ts : Nat]
    BY <1>1, <1>3 DEF TypeOK, UpdatedRecords
  <2>3. subs' \in [Rsus -> SUBSET [v : Vehicles, a : Nat, ts : Nat]]
    BY <1>1, <1>5, <2>2 DEF TypeOK
  <2> QED BY <1>1, <1>5, <2>1, <2>3 DEF TypeOK
<1>7. \A p \in packets' : p.kind = "pub" => p \in packets \/ ListOK(p.list)
  BY <1>5
<1>8. SameChecks
  BY <1>5 DEF SameChecks
<1> QED BY <1>3, <1>4, <1>5, <1>6, <1>7, <1>8, StoreStep

\* What an RSU publishes is no older than its store lets it become.
LEMMA PublishStep ==
  ASSUME AInv, NEW r \in Rsus, Publish(r)
  PROVE  AInv'
<1> DEFINE st == [store[r] EXCEPT !.keys = @ \union store[r].ids]
           m == ReadFromStore(store[r])
           new == {[kind |-> "pub", to |-> x.a, list |-> m] : x \in subs[r]}
<1>1. /\ now \in Nat /\ now >= MaxAge /\ r \in Stations /\ TypeOK
      /\ store[r] \in StoreType
      /\ StoreOK(store[r], NextCheck(r)) /\ OwnData(store[r])
  BY DEF AInv, TypeOK, Stations
<1>2. NextCheck(r) \in Nat /\ now =< NextCheck(r)
  BY <1>1, NextCheckAhead
<1>3. StoreOK(st, NextCheck(r)) /\ OwnData(st)
  <2>1. store[r].ids \in SUBSET Vehicles
    BY <1>1 DEF StoreType
  <2> QED BY <1>1, <1>2, <2>1, KeysKeepStore
<1>4. m \in ListType
  BY <1>1 DEF ReadFromStore, StoreType, ListType
<1>5. ListOK(m)
  <2>1. m.ts = now /\ m.seen = store[r].seen
    BY DEF ReadFromStore
  <2>2. m \in List
    BY <1>4 DEF ListType, List, Times
  <2>3. ASSUME NEW o \in Vehicles, m.seen[o] # 0
        PROVE  m.ts - m.seen[o] =< Oldest
    <3>1. /\ store[r].ts[o] # 0 /\ NextCheck(r) - store[r].ts[o] =< Oldest
          /\ m.seen[o] = store[r].ts[o] /\ store[r].ts[o] \in Nat
      BY <1>1, <2>1, <2>3 DEF StoreOK, OwnData, StoreType, Times
    <3> QED BY <1>1, <1>2, <2>1, <3>1, TimesAssumption DEF Oldest
  <2> HIDE DEF m
  <2> QED BY <1>1, <2>1, <2>2, <2>3, TimesAssumption DEF ListOK
<1>6. /\ store' = [store EXCEPT ![r] = st]
      /\ packets' \subseteq packets \union new
      /\ UNCHANGED <<now, check, subs, address, loc>>
  BY DEF Publish, Send, AfterRead
<1>7. \A p \in new : p \in PacketType /\ p.kind = "pub" /\ p.list = m
  <2> HIDE DEF m
  <2>1. \A x \in subs[r] : x.a \in Nat
    BY <1>1 DEF TypeOK
  <2> QED BY <1>4, <2>1 DEF PacketType
<1> HIDE DEF st, m, new
<1>8. /\ done' \subseteq Stations \X Events
      /\ SameChecks
  <2>1. Once(<<r, "publish">>) /\ "publish" \in Events \ {"objects"}
    BY DEF Publish, Events
  <2> QED BY <1>1, <2>1, OnceOther
<1>9. TypeOK'
  <2>1. store' \in [Stations -> StoreType]
    BY <1>1, <1>3, <1>6 DEF TypeOK, StoreOK
  <2>2. packets' \subseteq PacketType
    BY <1>1, <1>6, <1>7 DEF TypeOK
  <2> QED BY <1>1, <1>6, <1>8, <2>1, <2>2 DEF TypeOK
<1>10. \A p \in packets' : p.kind = "pub" => p \in packets \/ ListOK(p.list)
  BY <1>5, <1>6, <1>7
<1> QED BY <1>1, <1>3, <1>6, <1>8, <1>9, <1>10, StoreStep

\* A publication is taken by the vehicle's store if it comes in time.
LEMMA ReceiveDtwinMessageStep ==
  ASSUME AInv, NEW v \in Vehicles, NEW m \in packets, ReceiveDtwinMessage(v, m)
  PROVE  AInv'
<1> DEFINE st == UpdateObjects(store[v], m.list, now)
<1>1. /\ now \in Nat /\ v \in Stations /\ v \notin Rsus /\ TypeOK
      /\ StoreOK(store[v], NextCheck(v))
  BY VehiclesAssumption DEF AInv, TypeOK, Stations
<1>2. ListOK(m.list)
  BY DEF AInv, ReceiveDtwinMessage
<1>3. StoreOK(st, NextCheck(v))
  <2>1. NextCheck(v) \in Nat /\ NextCheck(v) =< now + CheckInterval
    BY <1>1, NextCheckAhead
  <2> QED BY <1>1, <1>2, <2>1, UpdateKeepsStore
<1>4. /\ store' = [store EXCEPT ![v] = st] /\ packets' \subseteq packets
      /\ UNCHANGED <<now, check, done, subs, address, loc>>
  BY DEF ReceiveDtwinMessage
<1> HIDE DEF st
<1>5. TypeOK'
  <2>1. store' \in [Stations -> StoreType]
    BY <1>1, <1>3, <1>4 DEF TypeOK, StoreOK
  <2> QED BY <1>1, <1>4, <2>1 DEF TypeOK
<1>6. \A p \in packets' : p.kind = "pub" => p \in packets \/ ListOK(p.list)
  BY <1>4
<1>7. SameChecks
  BY <1>4 DEF SameChecks
<1> QED BY <1>1, <1>3, <1>4, <1>5, <1>6, <1>7, StoreStep

\* The Localizer adds at most an empty entry to its store.
LEMMA LocalizerUpdateStep ==
  ASSUME AInv, NEW v \in Vehicles, LocalizerUpdate(v)
  PROVE  AInv'
<1> DEFINE st == [store[v] EXCEPT !.keys = @ \union {v}]
<1>1. /\ v \in Stations /\ v \notin Rsus /\ TypeOK
      /\ store \in [Stations -> StoreType]
      /\ StoreOK(store[v], NextCheck(v)) /\ NextCheck(v) \in Nat
  BY VehiclesAssumption, NextCheckAhead DEF AInv, TypeOK, Stations
<1>2. StoreOK(st, NextCheck(v))
  <2>1. {v} \in SUBSET Vehicles
    OBVIOUS
  <2> QED BY <1>1, <2>1, KeysKeepStore
<1>3. /\ store' = [store EXCEPT ![v] = st]
      /\ loc' = [loc EXCEPT ![v].state = "LOCALIZED", ![v].ts = store[v].ts[v],
                            ![v].seen = store[v].seen[v]]
      /\ UNCHANGED <<now, check, subs, address, packets>>
  BY <1>1 DEF LocalizerUpdate, ReadCurrentLocation
<1> HIDE DEF st
<1>4. /\ done' \subseteq Stations \X Events
      /\ SameChecks
  <2>1. Once(<<v, "localize">>) /\ "localize" \in Events \ {"objects"}
    BY DEF LocalizerUpdate, Events
  <2> QED BY <1>1, <2>1, OnceOther
<1>5. TypeOK'
  <2>1. store' \in [Stations -> StoreType]
    BY <1>1, <1>2, <1>3 DEF StoreOK
  <2>2. store[v].ts[v] \in Nat /\ store[v].seen[v] \in Nat
    BY <1>1 DEF StoreType, Times
  <2>3. loc' \in [Vehicles -> [state : {"INIT", "LOCALIZING", "LOCALIZED"},
                               init : Nat, ts : Nat, seen : Nat]]
    BY <1>1, <1>3, <2>2 DEF TypeOK
  <2> QED BY <1>1, <1>3, <1>4, <2>1, <2>3 DEF TypeOK
<1>6. \A p \in packets' : p.kind = "pub" => p \in packets \/ ListOK(p.list)
  BY <1>3
<1> QED BY <1>1, <1>2, <1>3, <1>4, <1>5, <1>6, StoreStep

\* Looking for partners reads the whole store; the messages carry no list.
LEMMA SendCoopManeuverMessageStep ==
  ASSUME AInv, NEW v \in Vehicles,
         NEW partners \in SUBSET FindCoopManeuverPartner(v),
         SendCoopManeuverMessage(v, partners)
  PROVE  AInv'
<1> DEFINE st == [store[v] EXCEPT !.keys = @ \union store[v].ids]
           new == {[kind |-> "man", to |-> store[v].addr[o], with |-> o] :
                     o \in partners}
<1>1. /\ v \in Stations /\ v \notin Rsus /\ TypeOK
      /\ store[v] \in StoreType
      /\ StoreOK(store[v], NextCheck(v)) /\ NextCheck(v) \in Nat
  BY VehiclesAssumption, NextCheckAhead DEF AInv, TypeOK, Stations
<1>2. StoreOK(st, NextCheck(v))
  <2>1. store[v].ids \in SUBSET Vehicles
    BY <1>1 DEF StoreType
  <2> QED BY <1>1, <2>1, KeysKeepStore
<1>3. /\ store' = [store EXCEPT ![v] = st]
      /\ packets' = packets \union new
      /\ UNCHANGED <<now, check, subs, address, loc>>
  BY DEF SendCoopManeuverMessage, Send, AfterRead
<1>4. \A p \in new : p \in PacketType /\ p.kind # "pub"
  <2>1. \A o \in partners : o \in Vehicles /\ store[v].addr[o] \in Nat
    BY <1>1 DEF FindCoopManeuverPartner, StoreType, Times
  <2> QED BY <2>1 DEF PacketType
<1> HIDE DEF st, new
<1>5. /\ done' \subseteq Stations \X Events
      /\ SameChecks
  <2>1. Once(<<v, "maneuver">>) /\ "maneuver" \in Events \ {"objects"}
    BY DEF SendCoopManeuverMessage, Events
  <2> QED BY <1>1, <2>1, OnceOther
<1>6. TypeOK'
  <2>1. store' \in [Stations -> StoreType]
    BY <1>1, <1>2, <1>3 DEF TypeOK, StoreOK
  <2>2. packets' \subseteq PacketType
    BY <1>1, <1>3, <1>4 DEF TypeOK
  <2> QED BY <1>1, <1>3, <1>5, <2>1, <2>2 DEF TypeOK
<1>7. \A p \in packets' : p.kind = "pub" => p \in packets \/ ListOK(p.list)
  BY <1>3, <1>4
<1> QED BY <1>1, <1>2, <1>3, <1>5, <1>6, <1>7, StoreStep

\* The other actions do not touch the stores.
LEMMA OtherActionsStep ==
  ASSUME AInv,
         \/ \E r \in Rsus : CheckSubscriberExpiry(r)
         \/ \E v \in Vehicles, to \in SUBSET Rsus : Subscribe(v, to)
         \/ \E m \in packets : Lose(m)
         \/ \E v \in Vehicles : ReplaceDevice(v) \/ LocalizerStart(v)
         \/ \E v \in Vehicles, m \in packets : ReceiveCoopManeuverMessage(v, m)
  PROVE  AInv'
<1>1. TypeOK
  BY DEF AInv
<1>2. ASSUME NEW r \in Rsus, CheckSubscriberExpiry(r) PROVE AInv'
  <2>1. /\ done' \subseteq Stations \X Events
        /\ SameChecks
    <3>1. /\ r \in Stations /\ "subscribers" \in Events \ {"objects"}
          /\ Once(<<r, "subscribers">>)
      BY <1>2 DEF Stations, Events, CheckSubscriberExpiry
    <3> QED BY <1>1, <3>1, OnceOther
  <2>2. /\ subs' = [subs EXCEPT ![r] =
                      {x \in subs[r] : now - x.ts < SubscriberMaxAge}]
        /\ UNCHANGED <<now, store, check, address, loc, packets>>
    BY <1>2 DEF CheckSubscriberExpiry
  <2>3. subs' \in [Rsus -> SUBSET [v : Vehicles, a : Nat, ts : Nat]]
    BY <1>1, <2>2 DEF TypeOK
  <2>4. TypeOK'
    BY <1>1, <2>1, <2>2, <2>3 DEF TypeOK
  <2> QED BY <2>1, <2>2, <2>4, OtherStep
<1>3. ASSUME NEW v \in Vehicles, NEW to \in SUBSET Rsus, Subscribe(v, to)
      PROVE  AInv'
  <2> DEFINE new ==
        {[kind |-> "sub", to |-> r, v |-> v, a |-> address[v], ts |-> now] :
           r \in to}
  <2>1. /\ done' \subseteq Stations \X Events
        /\ SameChecks
    <3>1. /\ v \in Stations /\ "subscribe" \in Events \ {"objects"}
          /\ Once(<<v, "subscribe">>)
      BY <1>3 DEF Stations, Events, Subscribe
    <3> QED BY <1>1, <3>1, OnceOther
  <2>2. /\ packets' = packets \union new
        /\ UNCHANGED <<now, store, check, subs, address, loc>>
    BY <1>3 DEF Subscribe, Send
  <2>3. \A m \in new : m \in PacketType /\ m.kind # "pub"
    BY <1>1 DEF TypeOK, PacketType
  <2> HIDE DEF new
  <2>4. TypeOK'
    <3>1. packets' \subseteq PacketType
      BY <1>1, <2>2, <2>3 DEF TypeOK
    <3> QED BY <1>1, <2>1, <2>2, <3>1 DEF TypeOK
  <2>5. \A m \in packets' : m.kind = "pub" => m \in packets
    BY <2>2, <2>3
  <2> QED BY <2>1, <2>2, <2>4, <2>5, OtherStep
<1>4. ASSUME NEW m \in packets, Lose(m) PROVE AInv'
  <2>1. /\ packets' \subseteq packets
        /\ UNCHANGED <<now, store, check, done, subs, address, loc>>
    BY <1>4 DEF Lose
  <2>2. TypeOK'
    BY <1>1, <2>1 DEF TypeOK
  <2> QED BY <2>1, <2>2, OtherStep DEF SameChecks
<1>5. ASSUME NEW v \in Vehicles, ReplaceDevice(v) PROVE AInv'
  <2>1. /\ address' = [address EXCEPT ![v] = address[v] + Cardinality(Vehicles)]
        /\ UNCHANGED <<now, store, check, done, subs, loc, packets>>
    BY <1>5 DEF ReplaceDevice
  <2>2. Cardinality(Vehicles) \in Nat
    BY Counting
  <2>3. address' \in [Vehicles -> Nat]
    BY <1>1, <2>1, <2>2 DEF TypeOK
  <2>4. TypeOK'
    BY <1>1, <2>1, <2>3 DEF TypeOK
  <2> QED BY <2>1, <2>4, OtherStep DEF SameChecks
<1>6. ASSUME NEW v \in Vehicles, LocalizerStart(v) PROVE AInv'
  <2>1. /\ loc' = [loc EXCEPT ![v].state = "LOCALIZING", ![v].init = now]
        /\ UNCHANGED <<now, store, check, done, subs, address, packets>>
    BY <1>6 DEF LocalizerStart
  <2>2. loc' \in [Vehicles -> [state : {"INIT", "LOCALIZING", "LOCALIZED"},
                               init : Nat, ts : Nat, seen : Nat]]
    BY <1>1, <2>1 DEF TypeOK
  <2>3. TypeOK'
    BY <1>1, <2>1, <2>2 DEF TypeOK
  <2> QED BY <2>1, <2>3, OtherStep DEF SameChecks
<1>7. ASSUME NEW v \in Vehicles, NEW m \in packets,
             ReceiveCoopManeuverMessage(v, m)
      PROVE  AInv'
  <2>1. /\ packets' \subseteq packets
        /\ UNCHANGED <<now, store, check, done, subs, address, loc>>
    BY <1>7 DEF ReceiveCoopManeuverMessage
  <2>2. TypeOK'
    BY <1>1, <2>1 DEF TypeOK
  <2> QED BY <2>1, <2>2, OtherStep DEF SameChecks
<1> QED BY <1>2, <1>3, <1>4, <1>5, <1>6, <1>7

\* Every step keeps the invariant, one case per action.
LEMMA NextAInv == AInv /\ [Next]_vars => AInv'
<1> SUFFICES ASSUME AInv, [Next]_vars PROVE AInv'
  OBVIOUS
<1>1. CASE UNCHANGED vars
  <2>1. TypeOK'
    BY <1>1 DEF AInv, TypeOK, vars
  <2> QED BY <1>1, <2>1, OtherStep DEF vars, SameChecks
<1>2. CASE Tick
  BY <1>2, TickStep
<1>3. CASE \E s \in Stations : ObjectExpiryCheck(s)
  BY <1>3, ObjectExpiryCheckStep
<1>4. CASE \E r \in Rsus : Publish(r)
  BY <1>4, PublishStep
<1>5. CASE \E r \in Rsus, objects \in SUBSET Vehicles : Detect(r, objects)
  BY <1>5, DetectStep
<1>6. CASE \E m \in packets : UpdateSubscriberList(m)
  BY <1>6, UpdateSubscriberListStep
<1>7. CASE \E v \in Vehicles, m \in packets : ReceiveDtwinMessage(v, m)
  BY <1>7, ReceiveDtwinMessageStep
<1>8. CASE \E v \in Vehicles : LocalizerUpdate(v)
  BY <1>8, LocalizerUpdateStep
<1>9. CASE \/ \E r \in Rsus : CheckSubscriberExpiry(r)
           \/ \E v \in Vehicles, to \in SUBSET Rsus : Subscribe(v, to)
           \/ \E m \in packets : Lose(m)
           \/ \E v \in Vehicles : ReplaceDevice(v) \/ LocalizerStart(v)
           \/ \E v \in Vehicles, m \in packets : ReceiveCoopManeuverMessage(v, m)
  BY <1>9, OtherActionsStep
<1>10. CASE \E v \in Vehicles :
              \E partners \in SUBSET FindCoopManeuverPartner(v) :
                SendCoopManeuverMessage(v, partners)
  BY <1>10, SendCoopManeuverMessageStep
<1> QED
  BY <1>1, <1>2, <1>3, <1>4, <1>5, <1>6, <1>7, <1>8, <1>9, <1>10 DEF Next

-----------------------------------------------------------------------------
\* The invariant holds in every state, for any stations, ages and packets.
THEOREM Invariance == Spec => []AInv
<1> QED BY InitAInv, NextAInv, PTL DEF Spec

\* Stores, records, localizers and packets keep their types.
THEOREM TypeCorrect == Spec => []TypeOK
<1>1. AInv => TypeOK
  BY DEF AInv
<1> QED BY <1>1, Invariance, PTL

\* checkObjectExpiry, run at every check interval, keeps entries from becoming
\* older than the age limit and one interval, although it skips a store that
\* counts no objects and lists arrive at any time.
THEOREM EntriesExpire == Spec => []EntryAgeBounded
<1>1. AInv => EntryAgeBounded
  <2> SUFFICES ASSUME AInv, NEW s \in Stations, NEW o \in Vehicles,
                      store[s].ts[o] # 0
               PROVE  now - store[s].ts[o] < MaxAge + CheckInterval
    BY DEF EntryAgeBounded
  <2>1. now \in Nat /\ store[s].ts[o] \in Nat
    BY DEF AInv, TypeOK, StoreType, Times
  <2>2. NextCheck(s) - store[s].ts[o] =< Oldest
    BY DEF AInv, StoreOK
  <2> QED BY <2>1, <2>2, NextCheckAhead, TimesAssumption DEF Oldest
<1> QED BY <1>1, Invariance, PTL

\* Data that passed the RSU's store, the network and the vehicle's store are
\* within twice that age.
THEOREM DataExpire == Spec => []DataAgeBounded
<1>1. AInv => DataAgeBounded
  <2> SUFFICES ASSUME AInv, NEW v \in Vehicles, NEW o \in Vehicles,
                      store[v].seen[o] # 0
               PROVE  now - store[v].seen[o] =< 2 * (MaxAge + CheckInterval - 1)
    BY DEF DataAgeBounded
  <2>1. v \in Stations
    BY DEF Stations
  <2>2. now \in Nat /\ store[v].ts[o] \in Nat /\ store[v].seen[o] \in Nat
    BY <2>1 DEF AInv, TypeOK, StoreType, Times
  <2>3. /\ NextCheck(v) - store[v].ts[o] =< Oldest
        /\ store[v].ts[o] - store[v].seen[o] =< Oldest
    BY <2>1 DEF AInv, StoreOK
  <2> QED BY <2>1, <2>2, <2>3, NextCheckAhead, TimesAssumption DEF Oldest
<1> QED BY <1>1, Invariance, PTL

\* The readers of a store's list stay within its arrays.
THEOREM CountsBounded == Spec => []CountWithinIds
<1>1. AInv => CountWithinIds
  BY DEF AInv, StoreOK, CountWithinIds
<1> QED BY <1>1, Invariance, PTL

=============================================================================
