-------------------------- MODULE MembershipProofs --------------------------
(***************************************************************************)
(* Proofs about Membership, for any set of stations, any orders and any    *)
(* broadcasts: the types, the cluster registry, the roles and the          *)
(* attachment of the NICs.                                                 *)
(***************************************************************************)
EXTENDS Membership, TLAPS

(***************************************************************************)
(* What holds of one station and of the binder state its handlers see.     *)
(***************************************************************************)
ViewType ==
  [role : Roles, ctl : {"INITIALIZING", "INITIALIZED"}, pr : Device,
   gw : Device, enb : Nat \ {0}, convoys : SUBSET Nat,
   clusters : SUBSET (Nat \X Nat)]

\* A device and its NIC: the addresses name the last target of the NIC, and
\* without a pending handover the NIC is there.
DeviceOK(d) ==
  /\ d.type = "MASTER" => /\ ~d.starter /\ d.triggers = 0
                          /\ d.master = d.cell /\ d.candidate = d.cell
                          /\ d.bound => d.convoy = d.adv
  /\ d.bound => d.manager = d.candidate
  /\ ~d.bound => d.manager = 0 /\ d.convoy = 0
  /\ ~Pending(d) => d.master = d.candidate

\* The convoy ids are given out in order.
ConvoysInOrder(ids) == \E k \in Nat : ids = 1..k

Core(s) ==
  /\ s \in ViewType
  /\ ConvoysInOrder(s.convoys)
  /\ s.gw.type = "GATEWAY" /\ s.pr.type \in {"MASTER", "MEMBER"}
  /\ DeviceOK(s.pr) /\ DeviceOK(s.gw)
  /\ s.pr.type = "MASTER" => /\ 0 < s.pr.cell /\ s.pr.cell < s.enb
                             /\ <<s.pr.adv, s.pr.cell>> \in s.clusters

RoleOK(s) == s.role = "MANAGER" <=> s.pr.type = "MASTER"

\* What a handler of one station leaves to the others: their entries in the
\* registry, and cell ids that none of them has.
KeepsOthers(s, t) ==
  /\ s.enb =< t.enb
  /\ t.pr.type = "MASTER" => \/ s.pr.type = "MASTER" /\ t.pr.cell = s.pr.cell
                             \/ s.enb =< t.pr.cell
  /\ \A p \in s.clusters :
       /\ 0 < p[2] /\ p[2] < s.enb
       /\ s.pr.type = "MASTER" => p[2] # s.pr.cell
       => p \in t.clusters

\* The inductive invariant.
IInv ==
  /\ TypeOK
  /\ ConvoysInOrder(convoys)
  /\ \A n \in Nodes :
       phase[n] \in {"absent", "scanning"} => role[n] = "UNDEFINED"
  /\ \A n \in Nodes : OnRoad(n) => Core(View(n)) /\ RoleOK(View(n))
  /\ OneManagerPerCell

-----------------------------------------------------------------------------
(* Devices.                                                                *)

\* A UE device that was just configured is attached nowhere.
LEMMA NewUeOK ==
  ASSUME NEW type \in {"MEMBER", "GATEWAY"}, NEW convoy \in Nat
  PROVE  NewUe(type, convoy) \in Device /\ DeviceOK(NewUe(type, convoy))
  BY DEF NewUe, Device, DeviceOK, Pending

\* A master that was just configured is its own cell.
LEMMA NewMasterOK ==
  ASSUME NEW cell \in Nat, NEW convoy \in Nat
  PROVE  NewMaster(cell, convoy) \in Device /\ DeviceOK(NewMaster(cell, convoy))
  BY DEF NewMaster, Device, DeviceOK, Pending

\* Detaching clears the addresses and leaves the NIC as it is.
LEMMA DetachedOK ==
  ASSUME NEW d \in Device, DeviceOK(d)
  PROVE  /\ Detached(d) \in Device /\ DeviceOK(Detached(d))
         /\ Detached(d).type = d.type /\ Detached(d).cell = d.cell
         /\ Detached(d).adv = d.adv
  BY DEF Detached, Device, DeviceOK, Pending

\* Joining names the new manager and redirects the NIC to it.
LEMMA JoinedOK ==
  ASSUME NEW d \in Device, DeviceOK(d), NEW convoy \in Nat, NEW cluster \in Nat
  PROVE  LET e == JoinedCluster(d, convoy, cluster)
         IN /\ e \in Device /\ DeviceOK(e)
            /\ e.type = d.type /\ e.cell = d.cell /\ e.adv = d.adv
  <1>1. CASE d.type = "MASTER"
    BY <1>1 DEF JoinedCluster
  <1>2. CASE d.type # "MASTER"
    <2> DEFINE t == d.timers + (IF UnicastEnabled THEN 1 ELSE 0)
    <2> DEFINE e == [d EXCEPT !.candidate = cluster, !.starter = TRUE,
                              !.timers = t, !.bound = TRUE,
                              !.manager = cluster, !.convoy = convoy]
    <2>1. t \in Nat
      BY DEF Device
    <2>2. JoinedCluster(d, convoy, cluster) = e
      BY <1>2 DEF JoinedCluster, AttachToCluster, Device
    <2> HIDE DEF t
    <2>3. e \in Device /\ e.type = d.type /\ e.cell = d.cell /\ e.adv = d.adv
      BY <2>1 DEF Device
    <2>4. DeviceOK(e)
      BY <1>2, <2>1 DEF DeviceOK, Pending, Device
    <2> QED
      BY <2>2, <2>3, <2>4
  <1> QED
    BY <1>1, <1>2

\* The start event of a handover keeps its target pending.
LEMMA TriggeredOK ==
  ASSUME NEW d \in Device, DeviceOK(d), d.starter
  PROVE  /\ Triggered(d) \in Device /\ DeviceOK(Triggered(d))
         /\ Triggered(d).type = d.type /\ Triggered(d).cell = d.cell
         /\ Triggered(d).adv = d.adv
  <1> DEFINE e == Triggered(d)
  <1>1. /\ e \in Device /\ e.type = d.type /\ e.cell = d.cell /\ e.adv = d.adv
        /\ e.bound = d.bound /\ e.manager = d.manager /\ e.convoy = d.convoy
        /\ e.master = d.master /\ e.candidate = d.candidate
        /\ e.triggers = d.triggers + 1
    <2> DEFINE t == d.triggers + 1
    <2>1. t \in Nat
      BY DEF Device
    <2>2. e = [d EXCEPT !.starter = FALSE, !.held = TRUE, !.triggers = t]
      BY DEF Triggered
    <2> HIDE DEF t, e
    <2>3. QED
      BY <2>1, <2>2 DEF Device, t
  <1>2. d.type # "MASTER" /\ e.triggers > 0
    BY <1>1 DEF DeviceOK, Device
  <1> HIDE DEF e
  <1>3. DeviceOK(e)
    BY <1>1, <1>2 DEF DeviceOK, Pending
  <1> QED
    BY <1>1, <1>3 DEF e

\* The completion event attaches the NIC to the last target, whichever of the
\* overlapping handovers it belongs to.
LEMMA CompletedOK ==
  ASSUME NEW d \in Device, DeviceOK(d), d.triggers > 0
  PROVE  /\ Completed(d) \in Device /\ DeviceOK(Completed(d))
         /\ Completed(d).type = d.type /\ Completed(d).cell = d.cell
         /\ Completed(d).adv = d.adv
  <1> DEFINE e == Completed(d)
  <1>1. /\ e \in Device /\ e.type = d.type /\ e.cell = d.cell /\ e.adv = d.adv
        /\ e.bound = d.bound /\ e.manager = d.manager /\ e.convoy = d.convoy
        /\ e.master = d.candidate /\ e.candidate = d.candidate
    <2> DEFINE t == d.triggers - 1
    <2>1. t \in Nat
      BY DEF Device
    <2>2. e = [d EXCEPT !.master = d.candidate, !.held = FALSE, !.triggers = t]
      BY DEF Completed
    <2> HIDE DEF t, e
    <2>3. QED
      BY <2>1, <2>2 DEF Device
  <1>2. d.type # "MASTER"
    BY DEF DeviceOK, Device
  <1> HIDE DEF e
  <1>3. DeviceOK(e)
    BY <1>1, <1>2 DEF DeviceOK, Pending
  <1> QED
    BY <1>1, <1>3 DEF e

\* A timer that is due is pending.
LEMMA TimerPending ==
  ASSUME NEW d \in Device, TimerDue(d)
  PROVE  d.timers > 0
  BY DEF Device, TimerDue

\* A status timer that is not renewed changes nothing else.
LEMMA ExpiredOK ==
  ASSUME NEW d \in Device, DeviceOK(d), d.timers > 0
  PROVE  /\ Expired(d) \in Device /\ DeviceOK(Expired(d))
         /\ Expired(d).type = d.type /\ Expired(d).cell = d.cell
         /\ Expired(d).adv = d.adv
  BY DEF Expired, Device, DeviceOK, Pending

\* What a removed device takes out of the registry are pairs of ids.
LEMMA RegistrationType ==
  ASSUME NEW d \in Device
  PROVE  Registration(d) \in SUBSET (Nat \X Nat)
  BY DEF Registration, Device

-----------------------------------------------------------------------------
(* The binder's convoy ids.                                                *)

\* The largest convoy id, when ids are given out in order.
LEMMA MaxIdConvoyOf ==
  ASSUME NEW k \in Nat
  PROVE  MaxIdConvoy(1..k) = k
  <1>1. CASE k = 0
    BY <1>1 DEF MaxIdConvoy
  <1>2. CASE k # 0
    <2>1. k \in 1..k /\ \A i \in 1..k : i =< k
      BY <1>2
    <2>2. \A c \in 1..k : (\A i \in 1..k : i =< c) => c = k
      BY <2>1
    <2>3. 1..k # {}
      BY <2>1
    <2> QED
      BY <2>1, <2>2, <2>3 DEF MaxIdConvoy
  <1> QED
    BY <1>1, <1>2
-----------------------------------------------------------------------------
(* Handlers.  Each keeps Core and leaves the other stations alone.         *)

\* Handlers that keep the others' entries can be composed.
LEMMA KeepsOthersTransitive ==
  ASSUME NEW s, NEW t, NEW u, Core(s), Core(t), Core(u),
         KeepsOthers(s, t), KeepsOthers(t, u)
  PROVE  KeepsOthers(s, u)
  <1>1. /\ s.enb \in Nat /\ t.enb \in Nat /\ u.enb \in Nat
        /\ s.pr.cell \in Nat /\ t.pr.cell \in Nat /\ u.pr.cell \in Nat
        /\ s.clusters \in SUBSET (Nat \X Nat)
    BY DEF Core, ViewType, Device
  <1>2. s.enb =< u.enb
    BY <1>1 DEF KeepsOthers
  <1>3. u.pr.type = "MASTER" => \/ s.pr.type = "MASTER" /\ u.pr.cell = s.pr.cell
                                \/ s.enb =< u.pr.cell
    BY <1>1 DEF KeepsOthers
  <1>4. ASSUME NEW p \in s.clusters, 0 < p[2], p[2] < s.enb,
               s.pr.type = "MASTER" => p[2] # s.pr.cell
        PROVE  p \in u.clusters
    <2>1. p[2] \in Nat
      BY <1>1
    <2>2. p \in t.clusters
      BY <1>4 DEF KeepsOthers
    <2>3. p[2] < t.enb
      BY <1>1, <1>4, <2>1 DEF KeepsOthers
    <2>4. t.pr.type = "MASTER" => p[2] # t.pr.cell
      BY <1>1, <1>4, <2>1 DEF KeepsOthers
    <2> QED
      BY <1>4, <2>2, <2>3, <2>4 DEF KeepsOthers
  <1> QED
    BY <1>2, <1>3, <1>4 DEF KeepsOthers

\* A handler that does nothing keeps the others' entries.
LEMMA KeepsOthersReflexive ==
  ASSUME NEW s, Core(s)
  PROVE  KeepsOthers(s, s)
  BY DEF Core, ViewType, KeepsOthers

\* createNewCluster registers the new cell and takes out its own old one only.
LEMMA CreateNewClusterOK ==
  ASSUME NEW s, Core(s), NEW convoy \in Nat
  PROVE  LET t == CreateNewCluster(s, convoy)
         IN Core(t) /\ RoleOK(t) /\ KeepsOthers(s, t)
  <1> DEFINE t == CreateNewCluster(s, convoy)
  <1>1. /\ s \in ViewType /\ s.enb \in Nat \ {0} /\ s.pr \in Device
        /\ s.clusters \in SUBSET (Nat \X Nat)
    BY DEF Core, ViewType
  <1>2. /\ t.pr = NewMaster(s.enb, convoy) /\ t.gw = s.gw
        /\ t.enb = s.enb + 1 /\ t.convoys = s.convoys
        /\ t.clusters = (s.clusters \ Registration(s.pr))
                          \union {<<convoy, s.enb>>}
        /\ t.role = "MANAGER"
    BY <1>1 DEF CreateNewCluster, ViewType
  <1>3. /\ NewMaster(s.enb, convoy) \in Device
        /\ DeviceOK(NewMaster(s.enb, convoy))
    BY <1>1, NewMasterOK
  <1>4. /\ t.pr.type = "MASTER" /\ t.pr.cell = s.enb /\ t.pr.adv = convoy
    BY <1>2 DEF NewMaster
  <1>5. t.clusters \in SUBSET (Nat \X Nat)
    BY <1>1, <1>2
  <1>6. t \in ViewType
    <2> DEFINE m == NewMaster(s.enb, convoy)
               e == s.enb + 1
               c == (s.clusters \ Registration(s.pr)) \union {<<convoy, s.enb>>}
    <2>1. t = [s EXCEPT !.pr = m, !.enb = e, !.clusters = c,
                        !.role = "MANAGER", !.ctl = "INITIALIZED"]
      BY DEF CreateNewCluster
    <2>2. m \in Device /\ e \in Nat \ {0} /\ c \in SUBSET (Nat \X Nat)
      BY <1>1, <1>2, <1>3, <1>5
    <2> HIDE DEF m, e, c, t
    <2> QED
      BY <1>1, <2>1, <2>2 DEF ViewType, Roles
  <1> HIDE DEF t
  <1>7. Core(t)
    BY <1>1, <1>2, <1>3, <1>4, <1>6 DEF Core
  <1>8. RoleOK(t)
    BY <1>2, <1>4 DEF RoleOK
  <1>9. KeepsOthers(s, t)
    <2>1. \A p \in Registration(s.pr) :
            s.pr.type = "MASTER" /\ (p[2] = s.pr.cell \/ p[2] = 0)
      BY <1>1 DEF Registration, Core, DeviceOK, Device
    <2> QED
      BY <1>1, <1>2, <1>4, <2>1 DEF KeepsOthers
  <1> QED
    BY <1>7, <1>8, <1>9 DEF t

\* createNewConvoy adds the next id and opens a cluster in it.
LEMMA CreateNewConvoyOK ==
  ASSUME NEW s, Core(s)
  PROVE  LET t == CreateNewConvoy(s)
         IN Core(t) /\ RoleOK(t) /\ KeepsOthers(s, t)
  <1>1. PICK k \in Nat : s.convoys = 1..k
    BY DEF Core, ConvoysInOrder
  <1>2. MaxIdConvoy(s.convoys) + 1 = k + 1
    BY <1>1, MaxIdConvoyOf
  <1> DEFINE r == [s EXCEPT !.convoys = s.convoys \union {k + 1}]
  <1>3. s \in ViewType
    BY DEF Core
  <1>4. /\ r.convoys = 1..(k + 1) /\ r.pr = s.pr /\ r.gw = s.gw
        /\ r.enb = s.enb /\ r.clusters = s.clusters
    BY <1>1, <1>3 DEF ViewType
  <1>5. r \in ViewType
    BY <1>1, <1>3 DEF ViewType
  <1>6. CreateNewConvoy(s) = CreateNewCluster(r, k + 1)
    BY <1>2 DEF CreateNewConvoy
  <1> HIDE DEF r
  <1>7. Core(r)
    BY <1>4, <1>5 DEF Core, ConvoysInOrder
  <1>8. LET t == CreateNewCluster(r, k + 1)
        IN Core(t) /\ RoleOK(t) /\ KeepsOthers(r, t)
    BY <1>7, CreateNewClusterOK
  <1>9. \A t : KeepsOthers(r, t) => KeepsOthers(s, t)
    BY <1>4 DEF KeepsOthers
  <1> QED
    BY <1>6, <1>8, <1>9

\* Joining on the gateway interface leaves the primary device as it is.
LEMMA JoinGatewayOK ==
  ASSUME NEW s, Core(s), NEW convoy \in Nat, NEW cluster \in Nat
  PROVE  LET t == JoinGateway(s, convoy, cluster)
         IN /\ Core(t) /\ KeepsOthers(s, t)
            /\ t.pr = s.pr /\ t.role = "GATEWAY"
  <1> DEFINE t == JoinGateway(s, convoy, cluster)
             g == JoinedCluster(s.gw, convoy, cluster)
  <1>1. s \in ViewType /\ s.gw \in Device /\ DeviceOK(s.gw)
    BY DEF Core, ViewType
  <1>2. g \in Device /\ DeviceOK(g) /\ g.type = s.gw.type
    BY <1>1, JoinedOK
  <1>3. t = [s EXCEPT !.gw = g, !.role = "GATEWAY"]
    BY DEF JoinGateway
  <1> HIDE DEF g, t
  <1>4. /\ t \in ViewType /\ t.gw = g /\ t.pr = s.pr /\ t.enb = s.enb
        /\ t.convoys = s.convoys /\ t.clusters = s.clusters
        /\ t.role = "GATEWAY"
    BY <1>1, <1>2, <1>3 DEF ViewType, Roles
  <1>5. Core(t)
    BY <1>2, <1>4 DEF Core
  <1>6. KeepsOthers(s, t)
    BY <1>1, <1>4 DEF KeepsOthers, ViewType
  <1> QED
    BY <1>4, <1>5, <1>6 DEF t

\* Joining on the primary interface makes a manager of nobody.
LEMMA JoinPrimaryOK ==
  ASSUME NEW s, Core(s), NEW convoy \in Nat, NEW cluster \in Nat
  PROVE  LET t == JoinPrimary(s, convoy, cluster)
         IN /\ Core(t) /\ KeepsOthers(s, t)
            /\ t.pr.type = s.pr.type /\ t.role \in {"GATEWAY", "MEMBER"}
  <1> DEFINE t == JoinPrimary(s, convoy, cluster)
             p == JoinedCluster(s.pr, convoy, cluster)
             r == IF s.role = "GATEWAY" THEN "GATEWAY" ELSE "MEMBER"
  <1>1. s \in ViewType /\ s.pr \in Device /\ DeviceOK(s.pr)
    BY DEF Core, ViewType
  <1>2. /\ p \in Device /\ DeviceOK(p) /\ p.type = s.pr.type
        /\ p.cell = s.pr.cell /\ p.adv = s.pr.adv
    BY <1>1, JoinedOK
  <1>3. t = [s EXCEPT !.pr = p, !.role = r, !.ctl = "INITIALIZED"]
    BY DEF JoinPrimary
  <1>4. r \in {"GATEWAY", "MEMBER"}
    OBVIOUS
  <1> HIDE DEF p, r, t
  <1>5. /\ t \in ViewType /\ t.pr = p /\ t.gw = s.gw /\ t.enb = s.enb
        /\ t.convoys = s.convoys /\ t.clusters = s.clusters /\ t.role = r
    BY <1>1, <1>2, <1>3, <1>4 DEF ViewType, Roles
  <1>6. Core(t)
    BY <1>2, <1>5 DEF Core
  <1>7. KeepsOthers(s, t)
    BY <1>1, <1>2, <1>5 DEF KeepsOthers, ViewType
  <1> QED
    BY <1>2, <1>4, <1>5, <1>6, <1>7 DEF t

\* A manager that becomes a member takes out its own entry only.
LEMMA RecreateMemberOK ==
  ASSUME NEW s, Core(s), NEW convoy \in Nat
  PROVE  LET t == RecreateMember(s, convoy)
         IN /\ Core(t) /\ KeepsOthers(s, t)
            /\ t.pr.type = "MEMBER"
  <1> DEFINE t == RecreateMember(s, convoy)
             p == NewUe("MEMBER", convoy)
             c == s.clusters \ Registration(s.pr)
  <1>1. /\ s \in ViewType /\ s.pr \in Device
        /\ s.clusters \in SUBSET (Nat \X Nat)
    BY DEF Core, ViewType
  <1>2. p \in Device /\ DeviceOK(p)
    BY NewUeOK
  <1>3. p.type = "MEMBER"
    BY DEF NewUe
  <1>4. c \in SUBSET (Nat \X Nat)
    BY <1>1
  <1>5. t = [s EXCEPT !.pr = p, !.clusters = c]
    BY DEF RecreateMember
  <1>6. \A q \in Registration(s.pr) :
          s.pr.type = "MASTER" /\ (q[2] = s.pr.cell \/ q[2] = 0)
    BY <1>1 DEF Registration, Core, DeviceOK, Device
  <1>7. \A q \in s.clusters : q \in c \/ q \in Registration(s.pr)
    OBVIOUS
  <1> HIDE DEF p, c, t
  <1>8. /\ t \in ViewType /\ t.pr = p /\ t.gw = s.gw /\ t.enb = s.enb
        /\ t.convoys = s.convoys /\ t.clusters = c
    BY <1>1, <1>2, <1>4, <1>5 DEF ViewType
  <1>9. Core(t)
    BY <1>2, <1>3, <1>8 DEF Core
  <1>10. KeepsOthers(s, t)
    BY <1>1, <1>3, <1>6, <1>7, <1>8 DEF KeepsOthers, ViewType
  <1> QED
    BY <1>3, <1>8, <1>9, <1>10 DEF t

\* Detaching both devices keeps cells, roles and the registry.
LEMMA DetachDevicesOK ==
  ASSUME NEW s, Core(s)
  PROVE  LET t == DetachDevices(s)
         IN /\ Core(t) /\ KeepsOthers(s, t)
            /\ t.pr.type = s.pr.type /\ t.role = s.role
            /\ t.convoys = s.convoys
  <1> DEFINE t == DetachDevices(s)
             p == Detached(s.pr)
             g == Detached(s.gw)
  <1>1. /\ s \in ViewType /\ s.pr \in Device /\ s.gw \in Device
        /\ DeviceOK(s.pr) /\ DeviceOK(s.gw)
    BY DEF Core, ViewType
  <1>2. /\ p \in Device /\ DeviceOK(p) /\ p.type = s.pr.type
        /\ p.cell = s.pr.cell /\ p.adv = s.pr.adv
        /\ g \in Device /\ DeviceOK(g) /\ g.type = s.gw.type
    BY <1>1, DetachedOK
  <1>3. t = [s EXCEPT !.pr = p, !.gw = g]
    BY DEF DetachDevices
  <1> HIDE DEF p, g, t
  <1>4. /\ t \in ViewType /\ t.pr = p /\ t.gw = g /\ t.enb = s.enb
        /\ t.convoys = s.convoys /\ t.clusters = s.clusters
        /\ t.role = s.role
    BY <1>1, <1>2, <1>3 DEF ViewType
  <1>5. Core(t)
    BY <1>2, <1>4 DEF Core
  <1>6. KeepsOthers(s, t)
    BY <1>1, <1>2, <1>4 DEF KeepsOthers, ViewType
  <1> QED
    BY <1>2, <1>4, <1>5, <1>6 DEF t

\* Whatever role is ordered, role and device agree afterwards and the others keep
\* their cells.
LEMMA ChangeClusterMembershipOK ==
  ASSUME NEW s, Core(s), RoleOK(s), NEW c \in Commands
  PROVE  LET t == ChangeClusterMembership(s, c)
         IN Core(t) /\ RoleOK(t) /\ KeepsOthers(s, t)
  <1> DEFINE t == ChangeClusterMembership(s, c)
  <1>1. /\ c.role \in Roles /\ c.convoy \in Nat /\ c.cluster \in Nat
        /\ c.gw \in Nat
    BY CommandsAssumption
  <1>2. CASE c.role = "MANAGER"
    BY <1>1, <1>2, CreateNewClusterOK DEF ChangeClusterMembership
  <1>3. CASE c.role = "UNDEFINED"
    BY <1>3, KeepsOthersReflexive DEF ChangeClusterMembership
  <1>4. CASE c.role \notin {"MANAGER", "UNDEFINED"}
    <2> DEFINE g == IF c.role = "GATEWAY"
                    THEN JoinGateway(s, c.convoy, c.gw) ELSE s
               m == IF s.role = "MANAGER"
                    THEN RecreateMember(g, c.convoy) ELSE g
               u == JoinPrimary(m, c.convoy, c.cluster)
    <2>1. t = u
      BY <1>4 DEF ChangeClusterMembership
    <2>2. Core(g) /\ KeepsOthers(s, g) /\ g.pr.type = s.pr.type
      BY <1>1, JoinGatewayOK, KeepsOthersReflexive
    <2> HIDE DEF g
    <2>3. Core(m) /\ KeepsOthers(g, m) /\ m.pr.type # "MASTER"
      BY <1>1, <2>2, RecreateMemberOK, KeepsOthersReflexive DEF RoleOK
    <2> HIDE DEF m
    <2>4. /\ Core(u) /\ KeepsOthers(m, u) /\ u.pr.type # "MASTER"
          /\ u.role # "MANAGER"
      BY <1>1, <2>3, JoinPrimaryOK
    <2> HIDE DEF u, t
    <2>5. KeepsOthers(s, m)
      BY <2>2, <2>3, KeepsOthersTransitive
    <2>6. KeepsOthers(s, u)
      BY <2>3, <2>4, <2>5, KeepsOthersTransitive
    <2>7. RoleOK(u)
      BY <2>4 DEF RoleOK
    <2> QED
      BY <2>1, <2>4, <2>6, <2>7 DEF t
  <1> QED
    BY <1>2, <1>3, <1>4

\* The same for the whole handler of an order.
LEMMA HandleOrchestrationMessageOK ==
  ASSUME NEW s, Core(s), RoleOK(s), NEW c \in Commands
  PROVE  LET t == HandleOrchestrationMessage(s, c)
         IN Core(t) /\ RoleOK(t) /\ KeepsOthers(s, t)
  <1> DEFINE t == HandleOrchestrationMessage(s, c)
             free == DetachDevices(s)
  <1>1. Core(free) /\ RoleOK(free) /\ KeepsOthers(s, free)
    BY DetachDevicesOK DEF RoleOK
  <1> HIDE DEF free
  <1>2. CASE c.convoy # s.pr.convoy
    <2> DEFINE opened == IF c.convoy > MaxIdConvoy(free.convoys)
                         THEN CreateNewConvoy(free) ELSE free
               u == ChangeClusterMembership(opened, c)
    <2>1. t = u
      BY <1>2 DEF HandleOrchestrationMessage, free
    <2>2. Core(opened) /\ RoleOK(opened) /\ KeepsOthers(free, opened)
      BY <1>1, CreateNewConvoyOK, KeepsOthersReflexive
    <2> HIDE DEF opened
    <2>3. Core(u) /\ RoleOK(u) /\ KeepsOthers(opened, u)
      BY <2>2, ChangeClusterMembershipOK
    <2> HIDE DEF u, t
    <2>4. KeepsOthers(s, opened)
      BY <1>1, <2>2, KeepsOthersTransitive
    <2>5. KeepsOthers(s, u)
      BY <2>2, <2>3, <2>4, KeepsOthersTransitive
    <2> QED
      BY <2>1, <2>3, <2>5 DEF t
  <1>3. CASE c.convoy = s.pr.convoy /\ c.role # s.role
    <2> DEFINE u == ChangeClusterMembership(free, c)
    <2>1. t = u
      BY <1>3 DEF HandleOrchestrationMessage, free
    <2>2. Core(u) /\ RoleOK(u) /\ KeepsOthers(free, u)
      BY <1>1, ChangeClusterMembershipOK
    <2> HIDE DEF u, t
    <2>3. KeepsOthers(s, u)
      BY <1>1, <2>2, KeepsOthersTransitive
    <2> QED
      BY <2>1, <2>2, <2>3 DEF t
  <1>4. CASE c.convoy = s.pr.convoy /\ c.role = s.role
    <2>1. t = ChangeClusterMembership(s, c) \/ t = s
      BY <1>4 DEF HandleOrchestrationMessage
    <2> HIDE DEF t
    <2> QED
      BY <2>1, ChangeClusterMembershipOK, KeepsOthersReflexive DEF t
  <1> QED
    BY <1>2, <1>3, <1>4

-----------------------------------------------------------------------------
(* Steps.                                                                  *)

\* The fields of a view.
LEMMA ViewFields ==
  ASSUME NEW n \in Nodes
  PROVE  /\ View(n).role = role[n] /\ View(n).ctl = ctl[n]
         /\ View(n).pr = pr[n] /\ View(n).gw = gw[n] /\ View(n).enb = enb
         /\ View(n).convoys = convoys /\ View(n).clusters = clusters
  BY DEF View

\* The view of a station has the types of the state.
LEMMA ViewTyped ==
  ASSUME TypeOK, NEW n \in Nodes
  PROVE  View(n) \in ViewType
  BY DEF View, ViewType, TypeOK

\* A handler that runs for one station preserves the invariant.
LEMMA HandlerStep ==
  ASSUME IInv, NEW n \in Nodes, OnRoad(n), NEW t,
         Core(t), RoleOK(t), KeepsOthers(View(n), t), Apply(n, t),
         phase' \in [Nodes -> Phases],
         \A m \in Nodes : OnRoad(m)' <=> OnRoad(m),
         \A m \in Nodes :
           phase'[m] \in {"absent", "scanning"} => phase'[m] = phase[m],
         phase'[n] = "scanning" => t.role = role[n],
         bcasts' = bcasts, failure' = failure, orders' \in 0..MaxOrders
  PROVE  IInv'
  <1>1. /\ t \in ViewType /\ t.role \in Roles
        /\ t.ctl \in {"INITIALIZING", "INITIALIZED"}
        /\ t.pr \in Device /\ t.gw \in Device /\ t.enb \in Nat \ {0}
        /\ t.convoys \in SUBSET Nat /\ t.clusters \in SUBSET (Nat \X Nat)
    BY DEF Core, ViewType
  <1>2. TypeOK'
    BY <1>1 DEF IInv, TypeOK, Apply
  <1>3. ConvoysInOrder(convoys)'
    BY DEF Core, Apply, ConvoysInOrder
  <1>4. /\ role'[n] = t.role /\ ctl'[n] = t.ctl /\ pr'[n] = t.pr
        /\ gw'[n] = t.gw /\ enb' = t.enb /\ convoys' = t.convoys
        /\ clusters' = t.clusters
    BY DEF IInv, TypeOK, Apply
  <1>5. \A m \in Nodes \ {n} :
          /\ role'[m] = role[m] /\ ctl'[m] = ctl[m] /\ pr'[m] = pr[m]
          /\ gw'[m] = gw[m]
    BY DEF IInv, TypeOK, Apply
  <1>6. \A m \in Nodes :
          phase'[m] \in {"absent", "scanning"} => role'[m] = "UNDEFINED"
    BY <1>4, <1>5 DEF IInv, OnRoad
  <1>7. \A m \in Nodes : View(m)' \in ViewType
    BY <1>2 DEF View, ViewType, TypeOK
  <1>8. Core(View(n)') /\ RoleOK(View(n)')
    BY <1>4, <1>7 DEF Core, RoleOK, View
  <1>9. /\ enb \in Nat /\ t.enb \in Nat /\ enb =< t.enb
        /\ clusters \in SUBSET (Nat \X Nat)
        /\ \A m \in Nodes : pr[m].cell \in Nat /\ pr[m].adv \in Nat
    BY <1>1, ViewFields DEF IInv, TypeOK, Device, KeepsOthers
  <1>10. ASSUME NEW m \in Nodes \ {n}, OnRoad(m)
         PROVE  /\ Core(View(m)') /\ RoleOK(View(m)')
                /\ (pr[m].type = "MASTER" /\ t.pr.type = "MASTER"
                      => pr[m].cell # t.pr.cell)
    <2>1. Core(View(m)) /\ RoleOK(View(m)) /\ Core(View(n))
      BY <1>10 DEF IInv
    <2>2. RoleOK(View(m)')
      BY <1>5, <2>1 DEF RoleOK, View
    <2>3. pr[m].type = "MASTER" =>
            /\ 0 < pr[m].cell /\ pr[m].cell < enb
            /\ <<pr[m].adv, pr[m].cell>> \in clusters
            /\ (pr[n].type = "MASTER" => pr[m].cell # pr[n].cell)
      BY <1>10, <2>1 DEF Core, View, IInv, OneManagerPerCell, Masters, IsMaster
    <2>4. pr[m].type = "MASTER" => <<pr[m].adv, pr[m].cell>> \in t.clusters
      BY <1>9, <2>3, ViewFields DEF KeepsOthers
    <2>5. pr[m].type = "MASTER" /\ t.pr.type = "MASTER"
            => pr[m].cell # t.pr.cell
      BY <1>1, <1>9, <2>3, ViewFields DEF KeepsOthers, Device
    <2>6. Core(View(m)')
      <3>1. /\ (View(m)').pr = pr[m] /\ (View(m)').gw = gw[m]
            /\ (View(m)').enb = t.enb /\ (View(m)').convoys = t.convoys
            /\ (View(m)').clusters = t.clusters
        BY <1>4, <1>5 DEF View
      <3>2. /\ gw[m].type = "GATEWAY" /\ pr[m].type \in {"MASTER", "MEMBER"}
            /\ DeviceOK(pr[m]) /\ DeviceOK(gw[m])
        BY <2>1, ViewFields DEF Core
      <3>3. pr[m].type = "MASTER" => pr[m].cell < t.enb
        BY <1>9, <2>3
      <3>4. ConvoysInOrder(t.convoys)
        BY DEF Core
      <3> QED
        BY <1>7, <2>3, <2>4, <3>1, <3>2, <3>3, <3>4 DEF Core
    <2> QED
      BY <2>2, <2>5, <2>6
  <1>11. \A m \in Nodes : OnRoad(m)' => Core(View(m)') /\ RoleOK(View(m)')
    BY <1>8, <1>10
  <1>12. OneManagerPerCell'
    <2> SUFFICES ASSUME NEW a \in Nodes, NEW b \in Nodes,
                        IsMaster(a)', IsMaster(b)', pr'[a].cell = pr'[b].cell
                 PROVE  a = b
      BY DEF OneManagerPerCell, Masters
    <2>1. /\ OnRoad(a) /\ OnRoad(b) /\ pr'[a].type = "MASTER"
          /\ pr'[b].type = "MASTER"
      BY DEF IsMaster
    <2>2. CASE a # n /\ b # n
      BY <1>5, <2>1, <2>2 DEF IInv, OneManagerPerCell, Masters, IsMaster
    <2>3. CASE a = n \/ b = n
      BY <1>4, <1>5, <1>10, <2>1, <2>3
    <2> QED
      BY <2>2, <2>3
  <1> QED
    BY <1>2, <1>3, <1>6, <1>11, <1>12 DEF IInv

\* An event of a NIC preserves the invariant.
LEMMA DeviceStep ==
  ASSUME IInv, NEW n \in Nodes, OnRoad(n), NEW i \in Interfaces, NEW d,
         d \in Device, DeviceOK(d), d.type = Dev(n, i).type,
         d.cell = Dev(n, i).cell, d.adv = Dev(n, i).adv, SetDevice(n, i, d)
  PROVE  IInv'
  <1> DEFINE s == View(n)
             t == IF i = "PRIMARY" THEN [s EXCEPT !.pr = d]
                                   ELSE [s EXCEPT !.gw = d]
  <1>1. s \in ViewType /\ Core(s) /\ RoleOK(s)
    BY ViewTyped DEF IInv
  <1>2. i \in {"PRIMARY", "GATEWAY"}
    BY DEF Interfaces
  <1>3. /\ t \in ViewType /\ t.role = s.role /\ t.ctl = s.ctl
        /\ t.enb = s.enb /\ t.convoys = s.convoys /\ t.clusters = s.clusters
        /\ t.pr = (IF i = "PRIMARY" THEN d ELSE s.pr)
        /\ t.gw = (IF i = "PRIMARY" THEN s.gw ELSE d)
    BY <1>1, <1>2 DEF ViewType
  <1>4. /\ (i = "PRIMARY" => /\ d.type = s.pr.type /\ d.cell = s.pr.cell
                             /\ d.adv = s.pr.adv)
        /\ (i # "PRIMARY" => d.type = s.gw.type)
    BY <1>2, ViewFields DEF Dev
  <1>5. /\ s.role = role[n] /\ s.ctl = ctl[n] /\ s.pr = pr[n]
        /\ s.gw = gw[n] /\ s.enb = enb /\ s.convoys = convoys
        /\ s.clusters = clusters
    BY ViewFields
  <1> HIDE DEF s, t
  <1>6. Core(t) /\ RoleOK(t)
    BY <1>1, <1>2, <1>3, <1>4 DEF Core, RoleOK
  <1>7. KeepsOthers(s, t)
    BY <1>1, <1>2, <1>3, <1>4 DEF KeepsOthers, ViewType
  <1>8. Apply(n, t)
    BY <1>2, <1>3, <1>5 DEF Apply, SetDevice, IInv, TypeOK
  <1>9. /\ phase' = phase /\ bcasts' = bcasts /\ failure' = failure
        /\ orders' = orders
    BY DEF SetDevice
  <1>10. /\ phase' \in [Nodes -> Phases] /\ orders' \in 0..MaxOrders
         /\ \A m \in Nodes : OnRoad(m)' <=> OnRoad(m)
         /\ \A m \in Nodes : phase'[m] = phase[m]
         /\ t.role = role[n]
    BY <1>3, <1>5, <1>9 DEF IInv, TypeOK, OnRoad
  <1>11. KeepsOthers(View(n), t)
    BY <1>7 DEF s
  <1> QED
    BY <1>6, <1>8, <1>9, <1>10, <1>11, HandlerStep

\* A failure ends the run and changes nothing else.
LEMMA AbortStep ==
  ASSUME IInv, NEW why \in Failures, Abort(why)
  PROVE  IInv'
  <1>1. /\ phase' = phase /\ role' = role /\ ctl' = ctl /\ pr' = pr /\ gw' = gw
        /\ bcasts' = bcasts /\ enb' = enb /\ convoys' = convoys
        /\ clusters' = clusters /\ orders' = orders /\ failure' \in Failures
    BY DEF Abort
  <1>2. TypeOK'
    BY <1>1 DEF IInv, TypeOK
  <1>3. OneManagerPerCell'
    BY <1>1 DEF IInv, OneManagerPerCell, Masters, IsMaster, OnRoad
  <1>4. \A n \in Nodes : View(n)' = View(n) /\ (OnRoad(n)' <=> OnRoad(n))
    BY <1>1 DEF View, OnRoad
  <1> QED
    BY <1>1, <1>2, <1>3, <1>4 DEF IInv

\* A station enters with two UE devices.
LEMMA InitializeStep ==
  ASSUME IInv, NEW n \in Nodes, Initialize(n)
  PROVE  IInv'
  <1> DEFINE p == NewUe("MEMBER", 0)
             g == NewUe("GATEWAY", 0)
  <1>1. p \in Device /\ g \in Device /\ DeviceOK(p) /\ DeviceOK(g)
    BY NewUeOK
  <1>2. p.type = "MEMBER" /\ g.type = "GATEWAY"
    BY DEF NewUe
  <1>3. /\ phase' = [phase EXCEPT ![n] = "scanning"]
        /\ pr' = [pr EXCEPT ![n] = p] /\ gw' = [gw EXCEPT ![n] = g]
        /\ role' = role /\ ctl' = ctl /\ bcasts' = bcasts /\ enb' = enb
        /\ convoys' = convoys /\ clusters' = clusters /\ failure' = failure
        /\ orders' = orders /\ phase[n] = "absent"
    BY DEF Initialize
  <1> HIDE DEF p, g
  <1>4. TypeOK'
    BY <1>1, <1>3 DEF IInv, TypeOK, Phases
  <1>5. /\ pr'[n] = p /\ gw'[n] = g /\ role'[n] = "UNDEFINED"
        /\ \A m \in Nodes \ {n} : pr'[m] = pr[m] /\ gw'[m] = gw[m]
    BY <1>3 DEF IInv, TypeOK
  <1>6. /\ phase'[n] = "scanning"
        /\ \A m \in Nodes \ {n} : phase'[m] = phase[m]
    BY <1>3 DEF IInv, TypeOK
  <1>7. View(n)' \in ViewType
    BY <1>4 DEF View, ViewType, TypeOK
  <1>8. Core(View(n)') /\ RoleOK(View(n)')
    BY <1>1, <1>2, <1>3, <1>5, <1>7 DEF Core, RoleOK, View, IInv
  <1>9. \A m \in Nodes \ {n} : View(m)' = View(m) /\ (OnRoad(m)' <=> OnRoad(m))
    BY <1>3, <1>5, <1>6 DEF View, OnRoad
  <1>10. \A m \in Nodes : OnRoad(m)' => Core(View(m)') /\ RoleOK(View(m)')
    BY <1>8, <1>9 DEF IInv
  <1>11. OneManagerPerCell'
    BY <1>2, <1>5, <1>9 DEF IInv, OneManagerPerCell, Masters, IsMaster
  <1>12. \A m \in Nodes :
           phase'[m] \in {"absent", "scanning"} => role'[m] = "UNDEFINED"
    BY <1>3, <1>5, <1>6 DEF IInv
  <1> QED
    BY <1>3, <1>4, <1>10, <1>11, <1>12 DEF IInv

\* A broadcast changes the cache of its receiver only.
LEMMA ReceiveBroadcastStep ==
  ASSUME IInv, NEW n \in Nodes, NEW m \in Nodes, NEW full \in AdvertisedFull,
         NEW rssi \in Rssi, ReceiveBroadcast(n, m, full, rssi)
  PROVE  IInv'
  <1> DEFINE b == [convoy |-> pr[m].adv, cluster |-> pr[m].cell,
                   full_convoy |-> full[1], full_cluster |-> full[2],
                   direction |-> Direction[m], rssi |-> rssi]
             known == {x \in bcasts[n] : x.cluster # b.cluster} \union {b}
  <1>1. pr[m].adv \in Nat /\ pr[m].cell \in Nat
    BY DEF IInv, TypeOK, Device
  <1>2. full[1] \in BOOLEAN /\ full[2] \in BOOLEAN
    BY FullAssumption
  <1>3. Direction[m] \in {"TOP", "DOWN"} /\ rssi \in Int
    BY DirectionAssumption, RssiAssumption
  <1>4. b \in Broadcast
    BY <1>1, <1>2, <1>3 DEF Broadcast
  <1>5. bcasts' = [bcasts EXCEPT ![n] = known]
    BY DEF ReceiveBroadcast, ConvoyBroadcast
  <1>6. known \in SUBSET Broadcast
    BY <1>4 DEF IInv, TypeOK
  <1> HIDE DEF known
  <1>7. /\ phase' = phase /\ role' = role /\ ctl' = ctl /\ pr' = pr /\ gw' = gw
        /\ enb' = enb /\ convoys' = convoys /\ clusters' = clusters
        /\ orders' = orders /\ failure' = failure
    BY DEF ReceiveBroadcast
  <1>8. TypeOK'
    BY <1>5, <1>6, <1>7 DEF IInv, TypeOK
  <1>9. OneManagerPerCell'
    BY <1>7 DEF IInv, OneManagerPerCell, Masters, IsMaster, OnRoad
  <1>10. \A k \in Nodes : View(k)' = View(k) /\ (OnRoad(k)' <=> OnRoad(k))
    BY <1>7 DEF View, OnRoad
  <1> QED
    BY <1>7, <1>8, <1>9, <1>10 DEF IInv

\* A scan keeps the invariant if the handler it runs does.
LEMMA ScanDoneStep ==
  ASSUME IInv, NEW n \in Nodes, NEW t, Core(t), RoleOK(t),
         KeepsOthers(View(n), t), ScanDone(n, t)
  PROVE  IInv'
  <1>1. /\ phase' = [phase EXCEPT ![n] = "settled"] /\ phase[n] = "scanning"
        /\ Apply(n, t) /\ bcasts' = bcasts /\ failure' = failure
        /\ orders' = orders
    BY DEF ScanDone
  <1>2. /\ phase'[n] = "settled"
        /\ \A m \in Nodes \ {n} : phase'[m] = phase[m]
    BY <1>1 DEF IInv, TypeOK
  <1>3. phase' \in [Nodes -> Phases] /\ orders' \in 0..MaxOrders
    BY <1>1 DEF IInv, TypeOK, Phases
  <1>4. \A m \in Nodes : OnRoad(m)' <=> OnRoad(m)
    BY <1>1, <1>2 DEF OnRoad
  <1>5. \A m \in Nodes :
          phase'[m] \in {"absent", "scanning"} => phase'[m] = phase[m]
    BY <1>2
  <1>6. OnRoad(n)
    BY <1>1 DEF OnRoad
  <1> QED
    BY <1>1, <1>2, <1>3, <1>4, <1>5, <1>6, HandlerStep

\* The three outcomes of a scan.
LEMMA ScanStep ==
  ASSUME IInv, NEW n \in Nodes, HandleBroadcastScanEvent(n)
  PROVE  IInv'
  <1>1. phase[n] = "scanning"
    BY DEF HandleBroadcastScanEvent, ScanJoinsCluster, ScanCreatesCluster,
           ScanCreatesConvoy, ScanDone
  <1>2. Core(View(n)) /\ RoleOK(View(n))
    BY <1>1 DEF IInv, OnRoad
  <1>3. \A b \in Candidates(n) : b.convoy \in Nat /\ b.cluster \in Nat
    BY DEF Candidates, Qualified, IInv, TypeOK, Broadcast
  <1>4. CASE ScanJoinsCluster(n)
    <2>1. PICK b \in Candidates(n) :
            ScanDone(n, JoinPrimary(View(n), b.convoy, b.cluster))
      BY <1>4 DEF ScanJoinsCluster
    <2>2. View(n).pr.type # "MASTER"
      BY <1>1, <1>2, ViewFields DEF IInv, RoleOK
    <2> DEFINE t == JoinPrimary(View(n), b.convoy, b.cluster)
    <2>3. /\ Core(t) /\ KeepsOthers(View(n), t)
          /\ t.pr.type # "MASTER" /\ t.role # "MANAGER"
      BY <1>2, <1>3, <2>2, JoinPrimaryOK
    <2> HIDE DEF t
    <2>4. RoleOK(t)
      BY <2>3 DEF RoleOK
    <2> QED
      BY <2>1, <2>3, <2>4, ScanDoneStep DEF t
  <1>5. CASE ScanCreatesCluster(n)
    <2>1. PICK b \in Candidates(n) :
            ScanDone(n, CreateNewCluster(View(n), b.convoy))
      BY <1>5 DEF ScanCreatesCluster
    <2> QED
      BY <1>2, <1>3, <2>1, ScanDoneStep, CreateNewClusterOK
  <1>6. CASE ScanCreatesConvoy(n)
    BY <1>2, <1>6, ScanDoneStep, CreateNewConvoyOK DEF ScanCreatesConvoy
  <1> QED
    BY <1>4, <1>5, <1>6 DEF HandleBroadcastScanEvent

\* An order to a settled station.
LEMMA OrchestrateStep ==
  ASSUME IInv, NEW n \in Nodes, NEW c \in Commands, Orchestrate(n, c)
  PROVE  IInv'
  <1> DEFINE t == HandleOrchestrationMessage(View(n), c)
  <1>1. /\ phase[n] = "settled" /\ phase' = phase /\ bcasts' = bcasts
        /\ failure' = failure /\ orders < MaxOrders /\ orders' = orders + 1
        /\ Apply(n, t)
    BY DEF Orchestrate
  <1>2. Core(View(n)) /\ RoleOK(View(n)) /\ OnRoad(n)
    BY <1>1 DEF IInv, OnRoad
  <1>3. Core(t) /\ RoleOK(t) /\ KeepsOthers(View(n), t)
    BY <1>2, HandleOrchestrationMessageOK
  <1> HIDE DEF t
  <1>4. phase' \in [Nodes -> Phases] /\ orders' \in 0..MaxOrders
    BY <1>1, BoundsAssumption DEF IInv, TypeOK
  <1>5. \A m \in Nodes : (OnRoad(m)' <=> OnRoad(m)) /\ phase'[m] = phase[m]
    BY <1>1 DEF OnRoad
  <1>6. phase'[n] # "scanning"
    BY <1>1
  <1> QED
    BY <1>1, <1>2, <1>3, <1>4, <1>5, <1>6, HandlerStep

\* A station that leaves takes out its own entry only.
LEMMA LeaveStep ==
  ASSUME IInv, NEW n \in Nodes, Leave(n)
  PROVE  IInv'
  <1>1. /\ OnRoad(n) /\ phase' = [phase EXCEPT ![n] = "gone"]
        /\ clusters' = (clusters \ Registration(pr[n])) \ Registration(gw[n])
        /\ bcasts' = [bcasts EXCEPT ![n] = {}]
        /\ role' = role /\ ctl' = ctl /\ pr' = pr /\ gw' = gw /\ enb' = enb
        /\ convoys' = convoys /\ failure' = failure /\ orders' = orders
    BY DEF Leave
  <1>2. TypeOK'
    BY <1>1 DEF IInv, TypeOK, Phases
  <1>3. /\ phase'[n] = "gone"
        /\ \A m \in Nodes \ {n} : phase'[m] = phase[m]
    BY <1>1 DEF IInv, TypeOK
  <1>4. \A m \in Nodes : OnRoad(m)' => OnRoad(m) /\ m # n
    BY <1>3 DEF OnRoad
  <1>5. Core(View(n))
    BY <1>1 DEF IInv
  <1>6. /\ gw[n].type = "GATEWAY" /\ pr[n] \in Device /\ DeviceOK(pr[n])
    BY <1>5, ViewFields DEF Core, ViewType
  <1>7. /\ Registration(gw[n]) = {}
        /\ \A p \in Registration(pr[n]) :
             pr[n].type = "MASTER" /\ (p[2] = pr[n].cell \/ p[2] = 0)
    BY <1>6 DEF Registration, DeviceOK, Device
  <1>8. ASSUME NEW m \in Nodes, OnRoad(m)'
        PROVE  Core(View(m)') /\ RoleOK(View(m)')
    <2>1. Core(View(m)) /\ RoleOK(View(m)) /\ OnRoad(m) /\ m # n
      BY <1>4, <1>8 DEF IInv
    <2>2. pr[m].type = "MASTER" =>
            /\ 0 < pr[m].cell /\ pr[m].cell < enb
            /\ <<pr[m].adv, pr[m].cell>> \in clusters
            /\ (pr[n].type = "MASTER" => pr[m].cell # pr[n].cell)
      BY <1>1, <2>1 DEF Core, View, IInv, OneManagerPerCell, Masters, IsMaster
    <2>3. pr[m].cell \in Nat /\ pr[m].adv \in Nat
      BY DEF IInv, TypeOK, Device
    <2>4. pr[m].type = "MASTER" => <<pr[m].adv, pr[m].cell>> \in clusters'
      BY <1>1, <1>7, <2>2, <2>3
    <2>5. /\ (View(m)').pr = pr[m] /\ (View(m)').gw = gw[m]
          /\ (View(m)').enb = enb /\ (View(m)').convoys = convoys
          /\ (View(m)').clusters = clusters' /\ (View(m)').role = role[m]
      BY <1>1 DEF View
    <2>6. View(m)' \in ViewType
      BY <1>2 DEF View, ViewType, TypeOK
    <2>7. /\ gw[m].type = "GATEWAY" /\ pr[m].type \in {"MASTER", "MEMBER"}
          /\ DeviceOK(pr[m]) /\ DeviceOK(gw[m]) /\ ConvoysInOrder(convoys)
      BY <2>1, ViewFields DEF Core
    <2>8. Core(View(m)')
      BY <2>2, <2>4, <2>5, <2>6, <2>7 DEF Core
    <2>9. RoleOK(View(m)')
      BY <2>1, <2>5, ViewFields DEF RoleOK
    <2> QED
      BY <2>8, <2>9
  <1>9. OneManagerPerCell'
    BY <1>1, <1>4 DEF IInv, OneManagerPerCell, Masters, IsMaster
  <1>10. \A m \in Nodes :
           phase'[m] \in {"absent", "scanning"} => role'[m] = "UNDEFINED"
    BY <1>1, <1>3 DEF IInv
  <1> QED
    BY <1>1, <1>2, <1>8, <1>9, <1>10 DEF IInv

\* The events of the NICs.
LEMMA NicStep ==
  ASSUME IInv, NEW n \in Nodes, NEW i \in Interfaces,
         TriggerHandover(n, i) \/ DoHandover(n, i) \/ UnicastStatus(n, i)
  PROVE  IInv'
  <1> DEFINE d == Dev(n, i)
  <1>1. OnRoad(n)
    BY DEF TriggerHandover, DoHandover, UnicastStatus
  <1>2. d \in Device /\ DeviceOK(d)
    BY <1>1, ViewFields DEF IInv, TypeOK, Core, Dev, Interfaces
  <1>3. CASE \E why \in Failures : Abort(why)
    BY <1>3, AbortStep
  <1>4. CASE TriggerHandover(n, i)
    <2>1. d.starter /\ ((\E why \in Failures : Abort(why))
                         \/ SetDevice(n, i, Triggered(d)))
      BY <1>4 DEF TriggerHandover, Failures
    <2>2. CASE SetDevice(n, i, Triggered(d))
      BY <1>1, <1>2, <2>1, <2>2, TriggeredOK, DeviceStep
    <2> QED
      BY <1>3, <2>1, <2>2
  <1>5. CASE DoHandover(n, i)
    <2>1. d.triggers > 0 /\ ((\E why \in Failures : Abort(why))
                              \/ SetDevice(n, i, Completed(d)))
      BY <1>5 DEF DoHandover, Failures
    <2>2. CASE SetDevice(n, i, Completed(d))
      BY <1>1, <1>2, <2>1, <2>2, CompletedOK, DeviceStep
    <2> QED
      BY <1>3, <2>1, <2>2
  <1>6. CASE UnicastStatus(n, i)
    <2>1. d.timers > 0 /\ ((\E why \in Failures : Abort(why))
                            \/ SetDevice(n, i, Expired(d)))
      BY <1>2, <1>6, TimerPending DEF UnicastStatus, Failures
    <2>2. CASE SetDevice(n, i, Expired(d))
      BY <1>1, <1>2, <2>1, <2>2, ExpiredOK, DeviceStep
    <2> QED
      BY <1>3, <2>1, <2>2
  <1> QED
    BY <1>4, <1>5, <1>6

-----------------------------------------------------------------------------
(* Theorems.                                                               *)

\* The invariant holds on the empty road.
LEMMA InitIInv == Init => IInv
  <1> SUFFICES ASSUME Init PROVE IInv
    OBVIOUS
  <1> DEFINE p == NewUe("MEMBER", 0)
             g == NewUe("GATEWAY", 0)
  <1>1. p \in Device /\ g \in Device
    BY NewUeOK
  <1>2. pr = [n \in Nodes |-> p] /\ gw = [n \in Nodes |-> g]
    BY DEF Init
  <1> HIDE DEF p, g
  <1>3. TypeOK
    BY <1>1, <1>2, BoundsAssumption DEF Init, TypeOK, Phases, Roles, Failures
  <1>4. convoys = 1..0
    BY DEF Init
  <1>5. ConvoysInOrder(convoys)
    BY <1>4 DEF ConvoysInOrder
  <1>6. \A n \in Nodes : ~OnRoad(n) /\ role[n] = "UNDEFINED"
    BY DEF Init, OnRoad
  <1> QED
    BY <1>3, <1>5, <1>6 DEF IInv, OneManagerPerCell, Masters, IsMaster

\* Every step keeps the invariant, one case per action.
LEMMA NextIInv == IInv /\ [Next]_vars => IInv'
  <1> SUFFICES ASSUME IInv, [Next]_vars PROVE IInv'
    OBVIOUS
  <1>1. CASE UNCHANGED vars
    <2>1. Abort(failure)
      BY <1>1 DEF vars, Abort
    <2> QED
      BY <2>1, AbortStep DEF IInv, TypeOK
  <1>2. CASE Next
    <2> PICK n \in Nodes : StationStep(n)
      BY <1>2 DEF Next
    <2>1. CASE Initialize(n)
      BY <2>1, InitializeStep
    <2>2. CASE \E m \in Nodes, full \in AdvertisedFull, rssi \in Rssi :
                 ReceiveBroadcast(n, m, full, rssi)
      BY <2>2, ReceiveBroadcastStep
    <2>3. CASE HandleBroadcastScanEvent(n)
      BY <2>3, ScanStep
    <2>4. CASE \E c \in Commands : Orchestrate(n, c)
      BY <2>4, OrchestrateStep
    <2>5. CASE Leave(n)
      BY <2>5, LeaveStep
    <2>6. CASE \E i \in Interfaces :
                 TriggerHandover(n, i) \/ DoHandover(n, i) \/ UnicastStatus(n, i)
      BY <2>6, NicStep
    <2> QED
      BY <2>1, <2>2, <2>3, <2>4, <2>5, <2>6 DEF StationStep
  <1> QED
    BY <1>1, <1>2

\* The inductive invariant holds of every behaviour of the stations, whatever
\* the orders, the broadcasts and the number of stations.
THEOREM Invariance == Spec => []IInv
  BY InitIInv, NextIInv, PTL DEF Spec

\* The members of MembershipControl, ClusterDevice, the NIC and the binder
\* keep their types.
THEOREM TypeCorrect == Spec => []TypeOK
  <1>1. IInv => TypeOK
    BY DEF IInv
  <1> QED
    BY <1>1, Invariance, PTL

\* No order, replacement or departure takes the entry of a cell that is on the
\* air out of the binder's cluster map.
THEOREM MastersStayRegistered == Spec => []LiveMastersRegistered
  <1>1. IInv => LiveMastersRegistered
    BY ViewFields DEF IInv, LiveMastersRegistered, Masters, IsMaster, Core
  <1> QED
    BY <1>1, Invariance, PTL

\* Two stations never serve a cell under one id.
THEOREM CellsAreUnique == Spec => []OneManagerPerCell
  <1>1. IInv => OneManagerPerCell
    BY DEF IInv
  <1> QED
    BY <1>1, Invariance, PTL

\* The role of a settled station matches its primary device after any sequence
\* of orders.
THEOREM RolesMatchDevices == Spec => []RoleMatchesDevice
  <1>1. IInv => RoleMatchesDevice
    BY ViewFields DEF IInv, RoleMatchesDevice, OnRoad, RoleOK
  <1> QED
    BY <1>1, Invariance, PTL

\* However handovers overlap, a device without a pending one is attached to
\* the manager whose address it hands to routing.
THEOREM AddressesFollowed == Spec => []AttachmentFollows
  <1>1. IInv => AttachmentFollows
    <2> SUFFICES ASSUME IInv, NEW n \in Nodes, NEW i \in Interfaces,
                        OnRoad(n), Dev(n, i).bound, ~Pending(Dev(n, i))
                 PROVE  Dev(n, i).manager = Dev(n, i).master
      BY DEF AttachmentFollows
    <2>1. DeviceOK(pr[n]) /\ DeviceOK(gw[n])
      BY ViewFields DEF IInv, Core
    <2>2. DeviceOK(Dev(n, i))
      BY <2>1 DEF Dev, Interfaces
    <2> QED
      BY <2>2 DEF DeviceOK
  <1> QED
    BY <1>1, Invariance, PTL

-----------------------------------------------------------------------------
(* Orders and roles.                                                       *)

\* What joining and becoming a member make of the role.
LEMMA JoinRoles ==
  ASSUME NEW s, Core(s), NEW convoy, NEW cluster
  PROVE  /\ RecreateMember(s, convoy).role = s.role
         /\ CreateNewCluster(s, convoy).role = "MANAGER"
         /\ JoinPrimary(s, convoy, cluster).role =
              IF s.role = "GATEWAY" THEN "GATEWAY" ELSE "MEMBER"
  <1>1. s \in ViewType
    BY DEF Core
  <1>2. RecreateMember(s, convoy).role = s.role
    BY <1>1 DEF RecreateMember, ViewType
  <1>3. CreateNewCluster(s, convoy).role = "MANAGER"
    BY <1>1 DEF CreateNewCluster, ViewType
  <1>4. JoinPrimary(s, convoy, cluster).role =
          IF s.role = "GATEWAY" THEN "GATEWAY" ELSE "MEMBER"
    BY <1>1 DEF JoinPrimary, ViewType
  <1> QED
    BY <1>2, <1>3, <1>4

\* changeClusterMembership gives the role that is ordered, but leaves a gateway
\* a gateway when it is to be a member.
LEMMA ChangedRole ==
  ASSUME NEW s, Core(s), NEW c \in Commands, c.role # "UNDEFINED"
  PROVE  LET t == ChangeClusterMembership(s, c)
         IN \/ t.role = c.role
            \/ s.role = "GATEWAY" /\ c.role = "MEMBER" /\ t.role = "GATEWAY"
  <1> DEFINE t == ChangeClusterMembership(s, c)
  <1>1. /\ c.role \in Roles /\ c.convoy \in Nat /\ c.cluster \in Nat
        /\ c.gw \in Nat
    BY CommandsAssumption
  <1>2. CASE c.role = "MANAGER"
    BY <1>2, JoinRoles DEF ChangeClusterMembership
  <1>3. CASE c.role # "MANAGER"
    <2> DEFINE g == IF c.role = "GATEWAY"
                    THEN JoinGateway(s, c.convoy, c.gw) ELSE s
               m == IF s.role = "MANAGER"
                    THEN RecreateMember(g, c.convoy) ELSE g
    <2>1. t = JoinPrimary(m, c.convoy, c.cluster)
      BY <1>3 DEF ChangeClusterMembership
    <2>2. Core(g) /\ g.role = IF c.role = "GATEWAY" THEN "GATEWAY" ELSE s.role
      BY <1>1, JoinGatewayOK
    <2> HIDE DEF g
    <2>3. Core(m) /\ m.role = g.role
      BY <1>1, <2>2, RecreateMemberOK, JoinRoles
    <2> HIDE DEF m, t
    <2>4. t.role = IF m.role = "GATEWAY" THEN "GATEWAY" ELSE "MEMBER"
      BY <2>1, <2>3, JoinRoles
    <2>5. c.role \in {"MEMBER", "GATEWAY"}
      BY <1>1, <1>3 DEF Roles
    <2> QED
      BY <2>2, <2>3, <2>4, <2>5 DEF t
  <1> QED
    BY <1>2, <1>3

\* The same for the whole handler: a gateway that opens a convoy on the way is a
\* gateway no more.
LEMMA OrderedRole ==
  ASSUME NEW s, Core(s), NEW c \in Commands, c.role # "UNDEFINED"
  PROVE  LET t == HandleOrchestrationMessage(s, c)
         IN \/ t.role = c.role
            \/ s.role = "GATEWAY" /\ c.role = "MEMBER" /\ t.role = "GATEWAY"
  <1> DEFINE t == HandleOrchestrationMessage(s, c)
             free == DetachDevices(s)
  <1>1. Core(free) /\ free.role = s.role
    BY DetachDevicesOK
  <1> HIDE DEF free
  <1>2. CASE c.convoy # s.pr.convoy
    <2> DEFINE id == MaxIdConvoy(free.convoys) + 1
               new == [free EXCEPT !.convoys = @ \union {id}]
               opened == IF c.convoy > MaxIdConvoy(free.convoys)
                         THEN CreateNewConvoy(free) ELSE free
    <2>1. t = ChangeClusterMembership(opened, c)
      BY <1>2 DEF HandleOrchestrationMessage, free
    <2>2. CreateNewConvoy(free).role = "MANAGER"
      <3>1. CreateNewConvoy(free) = CreateNewCluster(new, id)
        BY DEF CreateNewConvoy
      <3>2. "role" \in DOMAIN new
        BY <1>1 DEF Core, ViewType
      <3> HIDE DEF new, id
      <3> QED
        BY <3>1, <3>2 DEF CreateNewCluster
    <2>3. Core(opened) /\ opened.role \in {s.role, "MANAGER"}
      BY <1>1, <2>2, CreateNewConvoyOK
    <2> HIDE DEF opened, t
    <2> QED
      BY <2>1, <2>3, ChangedRole DEF t
  <1>3. CASE c.convoy = s.pr.convoy /\ c.role # s.role
    <2>1. t = ChangeClusterMembership(free, c)
      BY <1>3 DEF HandleOrchestrationMessage, free
    <2> HIDE DEF t
    <2> QED
      BY <1>1, <2>1, ChangedRole DEF t
  <1>4. CASE c.convoy = s.pr.convoy /\ c.role = s.role
    <2>1. t = ChangeClusterMembership(s, c) \/ t = s
      BY <1>4 DEF HandleOrchestrationMessage
    <2> HIDE DEF t
    <2> QED
      BY <1>4, <2>1, ChangedRole DEF t
  <1> QED
    BY <1>2, <1>3, <1>4

\* A station has the role of its last order, whatever state it is in; only a
\* gateway that is ordered to be a member stays what it is.
THEOREM OrdersAreFollowed == Spec => RoleFollowsOrder
  <1> DEFINE Follows ==
        \A n \in Nodes, c \in Commands :
          Orchestrate(n, c) /\ c.role # "UNDEFINED"
            => \/ role'[n] = c.role
               \/ /\ role[n] = "GATEWAY" /\ c.role = "MEMBER"
                  /\ role'[n] = "GATEWAY"
  <1>1. IInv => Follows
    <2> SUFFICES ASSUME IInv, NEW n \in Nodes, NEW c \in Commands,
                        Orchestrate(n, c), c.role # "UNDEFINED"
                 PROVE  \/ role'[n] = c.role
                        \/ /\ role[n] = "GATEWAY" /\ c.role = "MEMBER"
                           /\ role'[n] = "GATEWAY"
      OBVIOUS
    <2> DEFINE t == HandleOrchestrationMessage(View(n), c)
    <2>1. phase[n] = "settled" /\ role' = [role EXCEPT ![n] = t.role]
      BY DEF Orchestrate, Apply
    <2>2. Core(View(n)) /\ View(n).role = role[n]
      BY <2>1, ViewFields DEF IInv, OnRoad
    <2>3. \/ t.role = c.role
          \/ /\ View(n).role = "GATEWAY" /\ c.role = "MEMBER"
             /\ t.role = "GATEWAY"
      BY <2>2, OrderedRole
    <2> HIDE DEF t
    <2>4. role'[n] = t.role
      BY <2>1 DEF IInv, TypeOK
    <2> QED
      BY <2>2, <2>3, <2>4
  <1>2. IInv => [Follows]_vars
    BY <1>1
  <1> QED
    BY <1>2, Invariance, PTL DEF RoleFollowsOrder
=============================================================================
