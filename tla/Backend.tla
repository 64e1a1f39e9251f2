------------------------------- MODULE Backend ------------------------------
(***************************************************************************)
(* The backend of one driving direction: the MemberStore that collects the *)
(* reports of stations and the ConvoyOrchestration application that reads  *)
(* it and gives orders.                                                    *)
(*                                                                         *)
(* A report is stamped when a station sends it.  It may be lost or late on *)
(* the way, and it arrives once for each publisher it was sent to.  The    *)
(* store keeps the youngest report of a station and discards old ones at a *)
(* fixed interval.  Time is a clock in seconds, which only runs when no    *)
(* event is due.                                                           *)
(***************************************************************************)
EXTENDS Integers, FiniteSets

CONSTANTS
  Members,        \* stations that report
  MaxAge,         \* memberMaxAge
  CheckInterval,  \* memberCheckInterval
  StartTime, StopTime, UpdateRate,  \* of the orchestration
  MaxDelay,       \* bound: how long a report may be under way
  MaxReports,     \* bound: reports under way at a time
  MaxTime         \* bound: end of the simulation

ASSUME StoreParameters ==
  /\ MaxAge \in Nat \ {0} /\ CheckInterval \in Nat \ {0}
  /\ MaxDelay \in Nat /\ MaxReports \in Nat /\ MaxTime \in Nat
ASSUME OrchestrationParameters ==
  StartTime \in Nat /\ StopTime \in Nat /\ UpdateRate \in Nat \ {0}

VARIABLES
  now,      \* simTime
  net,      \* reports on their way, with the time they were sent
  record,   \* MemberStore::_member_ccs_record
  check,    \* when _member_expiry_check_event is due
  start,    \* when _start_event is due, Never if it is not scheduled
  update,   \* when _update_event is due, Never if it is not scheduled
  orders,   \* stations for which an order is on its way to routing
  failure   \* the cast that ended the simulation

bvars == <<now, net, record, check, start, update, orders, failure>>

Never == -1

Running == failure = "none"

\* An event of the backend is due, and time stands still until it has run
Due == now \in {check, start, update} \/ orders # {}

\* ConvoyOrchestration::initialize, at time 0
ScheduledStart == IF StopTime > StartTime THEN StartTime ELSE Never

\* With MemberStore::initialize
Init ==
  /\ now = 0
  /\ net = {}
  /\ record = {}
  /\ check = CheckInterval
  /\ start = ScheduledStart
  /\ update = Never
  /\ orders = {}
  /\ failure = "none"

\* No report is under way for longer than MaxDelay: it is lost before
Tick ==
  /\ Running /\ ~Due /\ now < MaxTime
  /\ \A r \in net : now - r.timestamp < MaxDelay
  /\ now' = now + 1
  /\ UNCHANGED <<net, record, check, start, update, orders, failure>>

-----------------------------------------------------------------------------
(* Reports.                                                                *)

\* Mutant: the stamp is the time of the report before
SendMemberReport_Earlier(m) ==
  /\ Running /\ Cardinality(net) < MaxReports
  /\ net' = net \union {[name |-> m, timestamp |-> now - UpdateRate]}
  /\ UNCHANGED <<now, record, check, start, update, orders, failure>>

\* MembershipControl::sendMemberReport, then routing to the publishers
SendMemberReport(m) ==
  /\ Running /\ Cardinality(net) < MaxReports
  /\ net' = net \union {[name |-> m, timestamp |-> now]}
  /\ UNCHANGED <<now, record, check, start, update, orders, failure>>

\* The last copy of a report has arrived or is lost
Drop(r) ==
  /\ Running
  /\ net' = net \ {r}
  /\ UNCHANGED <<now, record, check, start, update, orders, failure>>

\* Mutant: a report is stored whatever its age
UpdateNodeCCSReports_Any(r) == {x \in record : x.name # r.name} \union {r}

\* Mutant: the entry of a station is not looked up
UpdateNodeCCSReports_Append(r) == record \union {r}

\* An entry of the same name is replaced if it is older
UpdateNodeCCSReports(r) ==
  LET known == {x \in record : x.name = r.name}
  IN IF known = {} THEN record \union {r}
     ELSE {IF x \in known /\ x.timestamp < r.timestamp THEN r ELSE x :
             x \in record}

\* receiveFromNetwork at the backend, to the store.  Other copies may follow.
ReceiveReport(r) ==
  /\ Running
  /\ record' = UpdateNodeCCSReports(r)
  /\ UNCHANGED <<now, net, check, start, update, orders, failure>>

-----------------------------------------------------------------------------
(* The events of the backend.                                              *)

Expired(r) == now - r.timestamp >= MaxAge

\* Mutant: the check is not scheduled again
CheckMemberExpiry_Once ==
  /\ Running /\ now = check
  /\ record' = {r \in record : ~Expired(r)}
  /\ check' = 0
  /\ UNCHANGED <<now, net, start, update, orders, failure>>

CheckMemberExpiry ==
  /\ Running /\ now = check
  /\ record' = {r \in record : ~Expired(r)}
  /\ check' = now + CheckInterval
  /\ UNCHANGED <<now, net, start, update, orders, failure>>

\* Mutant: the application does not stop
NextUpdate_Unending == now + UpdateRate

\* The next step is scheduled, and cancelled again once it is time to stop
NextUpdate == IF now >= StopTime THEN Never ELSE now + UpdateRate

StartEvent ==
  /\ Running /\ now = start
  /\ start' = Never
  /\ update' = NextUpdate
  /\ UNCHANGED <<now, net, record, check, orders, failure>>

\* The state that is desired is the state that is reported: one order goes out
\* for each record
UpdateEvent ==
  /\ Running /\ now = update
  /\ update' = NextUpdate
  /\ orders' = orders \union {r.name : r \in record}
  /\ UNCHANGED <<now, net, record, check, start, failure>>

\* Routing takes the order for an Orchestration, which the orchestrator's
\* ConvoyControlService is not: the cast throws
MsgHandlerOrchestration ==
  /\ Running /\ orders # {}
  /\ failure' = "order is no Orchestration"
  /\ UNCHANGED <<now, net, record, check, start, update, orders>>

-----------------------------------------------------------------------------
Next ==
  \/ Tick
  \/ \E m \in Members : SendMemberReport(m)
  \/ \E r \in net : Drop(r) \/ ReceiveReport(r)
  \/ CheckMemberExpiry
  \/ StartEvent
  \/ UpdateEvent
  \/ MsgHandlerOrchestration

Spec == Init /\ [][Next]_bvars
-----------------------------------------------------------------------------
(* Properties.                                                             *)

Report == [name : Members, timestamp : Nat]

\* Clock, reports and events keep their types.
BackendTypeOK ==
  /\ now \in Nat
  /\ net \in SUBSET Report
  /\ record \in SUBSET Report
  /\ check \in Nat
  /\ start \in Nat \union {Never}
  /\ update \in Nat \union {Never}
  /\ orders \in SUBSET Members
  /\ failure \in {"none", "order is no Orchestration"}

\* Whatever copies arrive in whatever order, the store has one entry for a
\* station.
OneRecordEach ==
  \A r, s \in record : r.name = s.name => r = s

\* While a station has an entry, what the store knows of it never becomes
\* older, although reports overtake each other.
YoungestKept ==
  [][\A r \in record, s \in record' :
       r.name = s.name => r.timestamp =< s.timestamp]_bvars

Larger(a, b) == IF a >= b THEN a ELSE b

\* A report that comes in after its station's entry has expired is stored
\* however old it is, but not for long: no entry outlives the next check by
\* more than the larger of the age limit and the delay.
RecordAgeBounded ==
  \A r \in record :
    now - r.timestamp =< Larger(MaxAge - 1, MaxDelay) + CheckInterval

\* The orchestration stops: its last step is less than one period after the
\* stop time, and it gives no order before one period after the start time.
StepsInWindow ==
  /\ update # Never =>
       StartTime + UpdateRate =< update /\ update < StopTime + UpdateRate
  /\ orders # {} =>
       StartTime + UpdateRate =< now /\ now < StopTime + UpdateRate

\* "message is always routed through the rsu": the orders are passed on.
OrdersForwarded == failure # "order is no Orchestration"
=============================================================================
