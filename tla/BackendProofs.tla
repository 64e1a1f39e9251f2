---------------------------- MODULE BackendProofs ---------------------------
(***************************************************************************)
(* Proofs about Backend, for any stations, parameters and delays.  The     *)
(* invariant adds to the properties that no event is missed by the clock   *)
(* and bounds the age an entry will have when it is next checked.          *)
(***************************************************************************)
EXTENDS Backend, TLAPS

Bound == Larger(MaxAge - 1, MaxDelay) + CheckInterval

\* No event is overdue, and the next check is at most an interval away.
EventsAhead ==
  /\ now =< check /\ check =< now + CheckInterval
  /\ start # Never => now =< start /\ start = StartTime /\ StartTime < StopTime
  /\ update # Never => now =< update

\* A report under way is not from the future and not overdue.
ReportsTimely ==
  \A r \in net : r.timestamp =< now /\ now - r.timestamp =< MaxDelay

\* The age an entry will have when the next check runs.
AgeAtCheck == \A r \in record : check - r.timestamp =< Bound

BInv ==
  /\ BackendTypeOK
  /\ OneRecordEach
  /\ StepsInWindow
  /\ EventsAhead
  /\ ReportsTimely
  /\ AgeAtCheck

-----------------------------------------------------------------------------
\* The bound is a number, above the age limit and above the delay.
LEMMA BoundOf ==
  /\ Bound \in Int
  /\ MaxAge - 1 + CheckInterval =< Bound
  /\ MaxDelay + CheckInterval =< Bound
  <1>1. /\ MaxAge \in Int /\ MaxAge - 1 \in Int
        /\ MaxDelay \in Int /\ CheckInterval \in Int
    BY StoreParameters
  <1> QED
    BY <1>1 DEF Bound, Larger

\* Natural numbers are integers.
LEMMA NatIsInt == \A i \in Nat : i \in Int
  OBVIOUS

\* The time stamp of a report is a number.
LEMMA StampIsNumber ==
  ASSUME NEW r \in Report
  PROVE  r.timestamp \in Int
  BY DEF Report

\* What a report does to the store: it comes in or it does not, and an entry
\* it replaces is older.
LEMMA StoredReports ==
  ASSUME NEW r \in Report, record \in SUBSET Report, OneRecordEach
  PROVE  LET new == UpdateNodeCCSReports(r)
         IN /\ new \subseteq record \union {r}
            /\ \A x, y \in new : x.name = y.name => x = y
            /\ \A x \in record, y \in new :
                 x.name = y.name => x.timestamp =< y.timestamp
  <1> DEFINE known == {x \in record : x.name = r.name}
             new == UpdateNodeCCSReports(r)
  <1>0. /\ r.timestamp \in Nat
        /\ \A x \in record : x.timestamp \in Nat
    BY DEF Report
  <1>1. CASE known = {}
    <2>1. new = record \union {r}
      BY <1>1 DEF UpdateNodeCCSReports
    <2>2. \A x \in record : x.name # r.name
      BY <1>1
    <2> QED
      BY <1>0, <2>1, <2>2 DEF OneRecordEach
  <1>2. CASE known # {}
    <2>1. new = {IF x \in known /\ x.timestamp < r.timestamp THEN r ELSE x :
                   x \in record}
      BY <1>2 DEF UpdateNodeCCSReports
    <2>2. \A y \in new :
            \/ y \in record /\ ~(y.name = r.name /\ y.timestamp < r.timestamp)
            \/ y = r /\ \E x \in record :
                          x.name = r.name /\ x.timestamp < r.timestamp
      BY <2>1
    <2>3. ASSUME NEW x \in new, NEW y \in new, x.name = y.name
          PROVE  x = y
      BY <1>0, <2>2, <2>3 DEF OneRecordEach
    <2>4. ASSUME NEW x \in record, NEW y \in new, x.name = y.name
          PROVE  x.timestamp =< y.timestamp
      BY <1>0, <2>2, <2>4 DEF OneRecordEach
    <2> QED
      BY <2>2, <2>3, <2>4
  <1> QED
    BY <1>1, <1>2

-----------------------------------------------------------------------------
\* The backend starts with an empty store and its first check ahead.
LEMMA InitBInv == Init => BInv
  <1> SUFFICES ASSUME Init PROVE BInv
    OBVIOUS
  <1> USE StoreParameters, OrchestrationParameters
  <1>1. BackendTypeOK
    BY DEF Init, ScheduledStart, BackendTypeOK, Never
  <1>2. OneRecordEach /\ ReportsTimely /\ AgeAtCheck
    BY DEF Init, OneRecordEach, ReportsTimely, AgeAtCheck
  <1>3. StepsInWindow /\ EventsAhead
    BY DEF Init, ScheduledStart, StepsInWindow, EventsAhead, Never
  <1> QED
    BY <1>1, <1>2, <1>3 DEF BInv

\* The clock runs on only when nothing is due.
LEMMA TickKeepsBInv ==
  ASSUME BInv, Tick
  PROVE  BInv'
  <1> USE StoreParameters, OrchestrationParameters DEF BInv, Tick, Running, Due
  <1>1. BackendTypeOK'
    BY DEF BackendTypeOK
  <1>2. OneRecordEach' /\ AgeAtCheck'
    BY DEF OneRecordEach, AgeAtCheck, Bound
  <1>3. StepsInWindow'
    BY DEF StepsInWindow
  <1>4. EventsAhead'
    BY DEF EventsAhead, BackendTypeOK, Never
  <1>5. ReportsTimely'
    BY DEF ReportsTimely, BackendTypeOK, Report
  <1> QED
    BY <1>1, <1>2, <1>3, <1>4, <1>5

\* Reports are stamped with the time at which they are sent.
LEMMA SendKeepsBInv ==
  ASSUME BInv, NEW m \in Members, SendMemberReport(m)
  PROVE  BInv'
  <1> USE StoreParameters DEF BInv, SendMemberReport, Running
  <1>1. BackendTypeOK'
    BY DEF BackendTypeOK, Report
  <1>2. OneRecordEach' /\ AgeAtCheck' /\ StepsInWindow' /\ EventsAhead'
    BY DEF OneRecordEach, AgeAtCheck, Bound, StepsInWindow, EventsAhead
  <1>3. ReportsTimely'
    BY DEF ReportsTimely, BackendTypeOK, Report
  <1> QED
    BY <1>1, <1>2, <1>3

\* A report that is lost is one less.
LEMMA DropKeepsBInv ==
  ASSUME BInv, NEW r \in net, Drop(r)
  PROVE  BInv'
  BY DEF BInv, Drop, Running, BackendTypeOK, OneRecordEach, AgeAtCheck, Bound,
         StepsInWindow, EventsAhead, ReportsTimely

\* A report comes into the store at an age of at most the delay.
LEMMA ReceiveKeepsBInv ==
  ASSUME BInv, NEW r \in net, ReceiveReport(r)
  PROVE  BInv'
  <1> USE DEF BInv, Running
  <1>0. r \in Report /\ record' = UpdateNodeCCSReports(r)
    BY DEF BackendTypeOK, ReceiveReport
  <1>1. /\ record' \subseteq record \union {r}
        /\ \A x, y \in record' : x.name = y.name => x = y
    BY <1>0, StoredReports DEF BackendTypeOK
  <1>2. BackendTypeOK'
    BY <1>0, <1>1 DEF BackendTypeOK, ReceiveReport
  <1>3. OneRecordEach'
    BY <1>1 DEF OneRecordEach
  <1>4. StepsInWindow' /\ EventsAhead' /\ ReportsTimely'
    BY DEF StepsInWindow, EventsAhead, ReportsTimely, ReceiveReport
  <1>5. check - r.timestamp =< Bound
    <2>1. now \in Int /\ check \in Int /\ r.timestamp \in Int
      <3>1. r.timestamp \in Int
        BY <1>0, StampIsNumber
      <3>2. now \in Nat /\ check \in Nat
        BY DEF BackendTypeOK
      <3> QED
        BY <3>1, <3>2, NatIsInt
    <2>2. check =< now + CheckInterval /\ now - r.timestamp =< MaxDelay
      BY DEF EventsAhead, ReportsTimely
    <2>3. CheckInterval \in Int /\ MaxDelay \in Int
      BY StoreParameters
    <2> HIDE DEF BInv
    <2> QED
      BY <2>1, <2>2, <2>3, BoundOf
  <1>6. AgeAtCheck'
    BY <1>1, <1>5 DEF AgeAtCheck, ReceiveReport, Bound, Larger
  <1> QED
    BY <1>2, <1>3, <1>4, <1>6

\* What survives a check is younger than the limit.
LEMMA CheckKeepsBInv ==
  ASSUME BInv, CheckMemberExpiry
  PROVE  BInv'
  <1> USE StoreParameters DEF BInv, CheckMemberExpiry, Running
  <1>1. BackendTypeOK'
    BY DEF BackendTypeOK
  <1>2. OneRecordEach' /\ StepsInWindow' /\ ReportsTimely'
    BY DEF OneRecordEach, StepsInWindow, ReportsTimely
  <1>3. EventsAhead'
    BY DEF EventsAhead, BackendTypeOK
  <1>4. ASSUME NEW r \in record'
        PROVE  check' - r.timestamp =< Bound
    BY <1>4, BoundOf DEF Expired, BackendTypeOK, Report
  <1>5. AgeAtCheck'
    BY <1>4 DEF AgeAtCheck, Bound
  <1> QED
    BY <1>1, <1>2, <1>3, <1>5

\* The events of the orchestration schedule the next one within the window.
LEMMA OrchestrationKeepsBInv ==
  ASSUME BInv, StartEvent \/ UpdateEvent \/ MsgHandlerOrchestration
  PROVE  BInv'
  <1> USE OrchestrationParameters DEF BInv, Running
  <1>1. OneRecordEach' /\ ReportsTimely' /\ AgeAtCheck'
    BY DEF OneRecordEach, ReportsTimely, AgeAtCheck, Bound, StartEvent,
           UpdateEvent, MsgHandlerOrchestration
  <1>2. CASE StartEvent
    <2>1. now = StartTime /\ StartTime < StopTime
      BY <1>2 DEF StartEvent, EventsAhead, BackendTypeOK, Never
    <2>2. update' = now + UpdateRate
      BY <1>2, <2>1 DEF StartEvent, NextUpdate
    <2>3. BackendTypeOK' /\ EventsAhead'
      BY <1>2, <2>2 DEF StartEvent, BackendTypeOK, EventsAhead
    <2>4. StepsInWindow'
      BY <1>2, <2>1, <2>2 DEF StartEvent, StepsInWindow
    <2> QED
      BY <1>1, <2>3, <2>4
  <1>3. CASE UpdateEvent
    <2>1. /\ now \in Nat /\ update # Never
          /\ StartTime + UpdateRate =< now /\ now < StopTime + UpdateRate
      BY <1>3 DEF UpdateEvent, StepsInWindow, BackendTypeOK, Never
    <2>2. \/ update' = Never
          \/ now < StopTime /\ update' = now + UpdateRate
      BY <1>3, <2>1 DEF UpdateEvent, NextUpdate
    <2>3. BackendTypeOK'
      BY <1>3, <2>1, <2>2 DEF UpdateEvent, BackendTypeOK, Report
    <2>4. EventsAhead'
      BY <1>3, <2>1, <2>2 DEF UpdateEvent, EventsAhead
    <2>5. StepsInWindow'
      BY <1>3, <2>1, <2>2 DEF UpdateEvent, StepsInWindow
    <2> QED
      BY <1>1, <2>3, <2>4, <2>5
  <1>4. CASE MsgHandlerOrchestration
    BY <1>1, <1>4 DEF MsgHandlerOrchestration, BackendTypeOK, EventsAhead,
                      StepsInWindow
  <1> QED
    BY <1>2, <1>3, <1>4

\* Every step keeps the invariant.
LEMMA NextBInv == BInv /\ [Next]_bvars => BInv'
  <1> SUFFICES ASSUME BInv, [Next]_bvars PROVE BInv'
    OBVIOUS
  <1>1. CASE UNCHANGED bvars
    BY <1>1 DEF bvars, BInv, BackendTypeOK, OneRecordEach, StepsInWindow,
                EventsAhead, ReportsTimely, AgeAtCheck, Bound
  <1>2. CASE Next
    BY <1>2, TickKeepsBInv, SendKeepsBInv, DropKeepsBInv, ReceiveKeepsBInv,
       CheckKeepsBInv, OrchestrationKeepsBInv
    DEF Next
  <1> QED
    BY <1>1, <1>2

\* The invariant holds throughout, for all parameters.
THEOREM BackendInvariance == Spec => []BInv
  BY InitBInv, NextBInv, PTL DEF Spec

\* Clock, store and events of the backend keep their types.
THEOREM BackendTypes == Spec => []BackendTypeOK
  <1>1. BInv => BackendTypeOK
    BY DEF BInv
  <1> QED
    BY <1>1, BackendInvariance, PTL

\* checkMemberExpiry and updateNodeCCSReports together bound how old an entry
\* of the member store gets, late and repeated reports included.
THEOREM RecordsAgeBounded == Spec => []RecordAgeBounded
  <1>1. BInv => RecordAgeBounded
    <2> SUFFICES ASSUME BInv, NEW r \in record
                 PROVE  now - r.timestamp =< Bound
      BY DEF RecordAgeBounded, Bound
    <2>1. now \in Int /\ check \in Int /\ r.timestamp \in Int
      <3>1. r \in Report
        BY DEF BInv, BackendTypeOK
      <3>2. r.timestamp \in Int
        BY <3>1, StampIsNumber
      <3>3. now \in Nat /\ check \in Nat
        BY DEF BInv, BackendTypeOK
      <3> QED
        BY <3>2, <3>3, NatIsInt
    <2>2. now =< check /\ check - r.timestamp =< Bound
      BY DEF BInv, EventsAhead, AgeAtCheck
    <2> QED
      BY <2>1, <2>2, BoundOf
  <1> QED
    BY <1>1, BackendInvariance, PTL

\* The member store never holds two entries of a station.
THEOREM RecordsUnique == Spec => []OneRecordEach
  <1>1. BInv => OneRecordEach
    BY DEF BInv
  <1> QED
    BY <1>1, BackendInvariance, PTL

\* Orders go out from one period after the start to one period after the stop.
THEOREM OrchestrationWindow == Spec => []StepsInWindow
  <1>1. BInv => StepsInWindow
    BY DEF BInv
  <1> QED
    BY <1>1, BackendInvariance, PTL

\* updateNodeCCSReports never replaces what it knows by something older.
THEOREM YoungestStays == Spec => YoungestKept
  <1>1. ASSUME BInv, [Next]_bvars,
               NEW r \in record, NEW s \in record', r.name = s.name
        PROVE  r.timestamp =< s.timestamp
    <2>0. r.timestamp \in Nat /\ \A x \in net : x \in Report
      BY <1>1 DEF BInv, BackendTypeOK, Report
    <2>1. CASE \E x \in net : ReceiveReport(x)
      <3>1. PICK x \in net : ReceiveReport(x)
        BY <2>1
      <3>2. record' = UpdateNodeCCSReports(x)
        BY <3>1 DEF ReceiveReport
      <3>3. record \in SUBSET Report /\ OneRecordEach
        BY <1>1 DEF BInv, BackendTypeOK
      <3> QED
        BY <1>1, <2>0, <3>2, <3>3, StoredReports
    <2>2. CASE record' \subseteq record
      BY <1>1, <2>0, <2>2 DEF BInv, OneRecordEach
    <2>3. \/ \E x \in net : ReceiveReport(x)
          \/ record' \subseteq record
      BY <1>1 DEF Next, Tick, SendMemberReport, Drop, CheckMemberExpiry,
                  StartEvent, UpdateEvent, MsgHandlerOrchestration, Running, bvars
    <2> QED
      BY <2>1, <2>2, <2>3
  <1>2. BInv /\ [Next]_bvars =>
          [\A r \in record, s \in record' :
             r.name = s.name => r.timestamp =< s.timestamp]_bvars
    BY <1>1
  <1> QED
    BY <1>2, BackendInvariance, PTL DEF Spec, YoungestKept
=============================================================================
