------------------------------ MODULE Convoys -------------------------------
(***************************************************************************)
(* What convoy membership promises when nobody orders anything: a station  *)
(* enters, and either opens a cell of its own or joins, for good, one that *)
(* was opened by a station of its direction; then it is attached to that   *)
(* cell, which must still be on the air.  A convoy is founded under an id  *)
(* nobody carries and grows only through cells of its own direction.       *)
(*                                                                         *)
(* There are no broadcasts, caches, registries, timers or handover events  *)
(* here: Membership has them, and implements this specification.           *)
(***************************************************************************)
EXTENDS Integers

CONSTANTS
  Nodes,      \* stations
  Direction   \* Direction[n]: the way n moves

VARIABLES
  status,     \* absent, scanning, manager, member, gone
  serves,     \* the cell a station has opened, kept after it has left, or 0
  manager,    \* the cell a station belongs to, or 0
  convoy,     \* the convoy a station belongs to, or 0
  attached    \* the cell a station's radio is attached to, or 0

absVars == <<status, serves, manager, convoy, attached>>

Init ==
  /\ status = [n \in Nodes |-> "absent"]
  /\ serves = [n \in Nodes |-> 0]
  /\ manager = [n \in Nodes |-> 0]
  /\ convoy = [n \in Nodes |-> 0]
  /\ attached = [n \in Nodes |-> 0]

Enter(n) ==
  /\ status[n] = "absent"
  /\ status' = [status EXCEPT ![n] = "scanning"]
  /\ UNCHANGED <<serves, manager, convoy, attached>>

\* n serves a cell under an id that was never used, in a convoy that nobody
\* carries or in one that has, or had, a cell in the direction of n
Open(n, cell, id) ==
  /\ status[n] = "scanning"
  /\ cell # 0 /\ id # 0
  /\ \A m \in Nodes : serves[m] # cell
  /\ \/ \A m \in Nodes : convoy[m] # id
     \/ \E m \in Nodes :
          serves[m] # 0 /\ convoy[m] = id /\ Direction[m] = Direction[n]
  /\ status' = [status EXCEPT ![n] = "manager"]
  /\ serves' = [serves EXCEPT ![n] = cell]
  /\ manager' = [manager EXCEPT ![n] = cell]
  /\ convoy' = [convoy EXCEPT ![n] = id]
  /\ attached' = [attached EXCEPT ![n] = cell]

\* n chooses the cell of m, which may have left since n heard of it
Join(n, m) ==
  /\ status[n] = "scanning"
  /\ serves[m] # 0
  /\ Direction[m] = Direction[n]
  /\ status' = [status EXCEPT ![n] = "member"]
  /\ manager' = [manager EXCEPT ![n] = serves[m]]
  /\ convoy' = [convoy EXCEPT ![n] = convoy[m]]
  /\ UNCHANGED <<serves, attached>>

\* Only a manager that is still there can be attached to
Attach(n, m) ==
  /\ status[n] = "member"
  /\ attached[n] = 0
  /\ status[m] = "manager"
  /\ serves[m] = manager[n]
  /\ attached' = [attached EXCEPT ![n] = manager[n]]
  /\ UNCHANGED <<status, serves, manager, convoy>>

Depart(n) ==
  /\ status[n] \in {"scanning", "manager", "member"}
  /\ status' = [status EXCEPT ![n] = "gone"]
  /\ UNCHANGED <<serves, manager, convoy, attached>>

\* The ids under which n opens its cell are the ones it has afterwards
Next ==
  \E n \in Nodes :
    \/ Enter(n)
    \/ Open(n, serves'[n], convoy'[n])
    \/ \E m \in Nodes : Join(n, m) \/ Attach(n, m)
    \/ Depart(n)

Spec == Init /\ [][Next]_absVars
=============================================================================
