--------------------------- MODULE OrderLifecycle ---------------------------
(***************************************************************************)
(* What the payment services promise, without requests, events or faults:  *)
(* an order is placed, is paid once or fails, may be disputed once, and a  *)
(* refund ends it; access to the course changes in the same step as the    *)
(* order.  OrderPayments is shown to implement this (OrderPayments!        *)
(* Lifecycle).                                                             *)
(***************************************************************************)
CONSTANTS Orders, Enrollments, Purchase

VARIABLES status,    \* of each order
          access,    \* of each enrolment, "NONE" before it exists
          disputed   \* the orders that have been disputed

lifecycleVars == <<status, access, disputed>>

Start ==
  /\ status = [o \in Orders |-> "NONE"]
  /\ access = [e \in Enrollments |-> "NONE"]
  /\ disputed = {}

Move(o, from, to) == status[o] \in from /\ status' = [status EXCEPT ![o] = to]
SetAccess(o, a) == access' = [access EXCEPT ![Purchase[o]] = a]
Access(o) == access[Purchase[o]]

Place(o) ==
  /\ Move(o, {"NONE"}, "PENDING")
  /\ UNCHANGED <<access, disputed>>

Pay(o) ==
  /\ Move(o, {"PENDING"}, "PAID")
  /\ SetAccess(o, "ACTIVE")
  /\ UNCHANGED disputed

Fail(o) ==
  /\ Move(o, {"PENDING"}, "FAILED")
  /\ UNCHANGED <<access, disputed>>

Refund(o) ==
  /\ Move(o, {"PAID", "DISPUTED"}, "REFUNDED")
  /\ SetAccess(o, IF Access(o) = "NONE" THEN "NONE" ELSE "REFUNDED")
  /\ UNCHANGED disputed

OpenDispute(o) ==
  /\ o \notin disputed
  /\ Move(o, {"PAID"}, "DISPUTED")
  /\ SetAccess(o, IF Access(o) = "ACTIVE" THEN "REVOKED" ELSE Access(o))
  /\ disputed' = disputed \cup {o}

WinDispute(o) ==
  /\ Move(o, {"DISPUTED"}, "PAID")
  /\ SetAccess(o, IF Access(o) = "REVOKED" THEN "ACTIVE" ELSE Access(o))
  /\ UNCHANGED disputed

Step ==
  \E o \in Orders :
    Place(o) \/ Pay(o) \/ Fail(o) \/ Refund(o) \/ OpenDispute(o) \/ WinDispute(o)

LifecycleSpec == Start /\ [][Step]_lifecycleVars

=============================================================================
