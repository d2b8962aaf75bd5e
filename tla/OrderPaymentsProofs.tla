------------------------ MODULE OrderPaymentsProofs ------------------------
(***************************************************************************)
(* Theorems about OrderPayments, for every set of orders, workers and      *)
(* enrolments and every choice of the environment's constants.             *)
(***************************************************************************)
EXTENDS OrderPayments, TLAPS

-----------------------------------------------------------------------------
(* How a step of a request changes req *)

(* A worker that is not idle has a running request. *)
LEMMA BusyIsRunning ==
  ASSUME TypeOK, NEW w \in Workers, ~ IsIdle(w)
  PROVE  req[w] \in Running
BY DEF TypeOK, Request, Idle, IsIdle

(* Goto, Done and Begin keep every request well formed. *)
LEMMA GotoType ==
  ASSUME TypeOK, NEW w \in Workers, ~ IsIdle(w), NEW step \in Steps \ {"idle"}, Goto(w, step)
  PROVE  req' \in [Workers -> Request]
<1>1. req[w] \in Running
  BY BusyIsRunning
<1>2. [req[w] EXCEPT !.step = step] \in Running
  BY <1>1 DEF Running
<1> QED
  BY <1>2 DEF TypeOK, Goto, Request

LEMMA DoneType ==
  ASSUME TypeOK, NEW w \in Workers, Done(w)
  PROVE  req' \in [Workers -> Request]
BY DEF TypeOK, Done, Request

LEMMA BeginType ==
  ASSUME TypeOK, NEW w \in Workers, NEW step \in Steps \ {"idle"}, NEW o \in Orders,
         NEW event \in EventTypes \cup {NoEvent}, NEW intent \in BOOLEAN,
         Begin(w, step, o, event, intent)
  PROVE  req' \in [Workers -> Request]
<1>1. [step |-> step, order |-> o, event |-> event, intent |-> intent] \in Running
  BY DEF Running
<1> QED
  BY <1>1 DEF TypeOK, Begin, Request

(* Emit appends an event to the order's history. *)
LEMMA EmitType ==
  ASSUME TypeOK, NEW o \in Orders, NEW event \in EventTypes, Emit(o, event)
  PROVE  emitted' \in [Orders -> Seq(EventTypes)]
<1>1. Append(emitted[o], event) \in Seq(EventTypes)
  BY DEF TypeOK
<1> QED
  BY <1>1 DEF TypeOK, Emit

(* The row markOrderPaid writes. *)
LEMMA PaidRowType ==
  ASSUME TypeOK, NEW w \in Workers, req[w].order \in Orders
  PROVE  PaidRow(w) \in OrderRow /\ PaidRow(w).status = "PAID"
<1> DEFINE o == req[w].order
<1>1. orders[o] \in OrderRow
  BY DEF TypeOK
<1>2. (orders[o].intent \/ req[w].intent) \in BOOLEAN
  OBVIOUS
<1>3. PaidRow(w) = [orders[o] EXCEPT !.status = "PAID",
                      !.intent = orders[o].intent \/ req[w].intent]
  BY <1>1 DEF PaidRow, OrderRow
<1> QED
  BY <1>1, <1>2, <1>3 DEF OrderRow, OrderStatus

(* A transaction writes well-formed rows, whichever of its three ends it   *)
(* comes to.                                                               *)
LEMMA TransactionType ==
  ASSUME TypeOK, NEW w \in Workers, ~ IsIdle(w), NEW from, NEW row \in OrderRow,
         row.status \in OrderStatus, NEW access \in EnrollmentStatus,
         Transaction(w, from, row, access)
  PROVE  TypeOK'
<1>1. req[w] \in Running
  BY BusyIsRunning
<1>2. req' \in [Workers -> Request]
  BY GotoType DEF Transaction, Apply, NotApplied, RolledBack, Steps
<1>3. req[w].order \in Orders /\ req[w].event \in EventTypes \cup {NoEvent}
  BY <1>1 DEF Running
<1>4. orders' \in [Orders -> OrderRow]
  BY <1>3 DEF Transaction, Apply, NotApplied, RolledBack, dbVars, TypeOK
<1>5. payments' \in [Orders -> Seq(PaymentRow)]
  <2>1. [status |-> row.status, event |-> req[w].event] \in PaymentRow
    BY <1>3 DEF PaymentRow
  <2>2. Append(payments[req[w].order], [status |-> row.status, event |-> req[w].event])
          \in Seq(PaymentRow)
    BY <1>3, <2>1 DEF TypeOK
  <2> QED
    BY <2>2 DEF Transaction, Apply, NotApplied, RolledBack, dbVars, TypeOK
<1>6. enrollments' \in [Enrollments -> EnrollmentStatus]
  BY DEF Transaction, Apply, NotApplied, RolledBack, dbVars, TypeOK
<1> QED
  BY <1>2, <1>4, <1>5, <1>6 DEF Transaction, TypeOK, stripeVars

(* Each action keeps the types; the actions that only move a request share *)
(* the first lemma.                                                        *)
LEMMA StartType ==
  ASSUME TypeOK, NEW w \in Workers, Start(w)
  PROVE  TypeOK'
<1> USE OrderAssumption
<1> PICK o \in Orders :
      \/ StartCheckout(w, o) \/ StartConfirm(w, o) \/ StartApprove(w, o)
      \/ StartRefund(w, o)
      \/ \E event \in EventTypes : ClaimEvent(w, o, event) \/ AckDuplicate(w, o, event)
  BY DEF Start
<1>1. orders[o].intent \in BOOLEAN
  BY DEF TypeOK, OrderRow
<1>2. CASE StartCheckout(w, o) \/ StartConfirm(w, o) \/ StartApprove(w, o) \/ StartRefund(w, o)
  <2>1. req' \in [Workers -> Request]
    BY <1>1, <1>2, BeginType
       DEF StartCheckout, StartConfirm, StartApprove, StartRefund, Steps
  <2> QED
    BY <1>2, <2>1 DEF StartCheckout, StartConfirm, StartApprove, StartRefund, TypeOK,
                      dbVars, stripeVars
<1>3. ASSUME NEW event \in EventTypes, ClaimEvent(w, o, event)
      PROVE  TypeOK'
  <2>1. FirstStep(event) \in Steps \ {"idle"}
    BY DEF FirstStep, Steps
  <2>2. req' \in [Workers -> Request]
    BY <1>3, <2>1, BeginType DEF ClaimEvent
  <2> QED
    BY <1>3, <2>2 DEF ClaimEvent, TypeOK, Events, dbVars, stripeVars
<1>4. ASSUME NEW event \in EventTypes, AckDuplicate(w, o, event)
      PROVE  TypeOK'
  BY <1>4 DEF AckDuplicate, TypeOK, Events, dbVars, stripeVars
<1> QED
  BY <1>2, <1>3, <1>4

LEMMA ContinueType ==
  ASSUME TypeOK, NEW w \in Workers, Continue(w)
  PROVE  TypeOK'
<1>1. ~ IsIdle(w)
  BY DEF Continue, CreateOrder, CreateSession, CreateSessionFails, SaveSession,
         RetrieveSession, RetrieveSessionGivesUp, StripeRefund, StripeRefundFails,
         ReadSettings, RecordIntent, MarkPaidRead, MarkPaidCommit, MarkFailedRead,
         MarkFailedCommit, ApplyRefund, ApplyDisputeOpened, ApplyDisputeWon, FindOrder,
         Finish, ReleaseClaim, At, IsIdle
<1>2. req[w] \in Running
  BY <1>1, BusyIsRunning
<1>3. req[w].order \in Orders /\ req[w].event \in EventTypes \cup {NoEvent}
      /\ req[w].intent \in BOOLEAN
  BY <1>2 DEF Running
<1>4. Purchase[req[w].order] \in Enrollments
  BY <1>3, OrderAssumption
<1>5. CASE CreateOrder(w)
  <2>1. req' \in [Workers -> Request]
    BY <1>1, <1>5, GotoType DEF CreateOrder, Steps
  <2> QED
    BY <1>3, <1>5, <2>1 DEF CreateOrder, TypeOK, OrderRow, OrderStatus, stripeVars
<1>6. CASE CreateSession(w)
  <2>1. req' \in [Workers -> Request]
    BY <1>1, <1>6, GotoType DEF CreateSession, Steps
  <2> QED
    BY <1>3, <1>6, <2>1 DEF CreateSession, TypeOK, StripeRecord, dbVars
<1>7. CASE CreateSessionFails(w) \/ RetrieveSessionGivesUp(w) \/ StripeRefundFails(w)
  <2>1. req' \in [Workers -> Request]
    BY <1>7, DoneType DEF CreateSessionFails, RetrieveSessionGivesUp, StripeRefundFails
  <2> QED
    BY <1>7, <2>1 DEF CreateSessionFails, RetrieveSessionGivesUp, StripeRefundFails, TypeOK,
                      dbVars, stripeVars
<1>8. CASE SaveSession(w)
  <2>1. req' \in [Workers -> Request]
    BY <1>8, DoneType DEF SaveSession
  <2> QED
    BY <1>3, <1>8, <2>1 DEF SaveSession, TypeOK, OrderRow, stripeVars
<1>9. CASE RetrieveSession(w)
  <2>1. [req[w] EXCEPT !.step = "readSettings", !.intent = TRUE] \in Running
    BY <1>2 DEF Running, Steps
  <2>2. req' \in [Workers -> Request]
    BY <1>9, <2>1 DEF RetrieveSession, TypeOK, Request
  <2> QED
    BY <1>9, <2>2 DEF RetrieveSession, TypeOK, dbVars, stripeVars
<1>10. CASE StripeRefund(w)
  <2>1. req' \in [Workers -> Request]
    BY <1>1, <1>10, GotoType DEF StripeRefund, Steps
  <2>2. stripe' \in [Orders -> StripeRecord]
    <3>1. [stripe[req[w].order] EXCEPT !.refund = "byAdmin"] \in StripeRecord
      <4>1. \A o \in Orders : [stripe[o] EXCEPT !.refund = "byAdmin"] \in StripeRecord
        BY DEF TypeOK, StripeRecord
      <4> QED
        BY <1>3, <4>1
    <3> QED
      BY <1>3, <1>10, <3>1 DEF StripeRefund, TypeOK, stripeVars
  <2>3. emitted' \in [Orders -> Seq(EventTypes)]
    BY <1>3, <1>10, EmitType DEF StripeRefund, TypeOK, EventTypes, stripeVars
  <2> QED
    BY <1>10, <2>1, <2>2, <2>3 DEF StripeRefund, TypeOK, dbVars
<1>11. CASE ReadSettings(w) \/ MarkPaidRead(w) \/ MarkFailedRead(w) \/ FindOrder(w)
  <2>1. \E step \in Steps \ {"idle"} : Goto(w, step)
    BY <1>11 DEF ReadSettings, MarkPaidRead, MarkFailedRead, FindOrder, Steps
  <2>2. req' \in [Workers -> Request]
    BY <1>1, <2>1, GotoType
  <2> QED
    BY <1>11, <2>2 DEF ReadSettings, MarkPaidRead, MarkFailedRead, FindOrder, TypeOK,
                       dbVars, stripeVars
<1>12. CASE RecordIntent(w)
  <2>1. req' \in [Workers -> Request]
    BY <1>1, <1>12, GotoType DEF RecordIntent, Steps
  <2> QED
    BY <1>3, <1>12, <2>1 DEF RecordIntent, TypeOK, OrderRow, stripeVars
<1>13. CASE MarkPaidCommit(w)
  <2>1. PaidRow(w) \in OrderRow /\ PaidRow(w).status \in OrderStatus
    BY <1>3, PaidRowType DEF OrderStatus
  <2> QED
    BY <1>1, <1>13, <2>1, TransactionType DEF MarkPaidCommit, EnrollmentStatus
<1>14. orders[req[w].order] \in OrderRow /\ enrollments[Purchase[req[w].order]] \in EnrollmentStatus
  BY <1>3, <1>4 DEF TypeOK
<1>15. ASSUME NEW s \in OrderStatus
       PROVE  [orders[req[w].order] EXCEPT !.status = s] \in OrderRow
              /\ [orders[req[w].order] EXCEPT !.status = s].status \in OrderStatus
  BY <1>14 DEF OrderRow
<1>16. CASE MarkFailedCommit(w)
  <2>1. "FAILED" \in OrderStatus BY DEF OrderStatus
  <2> QED
    BY <1>1, <1>14, <1>15, <1>16, <2>1, TransactionType DEF MarkFailedCommit
<1>17. CASE ApplyRefund(w)
  <2>1. "REFUNDED" \in OrderStatus BY DEF OrderStatus
  <2>2. RefundedAccess(enrollments[Purchase[req[w].order]]) \in EnrollmentStatus
    BY DEF RefundedAccess, EnrollmentStatus
  <2> QED
    BY <1>1, <1>15, <1>17, <2>1, <2>2, TransactionType DEF ApplyRefund
<1>18. CASE ApplyDisputeOpened(w)
  <2>1. "DISPUTED" \in OrderStatus BY DEF OrderStatus
  <2>2. SuspendedAccess(enrollments[Purchase[req[w].order]]) \in EnrollmentStatus
    BY <1>14 DEF SuspendedAccess, EnrollmentStatus
  <2> QED
    BY <1>1, <1>15, <1>18, <2>1, <2>2, TransactionType DEF ApplyDisputeOpened
<1>19. CASE ApplyDisputeWon(w)
  <2>1. "PAID" \in OrderStatus BY DEF OrderStatus
  <2>2. RestoredAccess(enrollments[Purchase[req[w].order]]) \in EnrollmentStatus
    BY <1>14 DEF RestoredAccess, EnrollmentStatus
  <2> QED
    BY <1>1, <1>15, <1>19, <2>1, <2>2, TransactionType DEF ApplyDisputeWon
<1>20. CASE Finish(w)
  <2>1. req' \in [Workers -> Request]
    BY <1>20, DoneType DEF Finish
  <2>2. acked' \in SUBSET Events
    BY <1>3, <1>20 DEF Finish, TypeOK, Events
  <2> QED
    BY <1>20, <2>1, <2>2 DEF Finish, TypeOK, dbVars, stripeVars
<1>21. CASE ReleaseClaim(w)
  <2>1. req' \in [Workers -> Request]
    BY <1>21, DoneType DEF ReleaseClaim
  <2> QED
    BY <1>21, <2>1 DEF ReleaseClaim, TypeOK, dbVars, stripeVars
<1> QED
  BY <1>5, <1>6, <1>7, <1>8, <1>9, <1>10, <1>11, <1>12, <1>13, <1>16, <1>17, <1>18, <1>19,
     <1>20, <1>21 DEF Continue

LEMMA FailsType ==
  ASSUME TypeOK, NEW w \in Workers, Fails(w)
  PROVE  TypeOK'
<1>1. faults' \in 0..MaxFaults
  BY EnvironmentAssumption DEF Fails, Throw, ReleaseClaimFails, Crash, Fault, TypeOK
<1>2. req' \in [Workers -> Request]
  BY GotoType, DoneType DEF Fails, Throw, ReleaseClaimFails, Crash, Steps
<1> QED
  BY <1>1, <1>2 DEF Fails, Throw, ReleaseClaimFails, Crash, TypeOK, dbVars, stripeVars

LEMMA OutsideType ==
  ASSUME TypeOK, Outside
  PROVE  TypeOK'
<1>1. CASE SetAutoApprove
  BY <1>1, EnvironmentAssumption DEF SetAutoApprove, TypeOK, dbVars, stripeVars
<1>2. ASSUME NEW o \in Orders,
             \/ CustomerPays(o) \/ SessionExpires(o) \/ PartialRefund(o) \/ DashboardRefund(o)
             \/ DisputeOpens(o) \/ \E outcome \in {"won", "lost"} : DisputeCloses(o, outcome)
      PROVE  TypeOK'
  <2>1. emitted' \in [Orders -> Seq(EventTypes)]
    BY <1>2, EmitType DEF CustomerPays, SessionExpires, PartialRefund, DashboardRefund,
                          DisputeOpens, DisputeCloses, EventTypes
  <2>2. stripe' \in [Orders -> StripeRecord]
    <3>1. /\ \A v \in {"COMPLETED", "EXPIRED"} : [stripe[o] EXCEPT !.session = v] \in StripeRecord
          /\ \A v \in {"part", "full"} : [stripe[o] EXCEPT !.refund = v] \in StripeRecord
          /\ \A v \in {"open", "won", "lost"} : [stripe[o] EXCEPT !.dispute = v] \in StripeRecord
      BY DEF TypeOK, StripeRecord
    <3> QED
      BY <1>2, <3>1 DEF CustomerPays, SessionExpires, PartialRefund, DashboardRefund,
                        DisputeOpens, DisputeCloses, TypeOK
  <2> QED
    BY <1>2, <2>1, <2>2 DEF CustomerPays, SessionExpires, PartialRefund, DashboardRefund,
                            DisputeOpens, DisputeCloses, TypeOK, dbVars
<1> QED
  BY <1>1, <1>2 DEF Outside

(* The rows and records of OrderPayments keep their types. *)
THEOREM TypeCorrect == Spec => []TypeOK
<1>1. Init => TypeOK
  BY OrderAssumption, EnvironmentAssumption
     DEF Init, TypeOK, OrderRow, OrderStatus, EnrollmentStatus, Events, StripeRecord, Request
<1>2. TypeOK /\ [Next]_vars => TypeOK'
  <2>1. ASSUME TypeOK, UNCHANGED vars PROVE TypeOK'
    BY <2>1 DEF vars, TypeOK
  <2> QED
    BY <2>1, StartType, ContinueType, FailsType, OutsideType DEF Next
<1> QED
  BY <1>1, <1>2, PTL DEF Spec

-----------------------------------------------------------------------------
(* The inductive invariant *)

Session(o) == stripe[o].session

(* An order may be paid: by its session, for nothing, or by an admin's word. *)
PaidFor(o) == AdminApproves \/ o \in FreeOrders \/ Session(o) = "COMPLETED"

(* What a request relies on when it takes its next step. *)
RequestOK(r) ==
  /\ r.step = "createOrder" => Status(r.order) = "NONE"
  /\ r.step = "createSession" =>
       Status(r.order) # "NONE" /\ Session(r.order) = "NONE" /\ r.order \notin FreeOrders
  /\ r.step \in {"readSettings", "recordIntent"} => Session(r.order) = "COMPLETED"
  /\ r.step \in {"markPaidRead", "markPaidCommit"} => PaidFor(r.order)
  /\ r.step \in {"markFailedRead", "markFailedCommit"} => r.event = "expired"
  /\ r.step = "applyDisputeOpened" => r.event = "disputed"
  /\ r.event = "expired" => Session(r.order) = "EXPIRED"

(* What the rows of an order and its events say about its session. *)
OrderOK(o) ==
  /\ Session(o) # "NONE" => Status(o) # "NONE" /\ o \notin FreeOrders
  /\ Status(o) \in {"PAID", "DISPUTED", "REFUNDED"} => PaidFor(o)
  /\ Status(o) = "PAID" => payments[o] # <<>>
  /\ Status(o) = "FAILED" => \E i \in DOMAIN payments[o] : payments[o][i].event = "expired"
  /\ \A i \in DOMAIN emitted[o] :
       /\ emitted[o][i] = "expired" => Session(o) = "EXPIRED"
       /\ emitted[o][i] = "completed" => Session(o) = "COMPLETED"
  /\ \A i \in DOMAIN payments[o] :
       payments[o][i].status = "DISPUTED" => payments[o][i].event = "disputed"

(* At most one request is creating an order's row or its Stripe session. *)
Creating(r) == r.step \in {"createOrder", "createSession"}
OneCheckout ==
  \A v, w \in Workers :
    Creating(req[v]) /\ Creating(req[w]) /\ req[v].order = req[w].order => v = w

IInv ==
  /\ TypeOK
  /\ \A w \in Workers : RequestOK(req[w])
  /\ \A o \in Orders : OrderOK(o)
  /\ OneCheckout

(* A step that changes one request and no row keeps the invariant when the *)
(* request it leaves behind is in order.                                   *)
LEMMA RequestStep ==
  ASSUME IInv, TypeOK', NEW w \in Workers, NEW r,
         req' = [req EXCEPT ![w] = r],
         RequestOK(r),
         Creating(r) => \A v \in Workers \ {w} : Creating(req[v]) => req[v].order # r.order,
         UNCHANGED <<orders, payments, stripe, emitted>>
  PROVE  IInv'
<1>1. \A v \in Workers : req'[v] = IF v = w THEN r ELSE req[v]
  BY DEF IInv, TypeOK
<1>2. \A v \in Workers : RequestOK(req[v])'
  BY <1>1 DEF IInv, RequestOK, Status, Session, PaidFor
<1>3. \A o \in Orders : OrderOK(o)'
  BY DEF IInv, OrderOK, Status, Session, PaidFor
<1>4. OneCheckout'
  BY <1>1 DEF IInv, OneCheckout, Creating
<1> QED
  BY <1>2, <1>3, <1>4 DEF IInv

(* A row appended to a log comes after the rows that were there. *)
LEMMA AppendRow ==
  ASSUME NEW S, NEW log \in Seq(S), NEW row \in S
  PROVE  /\ Append(log, row) # <<>>
         /\ \A i \in DOMAIN Append(log, row) :
              \/ Append(log, row)[i] = row
              \/ i \in DOMAIN log /\ Append(log, row)[i] = log[i]
         /\ \E i \in DOMAIN Append(log, row) : Append(log, row)[i] = row
         /\ \A i \in DOMAIN log : i \in DOMAIN Append(log, row) /\ Append(log, row)[i] = log[i]
         /\ Len(Append(log, row)) = Len(log) + 1
<1>1. Len(log) \in Nat /\ DOMAIN log = 1..Len(log)
  OBVIOUS
<1>2. Len(Append(log, row)) = Len(log) + 1 /\ DOMAIN Append(log, row) = 1..(Len(log) + 1)
  OBVIOUS
<1>3. Append(log, row)[Len(log) + 1] = row
  OBVIOUS
<1>4. \A i \in 1..Len(log) : Append(log, row)[i] = log[i]
  OBVIOUS
<1> QED
  BY <1>1, <1>2, <1>3, <1>4

(* A transaction that applies from statuses the order is in only with a    *)
(* reason keeps the invariant.                                             *)
LEMMA TransactionStep ==
  ASSUME IInv, TypeOK', NEW w \in Workers, ~ IsIdle(w), NEW from, NEW row \in OrderRow,
         NEW access, Transaction(w, from, row, access),
         Status(req[w].order) \in from => Status(req[w].order) # "NONE",
         row.status \in {"PAID", "DISPUTED", "REFUNDED", "FAILED"},
         row.status # "FAILED" /\ Status(req[w].order) \in from => PaidFor(req[w].order),
         row.status = "DISPUTED" => req[w].event = "disputed",
         row.status = "FAILED" => req[w].event = "expired"
  PROVE  IInv'
<1> DEFINE o == req[w].order
<1>1. req[w] \in Running /\ o \in Orders
  BY BusyIsRunning DEF IInv, Running
<1>2. PICK step \in {"finish", "failed"} : req' = [req EXCEPT ![w].step = step]
  BY DEF Transaction, Apply, NotApplied, RolledBack, Goto
<1>3. \A v \in Workers : req'[v] = IF v = w THEN [req[w] EXCEPT !.step = step] ELSE req[v]
  BY <1>2 DEF IInv, TypeOK
<1>4. [req[w] EXCEPT !.step = step].step = step
      /\ [req[w] EXCEPT !.step = step].order = o
      /\ [req[w] EXCEPT !.step = step].event = req[w].event
  BY <1>1 DEF Running
<1>5. UNCHANGED <<stripe, emitted>>
  BY DEF Transaction, stripeVars
<1>6. \/ UNCHANGED <<orders, payments>>
      \/ /\ Status(o) \in from
         /\ orders' = [orders EXCEPT ![o] = row]
         /\ payments' = [payments EXCEPT ![o] =
                           Append(@, [status |-> row.status, event |-> req[w].event])]
  BY DEF Transaction, Apply, NotApplied, RolledBack, dbVars, Status
<1>7. orders \in [Orders -> OrderRow] /\ payments \in [Orders -> Seq(PaymentRow)]
  BY DEF IInv, TypeOK
<1> DEFINE new == [status |-> row.status, event |-> req[w].event]
           Same(p) == orders'[p] = orders[p] /\ payments'[p] = payments[p]
           Moved(p) == /\ p = o /\ Status(o) \in from /\ orders'[p] = row
                       /\ payments'[p] = Append(payments[p], new)
<1>8. ASSUME NEW p \in Orders PROVE Same(p) \/ Moved(p)
  <2>1. CASE UNCHANGED <<orders, payments>>
    BY <2>1
  <2>2. CASE /\ Status(o) \in from /\ orders' = [orders EXCEPT ![o] = row]
             /\ payments' = [payments EXCEPT ![o] = Append(@, new)]
    BY <1>1, <1>7, <2>2
  <2> QED
    BY <1>6, <2>1, <2>2
<1>9. ASSUME NEW p \in Orders
      PROVE  \/ Status(p)' = Status(p)
             \/ Status(p) # "NONE" /\ Status(p)' # "NONE"
  BY <1>8 DEF Status
<1>10. \A v \in Workers : RequestOK(req[v])'
  <2> SUFFICES ASSUME NEW v \in Workers PROVE RequestOK(req[v])'
    OBVIOUS
  <2>1. CASE v = w
    <3>1. RequestOK(req[w])
      BY DEF IInv
    <3>2. req'[w].step = step /\ req'[w].order = o /\ req'[w].event = req[w].event
      BY <1>3, <1>4
    <3> QED
      BY <1>5, <2>1, <3>1, <3>2 DEF RequestOK, Session
  <2>2. CASE v # w
    <3>1. req'[v] = req[v] /\ RequestOK(req[v])
      BY <1>3, <2>2 DEF IInv
    <3>2. CASE IsIdle(v)
      <4>1. req[v] = Idle
        BY <3>2 DEF IInv, TypeOK, Request, Running, IsIdle
      <4> QED
        BY <3>1, <4>1 DEF RequestOK, Idle, NoEvent
    <3>3. CASE ~ IsIdle(v)
      <4>1. req[v].order \in Orders
        BY <3>3, BusyIsRunning DEF IInv, Running
      <4> QED
        BY <1>5, <1>9, <3>1, <4>1 DEF RequestOK, Session, PaidFor
    <3> QED
      BY <3>2, <3>3
  <2> QED
    BY <2>1, <2>2
<1>11. \A p \in Orders : OrderOK(p)'
  <2> SUFFICES ASSUME NEW p \in Orders PROVE OrderOK(p)'
    OBVIOUS
  <2>1. OrderOK(p) /\ payments[p] \in Seq(PaymentRow)
    BY <1>7 DEF IInv
  <2>2. CASE Same(p)
    BY <1>5, <2>1, <2>2 DEF OrderOK, Status, Session, PaidFor
  <2>3. CASE Moved(p)
    <3>1. new \in PaymentRow
      BY <1>1 DEF Running, PaymentRow, OrderRow
    <3>2. /\ payments'[p] # <<>>
          /\ \A i \in DOMAIN payments'[p] :
               \/ payments'[p][i] = new
               \/ i \in DOMAIN payments[p] /\ payments'[p][i] = payments[p][i]
          /\ \E i \in DOMAIN payments'[p] : payments'[p][i] = new
      BY <2>1, <2>3, <3>1, AppendRow
    <3>3. Session(p)' = Session(p) /\ emitted'[p] = emitted[p]
      BY <1>5 DEF Session
    <3>4. Status(p)' = row.status /\ (PaidFor(p)' <=> PaidFor(p))
      BY <2>3, <3>3 DEF Status, PaidFor
    <3>5. Session(p)' # "NONE" => Status(p)' # "NONE" /\ p \notin FreeOrders
      BY <2>1, <3>3, <3>4 DEF OrderOK
    <3>6. Status(p)' \in {"PAID", "DISPUTED", "REFUNDED"} => PaidFor(p)'
      BY <2>3, <3>4 DEF Status
    <3>7. \A i \in DOMAIN payments'[p] :
            payments'[p][i].status = "DISPUTED" => payments'[p][i].event = "disputed"
      BY <2>1, <3>2 DEF OrderOK
    <3>8. Status(p)' = "FAILED" => \E i \in DOMAIN payments'[p] : payments'[p][i].event = "expired"
      BY <2>3, <3>2, <3>4
    <3> QED
      BY <2>1, <3>2, <3>3, <3>5, <3>6, <3>7, <3>8 DEF OrderOK
  <2> QED
    BY <1>8, <2>2, <2>3
<1>12. OneCheckout'
  BY <1>3, <1>4 DEF IInv, OneCheckout, Creating
<1> QED
  BY <1>10, <1>11, <1>12 DEF IInv

(* A step that touches neither requests nor the rows keeps the invariant.  *)
LEMMA QuietStep ==
  ASSUME IInv, TypeOK', UNCHANGED <<orders, payments, stripe, emitted, req>>
  PROVE  IInv'
BY DEF IInv, RequestOK, OrderOK, OneCheckout, Creating, Status, Session, PaidFor

(* An idle worker relies on nothing. *)
LEMMA IdleOK ==
  ASSUME TypeOK, NEW v \in Workers
  PROVE  req[v].order \in Orders \/ (req[v].step = "idle" /\ req[v].event = NoEvent)
<1>1. CASE IsIdle(v)
  BY <1>1 DEF TypeOK, Request, Running, IsIdle, Idle
<1>2. CASE ~ IsIdle(v)
  BY <1>2, BusyIsRunning DEF Running
<1> QED
  BY <1>1, <1>2

(* An event appended to an order's history by a step that changes its      *)
(* session only from OPEN keeps the invariant.                             *)
LEMMA StripeStep ==
  ASSUME IInv, TypeOK', NEW o \in Orders, NEW event \in EventTypes, Emit(o, event),
         UNCHANGED <<orders, payments>>,
         \A p \in Orders : p # o => Session(p)' = Session(p),
         Session(o)' # Session(o) => Session(o) = "OPEN" /\ Session(o)' # "NONE",
         event = "completed" => Session(o)' = "COMPLETED",
         event = "expired" => Session(o)' = "EXPIRED",
         \A v \in Workers :
           \/ req'[v] = req[v]
           \/ /\ req'[v].step = "applyRefund"
              /\ req'[v].order = req[v].order /\ req'[v].event = req[v].event
  PROVE  IInv'
<1>1. \A p \in Orders :
        /\ Session(p)' = Session(p) \/ Session(p) = "OPEN"
        /\ Session(p)' = "NONE" <=> Session(p) = "NONE"
  OBVIOUS
<1>2. \A p \in Orders : Status(p)' = Status(p) /\ (PaidFor(p) => PaidFor(p)')
  BY <1>1 DEF Status, PaidFor
<1>3. \A v \in Workers : RequestOK(req[v])'
  <2> SUFFICES ASSUME NEW v \in Workers PROVE RequestOK(req[v])'
    OBVIOUS
  <2>1. RequestOK(req[v]) /\ TypeOK
    BY DEF IInv
  <2>2. CASE req[v].order \in Orders
    <3>1. CASE req'[v] = req[v]
      BY <1>1, <1>2, <2>1, <2>2, <3>1 DEF RequestOK
    <3>2. CASE /\ req'[v].step = "applyRefund"
               /\ req'[v].order = req[v].order /\ req'[v].event = req[v].event
      BY <1>1, <2>1, <2>2, <3>2 DEF RequestOK
    <3> QED
      BY <3>1, <3>2
  <2>3. CASE req[v].step = "idle" /\ req[v].event = NoEvent
    BY <2>3 DEF RequestOK, NoEvent
  <2> QED
    BY <2>1, <2>2, <2>3, IdleOK
<1>4. \A p \in Orders : OrderOK(p)'
  <2> SUFFICES ASSUME NEW p \in Orders PROVE OrderOK(p)'
    OBVIOUS
  <2>1. OrderOK(p) /\ emitted[p] \in Seq(EventTypes) /\ emitted \in [Orders -> Seq(EventTypes)]
    BY DEF IInv, TypeOK
  <2>2. \A i \in DOMAIN emitted'[p] :
          \/ i \in DOMAIN emitted[p] /\ emitted'[p][i] = emitted[p][i]
          \/ p = o /\ emitted'[p][i] = event
    <3>1. CASE p = o
      <4>1. emitted'[p] = Append(emitted[p], event)
        BY <2>1, <3>1 DEF Emit
      <4> QED
        BY <2>1, <3>1, <4>1, AppendRow
    <3>2. CASE p # o
      BY <2>1, <3>2 DEF Emit
    <3> QED
      BY <3>1, <3>2
  <2>3. \A i \in DOMAIN emitted'[p] :
          /\ emitted'[p][i] = "expired" => Session(p)' = "EXPIRED"
          /\ emitted'[p][i] = "completed" => Session(p)' = "COMPLETED"
    BY <1>1, <2>1, <2>2 DEF OrderOK
  <2> QED
    BY <1>1, <1>2, <2>1, <2>3 DEF OrderOK
<1>5. OneCheckout'
  <2>1. \A v \in Workers : Creating(req'[v]) => req'[v] = req[v]
    BY DEF Creating
  <2> QED
    BY <2>1 DEF IInv, OneCheckout, Creating
<1> QED
  BY <1>3, <1>4, <1>5 DEF IInv

(* A request may end at any point, and may move to a step that relies on   *)
(* nothing it does not know.                                               *)
LEMMA DoneStep ==
  ASSUME IInv, TypeOK', NEW w \in Workers, Done(w),
         UNCHANGED <<orders, payments, stripe, emitted>>
  PROVE  IInv'
<1>1. RequestOK(Idle) /\ ~ Creating(Idle)
  BY DEF RequestOK, Creating, Idle, NoEvent
<1> QED
  BY <1>1, RequestStep DEF Done

LEMMA GotoStep ==
  ASSUME IInv, TypeOK', NEW w \in Workers, ~ IsIdle(w), NEW step, Goto(w, step),
         UNCHANGED <<orders, payments, stripe, emitted>>,
         step \notin {"createOrder", "createSession"},
         step \in {"readSettings", "recordIntent"} => Session(req[w].order) = "COMPLETED",
         step \in {"markPaidRead", "markPaidCommit"} => PaidFor(req[w].order),
         step \in {"markFailedRead", "markFailedCommit"} => req[w].event = "expired",
         step = "applyDisputeOpened" => req[w].event = "disputed"
  PROVE  IInv'
<1> DEFINE r == [req[w] EXCEPT !.step = step]
<1>1. req[w] \in Running
  BY BusyIsRunning DEF IInv
<1>2. r.step = step /\ r.order = req[w].order /\ r.event = req[w].event
  BY <1>1 DEF Running
<1>3. req' = [req EXCEPT ![w] = r]
  BY DEF Goto
<1>4. RequestOK(r)
  BY <1>2 DEF IInv, RequestOK
<1>5. ~ Creating(r)
  BY <1>2 DEF Creating
<1> QED
  BY <1>3, <1>4, <1>5, RequestStep

(* A new request, or a delivery, keeps the invariant. *)
LEMMA StartStep ==
  ASSUME IInv, NEW w \in Workers, Start(w)
  PROVE  IInv'
<1>1. TypeOK'
  BY StartType DEF IInv
<1> PICK o \in Orders :
      \/ StartCheckout(w, o) \/ StartConfirm(w, o) \/ StartApprove(w, o)
      \/ StartRefund(w, o)
      \/ \E event \in EventTypes : ClaimEvent(w, o, event) \/ AckDuplicate(w, o, event)
  BY DEF Start
<1>2. ASSUME NEW step, NEW event, NEW intent, Begin(w, step, o, event, intent),
             UNCHANGED <<dbVars, stripeVars>>,
             step = "createOrder" => Status(o) = "NONE" /\ \A v \in Workers : req[v].order # o,
             step # "createSession",
             step \in {"readSettings", "recordIntent"} => Session(o) = "COMPLETED",
             step \in {"markPaidRead", "markPaidCommit"} => PaidFor(o),
             step \in {"markFailedRead", "markFailedCommit"} => event = "expired",
             step = "applyDisputeOpened" => event = "disputed",
             event = "expired" => Session(o) = "EXPIRED"
      PROVE  IInv'
  <2> DEFINE r == [step |-> step, order |-> o, event |-> event, intent |-> intent]
  <2>1. RequestOK(r)
    BY <1>2 DEF RequestOK
  <2>2. Creating(r) => \A v \in Workers \ {w} : Creating(req[v]) => req[v].order # r.order
    BY <1>2 DEF Creating
  <2> QED
    BY <1>1, <1>2, <2>1, <2>2, RequestStep DEF Begin, dbVars, stripeVars
<1>3. CASE StartCheckout(w, o)
  BY <1>2, <1>3 DEF StartCheckout, Status, NoEvent
<1>4. CASE StartConfirm(w, o)
  BY <1>2, <1>4 DEF StartConfirm, NoEvent
<1>5. CASE StartApprove(w, o)
  BY <1>2, <1>5 DEF StartApprove, PaidFor, NoEvent
<1>6. CASE StartRefund(w, o)
  BY <1>2, <1>6 DEF StartRefund, NoEvent
<1>7. ASSUME NEW event \in EventTypes, ClaimEvent(w, o, event)
      PROVE  IInv'
  <2>1. \E i \in DOMAIN emitted[o] : emitted[o][i] = event
    BY <1>7 DEF ClaimEvent, Deliverable
  <2>2. (event = "expired" => Session(o) = "EXPIRED")
        /\ (event = "completed" => Session(o) = "COMPLETED")
    BY <2>1 DEF IInv, OrderOK
  <2>3. /\ FirstStep(event) \in {"readSettings", "markFailedRead", "finish", "findOrder"}
        /\ FirstStep(event) = "readSettings" => event = "completed"
        /\ FirstStep(event) = "markFailedRead" => event = "expired"
    BY DEF FirstStep
  <2> QED
    BY <1>2, <1>7, <2>2, <2>3 DEF ClaimEvent
<1>8. ASSUME NEW event \in EventTypes, AckDuplicate(w, o, event)
      PROVE  IInv'
  BY <1>1, <1>8, QuietStep DEF AckDuplicate, dbVars, stripeVars
<1> QED
  BY <1>3, <1>4, <1>5, <1>6, <1>7, <1>8

(* A fault keeps the invariant. *)
LEMMA FailsStep ==
  ASSUME IInv, NEW w \in Workers, Fails(w)
  PROVE  IInv'
<1>1. TypeOK'
  BY FailsType DEF IInv
<1>2. UNCHANGED <<orders, payments, stripe, emitted>>
  BY DEF Fails, Throw, ReleaseClaimFails, Crash, dbVars, stripeVars
<1>3. CASE Done(w)
  BY <1>1, <1>2, <1>3, DoneStep
<1>4. CASE Goto(w, "failed")
  <2>1. ~ IsIdle(w)
    BY DEF Fails, Throw, ReleaseClaimFails, Crash, At, IsIdle
  <2> QED
    BY <1>1, <1>2, <1>4, <2>1, GotoStep
<1> QED
  BY <1>3, <1>4 DEF Fails, Throw, ReleaseClaimFails, Crash

(* The rows a request writes outside the transactions keep the invariant:  *)
(* the new order, its Stripe session, and the ids recorded on the order.   *)
LEMMA CreateOrderStep ==
  ASSUME IInv, TypeOK', NEW w \in Workers, CreateOrder(w)
  PROVE  IInv'
<1> DEFINE o == req[w].order
           next == IF o \in FreeOrders THEN "markPaidRead" ELSE "createSession"
<1>1. req[w] \in Running /\ o \in Orders
  BY BusyIsRunning DEF IInv, Running, CreateOrder, At, IsIdle
<1>2. /\ orders \in [Orders -> OrderRow] /\ orders' = [orders EXCEPT ![o].status = "PENDING"]
      /\ req \in [Workers -> Request] /\ req' = [req EXCEPT ![w].step = next]
      /\ UNCHANGED <<payments, stripe, emitted>>
  BY DEF CreateOrder, Goto, stripeVars, IInv, TypeOK
<1>3. Status(o) = "NONE" /\ Session(o) = "NONE"
  BY <1>1 DEF IInv, RequestOK, OrderOK, CreateOrder, At
<1>4. \A p \in Orders : Status(p)' = IF p = o THEN "PENDING" ELSE Status(p)
  BY <1>1, <1>2 DEF Status, OrderRow
<1>5. \A v \in Workers : v # w => req'[v] = req[v]
  BY <1>2
<1>6. req'[w].step = next /\ req'[w].order = o /\ req'[w].event = req[w].event
  BY <1>1, <1>2 DEF Running
<1>7. \A v \in Workers \ {w} : Creating(req[v]) => req[v].order # o
  BY DEF IInv, OneCheckout, Creating, CreateOrder, At
<1>8. \A v \in Workers : RequestOK(req[v])'
  <2> SUFFICES ASSUME NEW v \in Workers PROVE RequestOK(req[v])'
    OBVIOUS
  <2>1. RequestOK(req[v]) /\ TypeOK
    BY DEF IInv
  <2>2. CASE v = w
    BY <1>1, <1>2, <1>3, <1>4, <1>6, <2>1, <2>2 DEF RequestOK, Session, PaidFor
  <2>3. CASE v # w
    <3>1. CASE req[v].order \in Orders
      BY <1>2, <1>3, <1>4, <1>5, <1>7, <2>1, <2>3, <3>1 DEF RequestOK, Session, PaidFor, Creating
    <3>2. CASE req[v].step = "idle" /\ req[v].event = NoEvent
      BY <1>5, <2>3, <3>2 DEF RequestOK, NoEvent
    <3> QED
      BY <2>1, <3>1, <3>2, IdleOK
  <2> QED
    BY <2>2, <2>3
<1>9. \A p \in Orders : OrderOK(p)'
  BY <1>2, <1>3, <1>4 DEF IInv, OrderOK, Session, PaidFor
<1>10. OneCheckout'
  BY <1>5, <1>6, <1>7 DEF IInv, OneCheckout, Creating, CreateOrder, At
<1> QED
  BY <1>8, <1>9, <1>10 DEF IInv

LEMMA CreateSessionStep ==
  ASSUME IInv, TypeOK', NEW w \in Workers, CreateSession(w)
  PROVE  IInv'
<1> DEFINE o == req[w].order
<1>1. req[w] \in Running /\ o \in Orders
  BY BusyIsRunning DEF IInv, Running, CreateSession, At, IsIdle
<1>2. /\ stripe \in [Orders -> StripeRecord] /\ stripe' = [stripe EXCEPT ![o].session = "OPEN"]
      /\ req \in [Workers -> Request] /\ req' = [req EXCEPT ![w].step = "saveSession"]
      /\ UNCHANGED <<orders, payments, emitted>>
  BY DEF CreateSession, Goto, dbVars, IInv, TypeOK
<1>3. Status(o) # "NONE" /\ Session(o) = "NONE" /\ o \notin FreeOrders
  BY <1>1 DEF IInv, RequestOK, CreateSession, At
<1>4. \A p \in Orders : Session(p)' = IF p = o THEN "OPEN" ELSE Session(p)
  BY <1>1, <1>2 DEF Session, StripeRecord
<1>5. \A v \in Workers : v # w => req'[v] = req[v]
  BY <1>2
<1>6. req'[w].step = "saveSession" /\ req'[w].order = o /\ req'[w].event = req[w].event
  BY <1>1, <1>2 DEF Running
<1>7. \A v \in Workers \ {w} : Creating(req[v]) => req[v].order # o
  BY DEF IInv, OneCheckout, Creating, CreateSession, At
<1>8. \A v \in Workers : RequestOK(req[v])'
  <2> SUFFICES ASSUME NEW v \in Workers PROVE RequestOK(req[v])'
    OBVIOUS
  <2>1. RequestOK(req[v]) /\ TypeOK
    BY DEF IInv
  <2>2. CASE v = w
    BY <1>1, <1>3, <1>4, <1>6, <2>1, <2>2 DEF RequestOK
  <2>3. CASE v # w
    <3>1. CASE req[v].order \in Orders
      BY <1>2, <1>3, <1>4, <1>5, <1>7, <2>1, <2>3, <3>1 DEF RequestOK, Status, PaidFor, Creating
    <3>2. CASE req[v].step = "idle" /\ req[v].event = NoEvent
      BY <1>5, <2>3, <3>2 DEF RequestOK, NoEvent
    <3> QED
      BY <2>1, <3>1, <3>2, IdleOK
  <2> QED
    BY <2>2, <2>3
<1>9. \A p \in Orders : OrderOK(p)'
  BY <1>2, <1>3, <1>4 DEF IInv, OrderOK, Status, PaidFor
<1>10. OneCheckout'
  BY <1>5, <1>6 DEF IInv, OneCheckout, Creating
<1> QED
  BY <1>8, <1>9, <1>10 DEF IInv

LEMMA RecordIdStep ==
  ASSUME IInv, TypeOK', NEW w \in Workers, SaveSession(w) \/ RecordIntent(w)
  PROVE  IInv'
<1>1. req[w] \in Running /\ req[w].order \in Orders
  BY BusyIsRunning DEF IInv, Running, SaveSession, RecordIntent, At, IsIdle
<1>2. /\ orders \in [Orders -> OrderRow] /\ req \in [Workers -> Request]
      /\ UNCHANGED <<payments, stripe, emitted>>
  BY DEF SaveSession, RecordIntent, stripeVars, IInv, TypeOK
<1>3. \A p \in Orders : Status(p)' = Status(p)
  BY <1>1, <1>2 DEF SaveSession, RecordIntent, Status, OrderRow
<1>4. \A v \in Workers :
        \/ req'[v] = req[v]
        \/ /\ req'[v].step \in {"idle", "finish"}
           /\ \/ req'[v].event = NoEvent
              \/ req'[v].event = req[w].event /\ req'[v].order = req[w].order
  <2>1. CASE SaveSession(w)
    BY <1>2, <2>1 DEF SaveSession, Done, Idle
  <2>2. CASE RecordIntent(w)
    <3>1. /\ [req[w] EXCEPT !.step = "finish"].step = "finish"
          /\ [req[w] EXCEPT !.step = "finish"].event = req[w].event
          /\ [req[w] EXCEPT !.step = "finish"].order = req[w].order
      BY <1>1 DEF Running
    <3> QED
      BY <1>2, <2>2, <3>1 DEF RecordIntent, Goto
  <2> QED
    BY <2>1, <2>2
<1>5. \A v \in Workers : RequestOK(req[v])'
  <2> SUFFICES ASSUME NEW v \in Workers PROVE RequestOK(req[v])'
    OBVIOUS
  <2>1. RequestOK(req[v]) /\ RequestOK(req[w]) /\ TypeOK
    BY DEF IInv
  <2>2. CASE req'[v] = req[v]
    <3>1. CASE req[v].order \in Orders
      BY <1>2, <1>3, <2>1, <2>2, <3>1 DEF RequestOK, Session, PaidFor
    <3>2. CASE req[v].step = "idle" /\ req[v].event = NoEvent
      BY <2>2, <3>2 DEF RequestOK, NoEvent
    <3> QED
      BY <2>1, <3>1, <3>2, IdleOK
  <2>3. CASE req'[v] # req[v]
    BY <1>2, <1>4, <2>1, <2>3 DEF RequestOK, Session, NoEvent
  <2> QED
    BY <2>2, <2>3
<1>6. \A p \in Orders : OrderOK(p)'
  BY <1>2, <1>3 DEF IInv, OrderOK, Session, PaidFor
<1>7. OneCheckout'
  BY <1>4 DEF IInv, OneCheckout, Creating
<1> QED
  BY <1>5, <1>6, <1>7 DEF IInv

LEMMA StripeRefundStep ==
  ASSUME IInv, TypeOK', NEW w \in Workers, StripeRefund(w)
  PROVE  IInv'
<1> DEFINE o == req[w].order
<1>1. req[w] \in Running /\ o \in Orders
  BY BusyIsRunning DEF IInv, Running, StripeRefund, At, IsIdle
<1>2. \A v \in Workers :
        \/ req'[v] = req[v]
        \/ /\ req'[v].step = "applyRefund"
           /\ req'[v].order = req[v].order /\ req'[v].event = req[v].event
  <2>1. /\ [req[w] EXCEPT !.step = "applyRefund"].step = "applyRefund"
        /\ [req[w] EXCEPT !.step = "applyRefund"].event = req[w].event
        /\ [req[w] EXCEPT !.step = "applyRefund"].order = req[w].order
    BY <1>1 DEF Running
  <2> QED
    BY <2>1 DEF StripeRefund, Goto, IInv, TypeOK
<1>3. CASE UNCHANGED stripeVars
  BY <1>1, <1>3, GotoStep DEF StripeRefund, dbVars, stripeVars, At, IsIdle
<1>4. CASE stripe' = [stripe EXCEPT ![o].refund = "byAdmin"] /\ Emit(o, "refunded")
  <2>1. \A p \in Orders : Session(p)' = Session(p)
    BY <1>1, <1>4 DEF IInv, TypeOK, StripeRecord, Session
  <2>2. "refunded" \in EventTypes
    BY DEF EventTypes
  <2> QED
    BY <1>1, <1>2, <1>4, <2>1, <2>2, StripeStep DEF StripeRefund, dbVars
<1> QED
  BY <1>3, <1>4 DEF StripeRefund

(* Every step of a running request keeps the invariant. *)
LEMMA ContinueStep ==
  ASSUME IInv, NEW w \in Workers, Continue(w)
  PROVE  IInv'
<1> DEFINE o == req[w].order
<1>1. TypeOK'
  BY ContinueType DEF IInv
<1>2. ~ IsIdle(w)
  BY DEF Continue, CreateOrder, CreateSession, CreateSessionFails, SaveSession,
         RetrieveSession, RetrieveSessionGivesUp, StripeRefund, StripeRefundFails,
         ReadSettings, RecordIntent, MarkPaidRead, MarkPaidCommit, MarkFailedRead,
         MarkFailedCommit, ApplyRefund, ApplyDisputeOpened, ApplyDisputeWon, FindOrder,
         Finish, ReleaseClaim, At, IsIdle
<1>3. req[w] \in Running /\ o \in Orders /\ RequestOK(req[w]) /\ OrderOK(o)
  BY <1>2, BusyIsRunning DEF IInv, Running
<1>4. orders[o] \in OrderRow /\ Status(o) = orders[o].status
  BY <1>3 DEF IInv, TypeOK, Status
<1>5. \A s \in OrderStatus : /\ [orders[o] EXCEPT !.status = s] \in OrderRow
                             /\ [orders[o] EXCEPT !.status = s].status = s
  BY <1>4 DEF OrderRow
<1>6. CASE CreateOrder(w) \/ CreateSession(w) \/ SaveSession(w) \/ RecordIntent(w)
           \/ StripeRefund(w)
  BY <1>1, <1>6, CreateOrderStep, CreateSessionStep, RecordIdStep, StripeRefundStep
<1>7. CASE CreateSessionFails(w) \/ RetrieveSessionGivesUp(w) \/ StripeRefundFails(w)
           \/ Finish(w) \/ ReleaseClaim(w)
  BY <1>1, <1>7, DoneStep
     DEF CreateSessionFails, RetrieveSessionGivesUp, StripeRefundFails, Finish, ReleaseClaim,
         dbVars, stripeVars
<1>8. CASE RetrieveSession(w)
  <2> DEFINE r == [req[w] EXCEPT !.step = "readSettings", !.intent = TRUE]
  <2>1. r.step = "readSettings" /\ r.order = o /\ r.event = req[w].event
    BY <1>3 DEF Running
  <2>2. Session(o) = "COMPLETED"
    BY <1>8 DEF RetrieveSession, Session
  <2>3. RequestOK(r) /\ ~ Creating(r)
    BY <1>3, <2>1, <2>2 DEF RequestOK, Creating
  <2>4. req' = [req EXCEPT ![w] = r]
    BY <1>8 DEF RetrieveSession
  <2> QED
    BY <1>1, <1>8, <2>3, <2>4, RequestStep DEF RetrieveSession, dbVars, stripeVars
<1>9. CASE ReadSettings(w)
  BY <1>1, <1>2, <1>3, <1>9, GotoStep
     DEF ReadSettings, At, RequestOK, PaidFor, dbVars, stripeVars
<1>10. CASE MarkPaidRead(w)
  BY <1>1, <1>2, <1>3, <1>10, GotoStep DEF MarkPaidRead, At, RequestOK, dbVars, stripeVars
<1>11. CASE MarkFailedRead(w)
  BY <1>1, <1>2, <1>3, <1>11, GotoStep DEF MarkFailedRead, At, RequestOK, dbVars, stripeVars
<1>12. CASE FindOrder(w)
  BY <1>1, <1>2, <1>12, GotoStep DEF FindOrder, dbVars, stripeVars
<1>13. CASE MarkPaidCommit(w)
  <2>1. PaidRow(w) \in OrderRow /\ PaidRow(w).status = "PAID"
    BY <1>3, PaidRowType DEF IInv
  <2>2. PaidFor(o)
    BY <1>3, <1>13 DEF MarkPaidCommit, At, RequestOK
  <2> QED
    BY <1>1, <1>2, <1>13, <2>1, <2>2, TransactionStep DEF MarkPaidCommit
<1>14. CASE MarkFailedCommit(w)
  <2>1. Status(o) # "NONE" /\ req[w].event = "expired"
    BY <1>3, <1>14 DEF MarkFailedCommit, At, RequestOK, OrderOK
  <2> QED
    BY <1>1, <1>2, <1>5, <1>14, <2>1, TransactionStep DEF MarkFailedCommit, OrderStatus
<1>15. CASE ApplyRefund(w)
  <2>1. RefundableFrom(req[w].event) \subseteq {"PAID", "DISPUTED"}
    BY DEF RefundableFrom
  <2>2. Status(o) \in RefundableFrom(req[w].event) => Status(o) # "NONE" /\ PaidFor(o)
    BY <1>3, <2>1 DEF OrderOK
  <2> QED
    BY <1>1, <1>2, <1>5, <1>15, <2>2, TransactionStep DEF ApplyRefund, OrderStatus
<1>16. CASE ApplyDisputeOpened(w)
  <2>1. req[w].event = "disputed" /\ (Status(o) = "PAID" => PaidFor(o))
    BY <1>3, <1>16 DEF ApplyDisputeOpened, At, RequestOK, OrderOK
  <2> QED
    BY <1>1, <1>2, <1>5, <1>16, <2>1, TransactionStep DEF ApplyDisputeOpened, OrderStatus
<1>17. CASE ApplyDisputeWon(w)
  <2>1. Status(o) = "DISPUTED" => PaidFor(o)
    BY <1>3 DEF OrderOK
  <2> QED
    BY <1>1, <1>2, <1>5, <1>17, <2>1, TransactionStep DEF ApplyDisputeWon, OrderStatus
<1> QED
  BY <1>6, <1>7, <1>8, <1>9, <1>10, <1>11, <1>12, <1>13, <1>14, <1>15, <1>16, <1>17
     DEF Continue

(* So does every step of the outside. *)
LEMMA OutsideStep ==
  ASSUME IInv, Outside
  PROVE  IInv'
<1>1. TypeOK'
  BY OutsideType DEF IInv
<1>2. CASE SetAutoApprove
  BY <1>1, <1>2, QuietStep DEF SetAutoApprove, dbVars, stripeVars
<1>3. ASSUME NEW o \in Orders,
             \/ CustomerPays(o) \/ SessionExpires(o) \/ PartialRefund(o) \/ DashboardRefund(o)
             \/ DisputeOpens(o) \/ \E outcome \in {"won", "lost"} : DisputeCloses(o, outcome)
      PROVE  IInv'
  <2>1. stripe \in [Orders -> StripeRecord]
    BY DEF IInv, TypeOK
  <2>2. ASSUME NEW event \in EventTypes, NEW s, Emit(o, event), Session(o) = "OPEN",
               stripe' = [stripe EXCEPT ![o].session = s],
               <<s, event>> \in {<<"COMPLETED", "completed">>, <<"EXPIRED", "expired">>},
               UNCHANGED <<dbVars, req>>
        PROVE  IInv'
    <3>1. Session(o)' = s /\ \A p \in Orders : p # o => Session(p)' = Session(p)
      BY <2>1, <2>2 DEF Session, StripeRecord
    <3> QED
      BY <1>1, <2>2, <3>1, StripeStep DEF dbVars
  <2>3. ASSUME NEW event \in EventTypes \ {"completed", "expired"}, Emit(o, event),
               \A p \in Orders : Session(p)' = Session(p),
               UNCHANGED <<dbVars, req>>
        PROVE  IInv'
    BY <1>1, <2>3, StripeStep DEF dbVars
  <2>4. CASE CustomerPays(o)
    BY <2>2, <2>4 DEF CustomerPays, Session, EventTypes
  <2>5. CASE SessionExpires(o)
    BY <2>2, <2>5 DEF SessionExpires, Session, EventTypes
  <2>6. CASE PartialRefund(o)
    <3>1. \A p \in Orders : Session(p)' = Session(p)
      BY <2>1, <2>6 DEF PartialRefund, Session, StripeRecord
    <3> QED
      BY <2>3, <2>6, <3>1 DEF PartialRefund, EventTypes
  <2>7. CASE DashboardRefund(o)
    <3>1. \A p \in Orders : Session(p)' = Session(p)
      BY <2>1, <2>7 DEF DashboardRefund, Session, StripeRecord
    <3> QED
      BY <2>3, <2>7, <3>1 DEF DashboardRefund, EventTypes
  <2>8. CASE DisputeOpens(o)
    <3>1. \A p \in Orders : Session(p)' = Session(p)
      BY <2>1, <2>8 DEF DisputeOpens, Session, StripeRecord
    <3> QED
      BY <2>3, <2>8, <3>1 DEF DisputeOpens, EventTypes
  <2>9. ASSUME NEW outcome \in {"won", "lost"}, DisputeCloses(o, outcome)
        PROVE  IInv'
    <3>1. \A p \in Orders : Session(p)' = Session(p)
      BY <2>1, <2>9 DEF DisputeCloses, Session, StripeRecord
    <3> QED
      BY <2>3, <2>9, <3>1 DEF DisputeCloses, EventTypes
  <2> QED
    BY <1>3, <2>4, <2>5, <2>6, <2>7, <2>8, <2>9
<1> QED
  BY <1>2, <1>3 DEF Outside

(* The inductive invariant holds of every behaviour. *)
THEOREM Inductive == Spec => []IInv
<1>1. Init => IInv
  <2> SUFFICES ASSUME Init PROVE IInv
    OBVIOUS
  <2>1. TypeOK
    BY OrderAssumption, EnvironmentAssumption
       DEF Init, TypeOK, OrderRow, OrderStatus, EnrollmentStatus, Events, StripeRecord, Request
  <2>2. \A w \in Workers : RequestOK(req[w])
    BY DEF Init, RequestOK, Idle, NoEvent
  <2>3. \A o \in Orders : OrderOK(o)
    BY DEF Init, OrderOK, Status, Session
  <2>4. OneCheckout
    BY DEF Init, OneCheckout, Creating, Idle
  <2> QED
    BY <2>1, <2>2, <2>3, <2>4 DEF IInv
<1>2. IInv /\ [Next]_vars => IInv'
  <2>1. ASSUME IInv, UNCHANGED vars PROVE IInv'
    <3>1. TypeOK'
      BY <2>1 DEF IInv, TypeOK, vars
    <3> QED
      BY <2>1, <3>1, QuietStep DEF vars
  <2> QED
    BY <2>1, StartStep, ContinueStep, FailsStep, OutsideStep DEF Next
<1> QED
  BY <1>1, <1>2, PTL DEF Spec

-----------------------------------------------------------------------------
(* What a step does to the rows *)

(* A transaction applied to order o. *)
Applied(o, from, row, event, access) ==
  /\ Status(o) \in from
  /\ ~ Logged(o, event)
  /\ orders' = [orders EXCEPT ![o] = row]
  /\ payments' = [payments EXCEPT ![o] = Append(@, [status |-> row.status, event |-> event])]
  /\ enrollments' = [enrollments EXCEPT ![Purchase[o]] = access]

Moved(o, from, to, event, access) ==
  \E row \in OrderRow : row.status = to /\ Applied(o, from, row, event, access)

Placed(o) ==
  /\ Status(o) = "NONE"
  /\ orders' = [orders EXCEPT ![o].status = "PENDING"]
  /\ UNCHANGED <<payments, enrollments>>

Untouched ==
  /\ \A o \in Orders : Status(o)' = Status(o)
  /\ UNCHANGED <<payments, enrollments>>

(* The rows change in six ways only. *)
RowStep ==
  \/ Untouched
  \/ \E o \in Orders, event \in EventTypes \cup {NoEvent} :
       LET access == enrollments[Purchase[o]] IN
       \/ Placed(o)
       \/ Moved(o, {"PENDING"}, "PAID", event, "ACTIVE")
       \/ event = "expired" /\ Session(o) = "EXPIRED"
            /\ Moved(o, OrderStatus, "FAILED", event, access)
       \/ Moved(o, {"PAID", "DISPUTED"}, "REFUNDED", event, RefundedAccess(access))
       \/ event = "disputed" /\ Moved(o, {"PAID"}, "DISPUTED", event, SuspendedAccess(access))
       \/ Moved(o, {"DISPUTED"}, "PAID", event, RestoredAccess(access))

(* A transaction applies, or leaves the rows alone. *)
LEMMA TransactionRows ==
  ASSUME NEW w, NEW from, NEW row, NEW access, Transaction(w, from, row, access)
  PROVE  \/ Applied(req[w].order, from, row, req[w].event, access)
         \/ Untouched
BY DEF Transaction, Apply, NotApplied, RolledBack, Applied, Untouched, Status, dbVars

LEMMA ContinueRows ==
  ASSUME IInv, NEW w \in Workers, Continue(w)
  PROVE  RowStep
<1> DEFINE o == req[w].order
           event == req[w].event
           access == enrollments[Purchase[o]]
<1>1. ~ IsIdle(w)
  BY DEF Continue, CreateOrder, CreateSession, CreateSessionFails, SaveSession,
         RetrieveSession, RetrieveSessionGivesUp, StripeRefund, StripeRefundFails,
         ReadSettings, RecordIntent, MarkPaidRead, MarkPaidCommit, MarkFailedRead,
         MarkFailedCommit, ApplyRefund, ApplyDisputeOpened, ApplyDisputeWon, FindOrder,
         Finish, ReleaseClaim, At, IsIdle
<1>2. /\ req[w] \in Running /\ o \in Orders /\ event \in EventTypes \cup {NoEvent}
      /\ RequestOK(req[w])
  BY <1>1, BusyIsRunning DEF IInv, Running
<1>3. orders \in [Orders -> OrderRow]
  BY DEF IInv, TypeOK
<1>4. \A s \in OrderStatus : /\ [orders[o] EXCEPT !.status = s] \in OrderRow
                             /\ [orders[o] EXCEPT !.status = s].status = s
  BY <1>2, <1>3 DEF OrderRow
<1>5. CASE CreateOrder(w)
  <2>1. Status(o) = "NONE"
    BY <1>2, <1>5 DEF CreateOrder, At, RequestOK
  <2>2. Placed(o)
    BY <1>5, <2>1 DEF CreateOrder, Placed
  <2> QED
    BY <1>2, <2>2 DEF RowStep
<1>6. CASE SaveSession(w) \/ RecordIntent(w)
  <2>1. \A p \in Orders : Status(p)' = Status(p)
    BY <1>2, <1>3, <1>6 DEF SaveSession, RecordIntent, Status, OrderRow
  <2> QED
    BY <1>6, <2>1 DEF SaveSession, RecordIntent, RowStep, Untouched
<1>7. CASE \/ CreateSession(w) \/ CreateSessionFails(w) \/ RetrieveSession(w)
           \/ RetrieveSessionGivesUp(w) \/ StripeRefund(w) \/ StripeRefundFails(w)
           \/ ReadSettings(w) \/ MarkPaidRead(w) \/ MarkFailedRead(w) \/ FindOrder(w)
           \/ Finish(w) \/ ReleaseClaim(w)
  <2>1. UNCHANGED dbVars
    BY <1>7 DEF CreateSession, CreateSessionFails, RetrieveSession, RetrieveSessionGivesUp,
                StripeRefund, StripeRefundFails, ReadSettings, MarkPaidRead, MarkFailedRead,
                FindOrder, Finish, ReleaseClaim
  <2> QED
    BY <2>1 DEF dbVars, Status, RowStep, Untouched
<1>8. CASE MarkPaidCommit(w)
  <2>1. PaidRow(w) \in OrderRow /\ PaidRow(w).status = "PAID"
    BY <1>2, PaidRowType DEF IInv
  <2>2. Moved(o, {"PENDING"}, "PAID", event, "ACTIVE") \/ Untouched
    BY <1>8, <2>1, TransactionRows DEF MarkPaidCommit, Moved
  <2> QED
    BY <1>2, <2>2 DEF RowStep
<1>9. CASE MarkFailedCommit(w)
  <2>1. event = "expired" /\ Session(o) = "EXPIRED"
    BY <1>2, <1>9 DEF MarkFailedCommit, At, RequestOK
  <2>2. Moved(o, OrderStatus, "FAILED", event, access) \/ Untouched
    BY <1>4, <1>9, TransactionRows DEF MarkFailedCommit, MarkFailedFrom, Moved, OrderStatus
  <2> QED
    BY <1>2, <2>1, <2>2 DEF RowStep
<1>10. CASE ApplyRefund(w)
  <2>1. RefundableFrom(event) \subseteq {"PAID", "DISPUTED"}
    BY DEF RefundableFrom
  <2>2. Applied(o, RefundableFrom(event), [orders[o] EXCEPT !.status = "REFUNDED"], event,
                RefundedAccess(access))
        \/ Untouched
    BY <1>10, TransactionRows DEF ApplyRefund
  <2>3. Moved(o, {"PAID", "DISPUTED"}, "REFUNDED", event, RefundedAccess(access)) \/ Untouched
    BY <1>4, <2>1, <2>2 DEF Applied, Moved, OrderStatus
  <2> QED
    BY <1>2, <2>3 DEF RowStep
<1>11. CASE ApplyDisputeOpened(w)
  <2>1. event = "disputed"
    BY <1>2, <1>11 DEF ApplyDisputeOpened, At, RequestOK
  <2>2. Moved(o, {"PAID"}, "DISPUTED", event, SuspendedAccess(access)) \/ Untouched
    BY <1>4, <1>11, TransactionRows DEF ApplyDisputeOpened, Moved, OrderStatus
  <2> QED
    BY <1>2, <2>1, <2>2 DEF RowStep
<1>12. CASE ApplyDisputeWon(w)
  <2>1. Moved(o, {"DISPUTED"}, "PAID", event, RestoredAccess(access)) \/ Untouched
    BY <1>4, <1>12, TransactionRows DEF ApplyDisputeWon, Moved, OrderStatus
  <2> QED
    BY <1>2, <2>1 DEF RowStep
<1> QED
  BY <1>5, <1>6, <1>7, <1>8, <1>9, <1>10, <1>11, <1>12 DEF Continue

LEMMA RowSteps ==
  ASSUME IInv, [Next]_vars
  PROVE  RowStep
<1>1. CASE UNCHANGED dbVars
  BY <1>1 DEF dbVars, RowStep, Untouched, Status
<1>2. CASE \E w \in Workers : Continue(w)
  BY <1>2, ContinueRows
<1>3. CASE Outside
  <2>1. UNCHANGED dbVars
    BY <1>3 DEF Outside, SetAutoApprove, CustomerPays, SessionExpires, PartialRefund,
                DashboardRefund, DisputeOpens, DisputeCloses
  <2> QED
    BY <1>1, <2>1
<1>4. CASE \E w \in Workers : Start(w) \/ Fails(w)
  <2>1. UNCHANGED dbVars
    BY <1>4 DEF Start, StartCheckout, StartConfirm, StartApprove, StartRefund, ClaimEvent,
                AckDuplicate, Fails, Throw, ReleaseClaimFails, Crash
  <2> QED
    BY <1>1, <2>1
<1> QED
  BY <1>1, <1>2, <1>3, <1>4 DEF Next, vars, dbVars

(* The effect of each on one order and on its enrolment. *)
Effect(o, from, to, event, access) ==
  /\ Status(o) \in from /\ ~ Logged(o, event)
  /\ to \in OrderStatus
  /\ \A p \in Orders : Status(p)' = IF p = o THEN to ELSE Status(p)
  /\ [status |-> to, event |-> event] \in PaymentRow
  /\ payments[o] \in Seq(PaymentRow)
  /\ payments'[o] = Append(payments[o], [status |-> to, event |-> event])
  /\ \A p \in Orders : p # o => payments'[p] = payments[p]
  /\ enrollments'[Purchase[o]] = access
  /\ \A e \in Enrollments : e # Purchase[o] => enrollments'[e] = enrollments[e]

LEMMA MovedEffect ==
  ASSUME IInv, NEW o \in Orders, NEW from, NEW to, NEW event \in EventTypes \cup {NoEvent},
         NEW access, Moved(o, from, to, event, access)
  PROVE  Effect(o, from, to, event, access)
<1>1. PICK row \in OrderRow : row.status = to /\ Applied(o, from, row, event, access)
  BY DEF Moved
<1>2. /\ orders \in [Orders -> OrderRow] /\ payments \in [Orders -> Seq(PaymentRow)]
      /\ enrollments \in [Enrollments -> EnrollmentStatus]
  BY DEF IInv, TypeOK
<1>3. \A p \in Orders : orders'[p] = IF p = o THEN row ELSE orders[p]
  BY <1>1, <1>2 DEF Applied
<1>4. [status |-> to, event |-> event] \in PaymentRow /\ to \in OrderStatus
  BY <1>1 DEF OrderRow, PaymentRow
<1>5. Purchase[o] \in Enrollments
  BY OrderAssumption
<1> QED
  BY <1>1, <1>2, <1>3, <1>4, <1>5 DEF Applied, Status, Effect

LEMMA PlacedEffect ==
  ASSUME IInv, NEW o \in Orders, Placed(o)
  PROVE  \A p \in Orders : Status(p)' = IF p = o THEN "PENDING" ELSE Status(p)
BY DEF IInv, TypeOK, Placed, Status, OrderRow

-----------------------------------------------------------------------------
(* Theorems *)

(* No order that failed or was refunded is ever reopened, whatever webhook, *)
(* redirect, refund or approval is still under way (markOrderPaid's        *)
(* conditional update).                                                    *)
THEOREM ClosedForGood == Spec => ClosedStaysClosed
<1>1. IInv /\ [Next]_vars => [\A o \in Orders : Status(o) \in Closed => Status(o)' \in Closed]_vars
  <2> SUFFICES ASSUME IInv, [Next]_vars, NEW p \in Orders, Status(p) \in Closed
               PROVE  Status(p)' \in Closed
    OBVIOUS
  <2>1. CASE Untouched
    BY <2>1 DEF Untouched
  <2>2. ASSUME NEW o \in Orders, Placed(o) PROVE Status(p)' \in Closed
    BY <2>2, PlacedEffect DEF Placed, Closed
  <2>3. ASSUME NEW o \in Orders, NEW event \in EventTypes \cup {NoEvent}, NEW from, NEW to,
               NEW access, Moved(o, from, to, event, access),
               to \in Closed \/ from \cap Closed = {}
        PROVE  Status(p)' \in Closed
    <3>1. Effect(o, from, to, event, access)
      BY <2>3, MovedEffect
    <3> QED
      BY <2>3, <3>1 DEF Effect
  <2> QED
    BY <2>1, <2>2, <2>3, RowSteps DEF RowStep, Closed
<1> QED
  BY <1>1, Inductive, PTL DEF Spec, ClosedStaysClosed

(* A course is open only to a buyer with an order that is paid, or that    *)
(* markOrderFailed overwrote after it was.                                 *)
THEOREM AccessFollowsPayment == Spec => []AccessWasPaid
<1>1. Init => AccessWasPaid
  BY DEF Init, AccessWasPaid
<1>2. IInv /\ AccessWasPaid /\ [Next]_vars => AccessWasPaid'
  <2> SUFFICES ASSUME IInv, AccessWasPaid, [Next]_vars, NEW e \in Enrollments,
                      enrollments'[e] = "ACTIVE"
               PROVE  \E p \in Orders : Purchase[p] = e /\ Holds(p)'
    BY DEF AccessWasPaid
  <2>1. \A p \in Orders : payments[p] \in Seq(PaymentRow) /\ (Status(p) = "PAID" => payments[p] # <<>>)
    BY DEF IInv, TypeOK, OrderOK
  <2>2. CASE Untouched
    BY <2>2 DEF Untouched, AccessWasPaid, Holds
  <2>3. ASSUME NEW o \in Orders, Placed(o)
        PROVE  \E p \in Orders : Purchase[p] = e /\ Holds(p)'
    <3>1. \A p \in Orders : Status(p)' = IF p = o THEN "PENDING" ELSE Status(p)
      BY <2>3, PlacedEffect
    <3>2. PICK p \in Orders : Purchase[p] = e /\ Holds(p)
      BY <2>3 DEF Placed, AccessWasPaid
    <3> QED
      BY <2>3, <3>1, <3>2 DEF Placed, Holds
  <2>4. ASSUME NEW o \in Orders, NEW event \in EventTypes \cup {NoEvent}, NEW from, NEW to,
               NEW access, Moved(o, from, to, event, access),
               to = "PAID" \/ access # "ACTIVE"
        PROVE  \E p \in Orders : Purchase[p] = e /\ Holds(p)'
    <3>1. Effect(o, from, to, event, access)
      BY <2>4, MovedEffect
    <3>2. CASE Purchase[o] = e
      BY <2>4, <3>1, <3>2 DEF Effect, Holds
    <3>3. CASE Purchase[o] # e
      <4>1. enrollments[e] = "ACTIVE"
        BY <3>1, <3>3 DEF Effect
      <4>2. PICK p \in Orders : Purchase[p] = e /\ Holds(p)
        BY <4>1 DEF AccessWasPaid
      <4> QED
        BY <3>1, <3>3, <4>2 DEF Effect, Holds
    <3> QED
      BY <3>2, <3>3
  <2>5. ASSUME NEW o \in Orders, NEW event \in EventTypes \cup {NoEvent},
               Moved(o, OrderStatus, "FAILED", event, enrollments[Purchase[o]])
        PROVE  \E p \in Orders : Purchase[p] = e /\ Holds(p)'
    <3>1. Effect(o, OrderStatus, "FAILED", event, enrollments[Purchase[o]])
      BY <2>5, MovedEffect
    <3>2. enrollments[e] = "ACTIVE"
      BY <3>1 DEF Effect
    <3>3. PICK p \in Orders : Purchase[p] = e /\ Holds(p)
      BY <3>2 DEF AccessWasPaid
    <3>4. CASE p # o
      BY <3>1, <3>3, <3>4 DEF Effect, Holds
    <3>5. CASE p = o
      <4>1. Len(payments'[o]) = Len(payments[o]) + 1
        BY <3>1, AppendRow DEF Effect
      <4>2. Len(payments[o]) \in Nat /\ Len(payments[o]) > 0
        BY <2>1, <3>3, <3>5 DEF Holds
      <4> QED
        BY <3>1, <3>3, <3>5, <4>1, <4>2 DEF Effect, Holds
    <3> QED
      BY <3>4, <3>5
  <2> QED
    BY <2>2, <2>3, <2>4, <2>5, RowSteps
       DEF RowStep, RefundedAccess, SuspendedAccess
<1> QED
  BY <1>1, <1>2, Inductive, PTL DEF Spec

(* An order whose row and enrolment change makes a step of its lifecycle.  *)
Statuses == [o \in Orders |-> orders[o].status]

LEMMA StatusesChange ==
  ASSUME NEW o \in Orders, NEW to, \A p \in Orders : Status(p)' = IF p = o THEN to ELSE Status(p)
  PROVE  Statuses' = [Statuses EXCEPT ![o] = to]
BY DEF Statuses, Status

LEMMA AccessChanges ==
  ASSUME IInv, TypeOK', NEW o \in Orders, NEW from, NEW to, NEW event, NEW access,
         Effect(o, from, to, event, access)
  PROVE  enrollments' = [enrollments EXCEPT ![Purchase[o]] = access]
BY OrderAssumption DEF IInv, TypeOK, Effect

LEMMA DisputesChange ==
  ASSUME NEW o \in Orders, NEW from, NEW to, NEW event, NEW access,
         Effect(o, from, to, event, access)
  PROVE  DisputedOrders' = IF to = "DISPUTED" THEN DisputedOrders \cup {o} ELSE DisputedOrders
<1> DEFINE new == [status |-> to, event |-> event]
<1>1. /\ \A p \in Orders : p # o => payments'[p] = payments[p]
      /\ payments[o] \in Seq(PaymentRow) /\ new \in PaymentRow
      /\ payments'[o] = Append(payments[o], new)
  BY DEF Effect
<1>2. /\ \A i \in DOMAIN payments'[o] :
           \/ payments'[o][i] = new
           \/ i \in DOMAIN payments[o] /\ payments'[o][i] = payments[o][i]
      /\ \E i \in DOMAIN payments'[o] : payments'[o][i] = new
      /\ \A i \in DOMAIN payments[o] : i \in DOMAIN payments'[o] /\ payments'[o][i] = payments[o][i]
  BY <1>1, AppendRow
<1>3. (\E i \in DOMAIN payments'[o] : payments'[o][i].status = "DISPUTED")
      <=> (to = "DISPUTED" \/ \E i \in DOMAIN payments[o] : payments[o][i].status = "DISPUTED")
  BY <1>2
<1> QED
  <2>1. \A p \in Orders :
          p \in DisputedOrders' <=> p \in DisputedOrders \/ (p = o /\ to = "DISPUTED")
    BY <1>1, <1>3 DEF DisputedOrders
  <2>2. DisputedOrders \subseteq Orders /\ DisputedOrders' \subseteq Orders
    BY DEF DisputedOrders
  <2> QED
    BY <2>1, <2>2

Change(o, from, to, event, access) ==
  /\ Status(o) \in from /\ ~ Logged(o, event)
  /\ Statuses[o] = Status(o)
  /\ Statuses' = [Statuses EXCEPT ![o] = to]
  /\ enrollments' = [enrollments EXCEPT ![Purchase[o]] = access]
  /\ DisputedOrders' = IF to = "DISPUTED" THEN DisputedOrders \cup {o} ELSE DisputedOrders

LEMMA MovedChange ==
  ASSUME IInv, TypeOK', NEW o \in Orders, NEW from, NEW to,
         NEW event \in EventTypes \cup {NoEvent}, NEW access,
         Moved(o, from, to, event, access)
  PROVE  Change(o, from, to, event, access)
<1>1. Effect(o, from, to, event, access)
  BY MovedEffect
<1>2. Statuses' = [Statuses EXCEPT ![o] = to]
  BY <1>1, StatusesChange DEF Effect
<1>3. enrollments' = [enrollments EXCEPT ![Purchase[o]] = access]
  BY <1>1, AccessChanges
<1>4. DisputedOrders' = IF to = "DISPUTED" THEN DisputedOrders \cup {o} ELSE DisputedOrders
  BY <1>1, DisputesChange
<1> QED
  BY <1>1, <1>2, <1>3, <1>4 DEF Change, Effect, Statuses, Status

(* Without the admin's override the rows implement OrderLifecycle: a late  *)
(* "expired" finds an order that was never paid, and the unique event id   *)
(* turns a second failure or a second dispute into a rollback.             *)
THEOREM Implementation ==
  ASSUME ~ AdminApproves
  PROVE  Spec => ImplementsLifecycle
<1> USE DEF Lifecycle!lifecycleVars
<1>1. Init => Lifecycle!Start
  BY DEF Init, Lifecycle!Start, DisputedOrders
<1>2. IInv /\ TypeOK' /\ [Next]_vars => [Lifecycle!Step]_(Lifecycle!lifecycleVars)
  <2> SUFFICES ASSUME IInv, TypeOK', [Next]_vars
               PROVE  [Lifecycle!Step]_(Lifecycle!lifecycleVars)
    OBVIOUS
  <2>1. CASE Untouched
    BY <2>1 DEF Untouched, Statuses, Status, DisputedOrders
  <2>2. ASSUME NEW o \in Orders, Placed(o) PROVE Lifecycle!Step
    <3>1. Statuses' = [Statuses EXCEPT ![o] = "PENDING"]
      BY <2>2, PlacedEffect, StatusesChange
    <3>2. UNCHANGED <<enrollments, DisputedOrders>>
      BY <2>2 DEF Placed, DisputedOrders
    <3>3. Lifecycle!Place(o)
      BY <2>2, <3>1, <3>2 DEF Lifecycle!Place, Lifecycle!Move, Placed, Status, Statuses
    <3> QED
      BY <3>3 DEF Lifecycle!Step
  <2>3. ASSUME NEW o \in Orders, NEW event \in EventTypes \cup {NoEvent},
               Moved(o, {"PENDING"}, "PAID", event, "ACTIVE")
        PROVE  Lifecycle!Step
    <3>1. Change(o, {"PENDING"}, "PAID", event, "ACTIVE")
      BY <2>3, MovedChange
    <3>2. Lifecycle!Pay(o)
      BY <3>1 DEF Change, Lifecycle!Pay, Lifecycle!Move, Lifecycle!SetAccess, Statuses
    <3> QED
      BY <3>2 DEF Lifecycle!Step
  <2>4. ASSUME NEW o \in Orders, Session(o) = "EXPIRED",
               Moved(o, OrderStatus, "FAILED", "expired", enrollments[Purchase[o]])
        PROVE  Lifecycle!Step
    <3>1. Change(o, OrderStatus, "FAILED", "expired", enrollments[Purchase[o]])
      BY <2>4, MovedChange DEF EventTypes
    <3>2. Status(o) \notin {"NONE", "PAID", "DISPUTED", "REFUNDED"}
      BY <2>4 DEF IInv, OrderOK, PaidFor
    <3>3. Status(o) # "FAILED"
      BY <3>1 DEF Change, IInv, OrderOK, Logged, NoEvent
    <3>4. Status(o) = "PENDING"
      BY <3>1, <3>2, <3>3 DEF Change, OrderStatus
    <3>5. UNCHANGED enrollments
      BY <3>1 DEF Change, IInv, TypeOK
    <3>6. Lifecycle!Fail(o)
      BY <3>1, <3>4, <3>5 DEF Change, Lifecycle!Fail, Lifecycle!Move, Statuses
    <3> QED
      BY <3>6 DEF Lifecycle!Step
  <2>5. ASSUME NEW o \in Orders, NEW event \in EventTypes \cup {NoEvent},
               Moved(o, {"PAID", "DISPUTED"}, "REFUNDED", event,
                     RefundedAccess(enrollments[Purchase[o]]))
        PROVE  Lifecycle!Step
    <3>1. Change(o, {"PAID", "DISPUTED"}, "REFUNDED", event,
                 RefundedAccess(enrollments[Purchase[o]]))
      BY <2>5, MovedChange
    <3>2. Lifecycle!Refund(o)
      BY <3>1 DEF Change, Lifecycle!Refund, Lifecycle!Move, Lifecycle!SetAccess,
                  Lifecycle!Access, RefundedAccess, Statuses
    <3> QED
      BY <3>2 DEF Lifecycle!Step
  <2>6. ASSUME NEW o \in Orders,
               Moved(o, {"PAID"}, "DISPUTED", "disputed",
                     SuspendedAccess(enrollments[Purchase[o]]))
        PROVE  Lifecycle!Step
    <3>1. Change(o, {"PAID"}, "DISPUTED", "disputed",
                 SuspendedAccess(enrollments[Purchase[o]]))
      BY <2>6, MovedChange DEF EventTypes
    <3>2. o \notin DisputedOrders
      BY <3>1 DEF Change, IInv, OrderOK, DisputedOrders, Logged, NoEvent
    <3>3. Lifecycle!OpenDispute(o)
      BY <3>1, <3>2 DEF Change, Lifecycle!OpenDispute, Lifecycle!Move, Lifecycle!SetAccess,
                        Lifecycle!Access, SuspendedAccess, Statuses
    <3> QED
      BY <3>3 DEF Lifecycle!Step
  <2>7. ASSUME NEW o \in Orders, NEW event \in EventTypes \cup {NoEvent},
               Moved(o, {"DISPUTED"}, "PAID", event, RestoredAccess(enrollments[Purchase[o]]))
        PROVE  Lifecycle!Step
    <3>1. Change(o, {"DISPUTED"}, "PAID", event, RestoredAccess(enrollments[Purchase[o]]))
      BY <2>7, MovedChange
    <3>2. Lifecycle!WinDispute(o)
      BY <3>1 DEF Change, Lifecycle!WinDispute, Lifecycle!Move, Lifecycle!SetAccess,
                  Lifecycle!Access, RestoredAccess, Statuses
    <3> QED
      BY <3>2 DEF Lifecycle!Step
  <2> QED
    BY <2>1, <2>2, <2>3, <2>4, <2>5, <2>6, <2>7, RowSteps DEF RowStep
<1> QED
  BY <1>1, <1>2, Inductive, TypeCorrect, PTL DEF Spec, ImplementsLifecycle, Lifecycle!LifecycleSpec

-----------------------------------------------------------------------------
(* The log of payments *)

(* A log is a sequence of statuses. *)
LEMMA StatusLogType ==
  ASSUME NEW log \in Seq(PaymentRow)
  PROVE  /\ [i \in DOMAIN log |-> log[i].status] \in Seq(OrderStatus)
         /\ Len([i \in DOMAIN log |-> log[i].status]) = Len(log)
<1>1. Len(log) \in Nat /\ DOMAIN log = 1..Len(log) /\ \A i \in DOMAIN log : log[i] \in PaymentRow
  OBVIOUS
<1> QED
  BY <1>1 DEF PaymentRow

(* The status of a row that is appended is appended to the statuses. *)
LEMMA StatusLogAppend ==
  ASSUME NEW log \in Seq(PaymentRow), NEW row \in PaymentRow
  PROVE  [i \in DOMAIN Append(log, row) |-> Append(log, row)[i].status]
         = Append([i \in DOMAIN log |-> log[i].status], row.status)
<1> DEFINE old == [i \in DOMAIN log |-> log[i].status]
           new == [i \in DOMAIN Append(log, row) |-> Append(log, row)[i].status]
<1>1. Len(log) \in Nat /\ DOMAIN log = 1..Len(log)
  OBVIOUS
<1>2. old \in Seq(OrderStatus) /\ Len(old) = Len(log)
  BY StatusLogType
<1>3. row.status \in OrderStatus
  BY DEF PaymentRow
<1>4. DOMAIN Append(log, row) = 1..(Len(log) + 1)
  BY <1>1
<1>5. Append(old, row.status) = [i \in 1..(Len(log) + 1) |->
                                   IF i = Len(log) + 1 THEN row.status ELSE old[i]]
  <2> HIDE DEF old
  <2> QED
    BY <1>2, <1>3
<1>6. \A i \in 1..(Len(log) + 1) :
        Append(log, row)[i].status = IF i = Len(log) + 1 THEN row.status ELSE old[i]
  BY <1>1
<1> QED
  BY <1>4, <1>5, <1>6

(* A sequence that agrees with another and has one more element extends it. *)
LEMMA AppendIs ==
  ASSUME NEW S, NEW s \in Seq(S), NEW e \in S, NEW t \in Seq(S),
         Len(t) = Len(s) + 1, t[Len(t)] = e, \A i \in 1..Len(s) : t[i] = s[i]
  PROVE  Append(s, e) = t
<1>1. Len(s) \in Nat /\ Append(s, e) \in Seq(S) /\ Len(Append(s, e)) = Len(s) + 1
  OBVIOUS
<1>2. Append(s, e)[Len(s) + 1] = e
  OBVIOUS
<1>3. \A i \in 1..Len(s) : Append(s, e)[i] = s[i]
  OBVIOUS
<1>4. \A i \in 1..Len(t) : Append(s, e)[i] = t[i]
  BY <1>1, <1>2, <1>3
<1> QED
  BY <1>1, <1>4

(* Appending to short tuples. *)
LEMMA AppendToOne ==
  ASSUME NEW S
  PROVE  \A a, b \in S : Append(<<a>>, b) = <<a, b>>
<1> SUFFICES ASSUME NEW a \in S, NEW b \in S
             PROVE  Append(<<a>>, b) = <<a, b>>
  OBVIOUS
<1> DEFINE s == <<a>>
           t == <<a, b>>
<1>1. /\ s \in Seq(S) /\ Len(s) = 1
      /\ t \in Seq(S) /\ Len(t) = 2 /\ t[2] = b
  OBVIOUS
<1>2. \A i \in 1..1 : t[i] = s[i]
  OBVIOUS
<1> HIDE DEF s, t
<1>3. Len(t) = Len(s) + 1 /\ t[Len(t)] = b /\ \A i \in 1..Len(s) : t[i] = s[i]
  BY <1>1, <1>2
<1>4. Append(s, b) = t
  BY <1>1, <1>3, AppendIs, Zenon
<1> QED
  BY <1>4 DEF s, t

(* The same for a pair. *)
LEMMA AppendToTwo ==
  ASSUME NEW S
  PROVE  \A a, b, c \in S : Append(<<a, b>>, c) = <<a, b, c>>
<1> SUFFICES ASSUME NEW a \in S, NEW b \in S, NEW c \in S
             PROVE  Append(<<a, b>>, c) = <<a, b, c>>
  OBVIOUS
<1> DEFINE s == <<a, b>>
           t == <<a, b, c>>
<1>1. /\ s \in Seq(S) /\ Len(s) = 2
      /\ t \in Seq(S) /\ Len(t) = 3 /\ t[3] = c
  OBVIOUS
<1>2. \A i \in 1..2 : t[i] = s[i]
  OBVIOUS
<1> HIDE DEF s, t
<1>3. Len(t) = Len(s) + 1 /\ t[Len(t)] = c /\ \A i \in 1..Len(s) : t[i] = s[i]
  BY <1>1, <1>2
<1>4. Append(s, c) = t
  BY <1>1, <1>3, AppendIs, Zenon
<1> QED
  BY <1>4 DEF s, t

(* And for a triple. *)
LEMMA AppendToThree ==
  ASSUME NEW S
  PROVE  \A a, b, c, d \in S : Append(<<a, b, c>>, d) = <<a, b, c, d>>
<1> SUFFICES ASSUME NEW a \in S, NEW b \in S, NEW c \in S, NEW d \in S
             PROVE  Append(<<a, b, c>>, d) = <<a, b, c, d>>
  OBVIOUS
<1> DEFINE s == <<a, b, c>>
           t == <<a, b, c, d>>
<1>1. /\ s \in Seq(S) /\ Len(s) = 3
      /\ t \in Seq(S) /\ Len(t) = 4 /\ t[4] = d
  OBVIOUS
<1>2. \A i \in 1..3 : t[i] = s[i]
  OBVIOUS
<1> HIDE DEF s, t
<1>3. Len(t) = Len(s) + 1 /\ t[Len(t)] = d /\ \A i \in 1..Len(s) : t[i] = s[i]
  BY <1>1, <1>2
<1>4. Append(s, d) = t
  BY <1>1, <1>3, AppendIs, Zenon
<1> QED
  BY <1>4 DEF s, t

(* Where a log of PurchaseLogs may go. *)
LEMMA LogMoves ==
  ASSUME NEW l \in PurchaseLogs
  PROVE  /\ l = <<>> => Append(l, "PAID") \in PurchaseLogs
         /\ l # <<>> =>
              /\ l[Len(l)] \in {"PAID", "DISPUTED", "REFUNDED"}
              /\ l[Len(l)] \in {"PAID", "DISPUTED"} => Append(l, "REFUNDED") \in PurchaseLogs
              /\ l[Len(l)] = "DISPUTED" => Append(l, "PAID") \in PurchaseLogs
              /\ l[Len(l)] = "PAID" /\ (\A i \in DOMAIN l : l[i] # "DISPUTED")
                   => Append(l, "DISPUTED") \in PurchaseLogs
<1> DEFINE S == OrderStatus
<1>0. "PAID" \in S /\ "REFUNDED" \in S /\ "DISPUTED" \in S
  BY DEF OrderStatus
<1> HIDE DEF S
<1>1. CASE l = <<>>
  BY <1>1 DEF PurchaseLogs
<1>2. CASE l = <<"PAID">>
  <2>1. /\ Append(<<"PAID">>, "REFUNDED") = <<"PAID", "REFUNDED">>
        /\ Append(<<"PAID">>, "DISPUTED") = <<"PAID", "DISPUTED">>
    BY <1>0, AppendToOne, Zenon
  <2>2. Len(l) = 1 /\ l[1] = "PAID" /\ l # <<>>
    BY <1>2
  <2> QED
    BY <1>2, <2>1, <2>2 DEF PurchaseLogs
<1>3. CASE l = <<"PAID", "DISPUTED">>
  <2>1. /\ Append(<<"PAID", "DISPUTED">>, "REFUNDED") = <<"PAID", "DISPUTED", "REFUNDED">>
        /\ Append(<<"PAID", "DISPUTED">>, "PAID") = <<"PAID", "DISPUTED", "PAID">>
    BY <1>0, AppendToTwo, Zenon
  <2>2. Len(l) = 2 /\ l[2] = "DISPUTED" /\ l # <<>>
    BY <1>3
  <2> QED
    BY <1>3, <2>1, <2>2 DEF PurchaseLogs
<1>4. CASE l = <<"PAID", "DISPUTED", "PAID">>
  <2>1. Append(<<"PAID", "DISPUTED", "PAID">>, "REFUNDED")
          = <<"PAID", "DISPUTED", "PAID", "REFUNDED">>
    BY <1>0, AppendToThree, Zenon
  <2>2. Len(l) = 3 /\ l[3] = "PAID" /\ l # <<>> /\ 2 \in DOMAIN l /\ l[2] = "DISPUTED"
    BY <1>4
  <2> QED
    BY <1>4, <2>1, <2>2 DEF PurchaseLogs
<1>5. CASE l = <<"PAID", "REFUNDED">>
  <2>1. Len(l) = 2 /\ l[2] = "REFUNDED" /\ l # <<>>
    BY <1>5
  <2> QED
    BY <2>1
<1>6. CASE l = <<"PAID", "DISPUTED", "REFUNDED">>
  <2>1. Len(l) = 3 /\ l[3] = "REFUNDED" /\ l # <<>>
    BY <1>6
  <2> QED
    BY <2>1
<1>7. CASE l = <<"PAID", "DISPUTED", "PAID", "REFUNDED">>
  <2>1. Len(l) = 4 /\ l[4] = "REFUNDED" /\ l # <<>>
    BY <1>7
  <2> QED
    BY <2>1
<1> QED
  BY <1>1, <1>2, <1>3, <1>4, <1>5, <1>6, <1>7 DEF PurchaseLogs

(* What LogTellsStatus says of one order. *)
LogOK(log, s) ==
  /\ log \in PurchaseLogs \cup {Append(l, "FAILED") : l \in PurchaseLogs}
  /\ s \in IF log = <<>> THEN {"NONE", "PENDING"} ELSE {log[Len(log)]}

LEMMA PurchaseLogsType == PurchaseLogs \subseteq Seq(OrderStatus)
<1> DEFINE S == OrderStatus
<1>1. "PAID" \in S /\ "REFUNDED" \in S /\ "DISPUTED" \in S
  BY DEF OrderStatus
<1> HIDE DEF S
<1>2. PurchaseLogs \subseteq Seq(S)
  BY <1>1 DEF PurchaseLogs
<1> QED
  BY <1>2 DEF S

(* The last row that is appended is the last one. *)
LEMMA LastOfAppend ==
  ASSUME NEW l \in Seq(OrderStatus), NEW s \in OrderStatus
  PROVE  Append(l, s) # <<>> /\ Append(l, s)[Len(Append(l, s))] = s
BY AppendRow

(* A log that ends as a purchase does is one. *)
LEMMA LogOfStatus ==
  ASSUME NEW log, NEW s, LogOK(log, s), s # "FAILED"
  PROVE  /\ log \in PurchaseLogs
         /\ log = <<>> <=> s \in {"NONE", "PENDING"}
         /\ log # <<>> => s = log[Len(log)]
<1>1. \A l \in PurchaseLogs :
        Append(l, "FAILED") # <<>> /\ Append(l, "FAILED")[Len(Append(l, "FAILED"))] = "FAILED"
  BY PurchaseLogsType, LastOfAppend DEF OrderStatus
<1>2. log \in PurchaseLogs
  BY <1>1 DEF LogOK
<1> QED
  BY <1>2, LogMoves DEF LogOK

(* Every way RowStep lets an order move keeps the log's story. *)
LEMMA LogKeeps ==
  ASSUME IInv, LogTellsStatus, NEW o \in Orders, NEW event \in EventTypes \cup {NoEvent},
         NEW from, NEW to, NEW access, Moved(o, from, to, event, access),
         \/ from = {"PENDING"} /\ to = "PAID"
         \/ to = "FAILED" /\ event = "expired"
         \/ from = {"PAID", "DISPUTED"} /\ to = "REFUNDED"
         \/ from = {"PAID"} /\ to = "DISPUTED" /\ event = "disputed"
         \/ from = {"DISPUTED"} /\ to = "PAID"
  PROVE  LogTellsStatus'
<1>1. Effect(o, from, to, event, access) /\ OrderOK(o)
  BY MovedEffect DEF IInv
<1> DEFINE log == StatusLog(o)
<1>2. LogOK(log, Status(o))
  BY DEF LogTellsStatus, LogOK
<1>3. StatusLog(o)' = Append(log, to)
  BY <1>1, StatusLogAppend DEF Effect, StatusLog
<1>4. log \in Seq(OrderStatus) /\ DOMAIN log = DOMAIN payments[o]
      /\ \A i \in DOMAIN payments[o] : log[i] = payments[o][i].status
  BY <1>1, StatusLogType DEF Effect, StatusLog
<1>5. Status(o) # "FAILED"
  <2>1. CASE to = "FAILED" /\ event = "expired"
    BY <1>1, <2>1 DEF Effect, OrderOK, Logged, NoEvent
  <2> QED
    BY <1>1, <2>1 DEF Effect
<1> HIDE DEF log
<1>6. /\ log \in PurchaseLogs
      /\ log = <<>> <=> Status(o) \in {"NONE", "PENDING"}
      /\ log # <<>> => Status(o) = log[Len(log)]
  BY <1>2, <1>5, LogOfStatus
<1>7. event = "disputed" => \A i \in DOMAIN log : log[i] # "DISPUTED"
  BY <1>1, <1>4 DEF Effect, OrderOK, Logged, NoEvent
<1>8. Append(log, to) \in PurchaseLogs \cup {Append(l, "FAILED") : l \in PurchaseLogs}
  <2>1. CASE to = "FAILED"
    BY <1>6, <2>1
  <2>2. CASE to # "FAILED"
    BY <1>1, <1>6, <1>7, <2>2, LogMoves DEF Effect
  <2> QED
    BY <2>1, <2>2
<1>9. Append(log, to) # <<>> /\ Append(log, to)[Len(Append(log, to))] = to
  BY <1>1, <1>4, LastOfAppend DEF Effect
<1>10. LogOK(StatusLog(o), Status(o))'
  BY <1>1, <1>3, <1>8, <1>9 DEF Effect, LogOK
<1>11. \A p \in Orders : p # o => StatusLog(p)' = StatusLog(p) /\ Status(p)' = Status(p)
  BY <1>1 DEF Effect, StatusLog
<1> QED
  BY <1>10, <1>11 DEF LogTellsStatus, LogOK

(* The append-only Payment log tells the whole story of each order: what   *)
(* the statuses' conditions and the unique event ids let through is one of *)
(* the logs of PurchaseLogs, ended perhaps by markOrderFailed.             *)
THEOREM LogIsTheStory == Spec => []LogTellsStatus
<1>1. Init => LogTellsStatus
  <2> SUFFICES ASSUME Init, NEW o \in Orders
               PROVE  LogOK(StatusLog(o), Status(o))
    BY DEF LogTellsStatus, LogOK
  <2>1. StatusLog(o) = <<>>
    BY DEF Init, StatusLog
  <2> QED
    BY <2>1 DEF Init, LogOK, PurchaseLogs, Status
<1>2. IInv /\ LogTellsStatus /\ [Next]_vars => LogTellsStatus'
  <2> SUFFICES ASSUME IInv, LogTellsStatus, [Next]_vars
               PROVE  LogTellsStatus'
    OBVIOUS
  <2>1. CASE Untouched
    BY <2>1 DEF Untouched, LogTellsStatus, StatusLog
  <2>2. ASSUME NEW o \in Orders, Placed(o)
        PROVE  LogTellsStatus'
    <3> SUFFICES ASSUME NEW p \in Orders
                 PROVE  LogOK(StatusLog(p), Status(p))'
      BY DEF LogTellsStatus, LogOK
    <3>1. StatusLog(p)' = StatusLog(p) /\ LogOK(StatusLog(p), Status(p))
      BY <2>2 DEF Placed, StatusLog, LogTellsStatus, LogOK
    <3>2. Status(p)' = IF p = o THEN "PENDING" ELSE Status(p)
      BY <2>2, PlacedEffect
    <3>3. CASE p = o
      <4>1. Status(p) = "NONE"
        BY <2>2, <3>3 DEF Placed
      <4>2. StatusLog(p) = <<>>
        BY <3>1, <4>1, LogOfStatus
      <4> QED
        BY <3>1, <3>2, <3>3, <4>2 DEF LogOK
    <3>4. CASE p # o
      BY <3>1, <3>2, <3>4 DEF LogOK
    <3> QED
      BY <3>3, <3>4
  <2> QED
    BY <2>1, <2>2, RowSteps, LogKeeps DEF RowStep
<1> QED
  BY <1>1, <1>2, Inductive, PTL DEF Spec

-----------------------------------------------------------------------------
(* The status is never ahead of Stripe *)

(* What was bought has been given back, or was for nothing. *)
GivenBack(o) == o \in FreeOrders \/ FullyRefunded(o) \/ stripe[o].dispute = "lost"
WasDisputed(o) == \E i \in DOMAIN payments[o] : payments[o][i].status = "DISPUTED"

(* Every status has its cause, and an order that is PAID after a dispute   *)
(* won it.                                                                 *)
Caused(o) ==
  /\ Status(o) \in {"PAID", "DISPUTED", "REFUNDED"} => PaidFor(o)
  /\ Status(o) = "FAILED" => Session(o) = "EXPIRED"
  /\ Status(o) = "REFUNDED" => GivenBack(o)
  /\ Status(o) = "DISPUTED" => stripe[o].dispute # "none"
  /\ Status(o) = "PAID" /\ WasDisputed(o) => stripe[o].dispute = "won"

(* An event says what Stripe holds, and goes on being true; so do the      *)
(* steps a request takes on its word.                                      *)
Heard(o, event) ==
  /\ event = "refunded" => FullyRefunded(o)
  /\ event = "disputed" => stripe[o].dispute # "none"
  /\ event \in {"won", "lost"} => stripe[o].dispute = event
HasCause(r) ==
  /\ Heard(r.order, r.event)
  /\ r.step = "applyRefund" => GivenBack(r.order)
  /\ r.step = "applyDisputeOpened" => stripe[r.order].dispute # "none"
  /\ r.step = "applyDisputeWon" => stripe[r.order].dispute = "won"
  /\ r.step = "findOrder" => r.event \in {"refunded", "disputed", "won", "lost"}
CauseInv ==
  /\ \A o \in Orders : \A i \in DOMAIN emitted[o] : Heard(o, emitted[o][i])
  /\ \A w \in Workers : HasCause(req[w])
  /\ \A o \in Orders : Caused(o)

(* Stripe takes back neither a refund nor the end of a dispute. *)
StripeKeeps ==
  \A o \in Orders :
    /\ FullyRefunded(o) => FullyRefunded(o)'
    /\ stripe[o].dispute # "none" => stripe'[o].dispute # "none"
    /\ stripe[o].dispute \in {"won", "lost"} => stripe'[o].dispute = stripe[o].dispute
    /\ Session(o) \in {"COMPLETED", "EXPIRED"} => Session(o)' = Session(o)

(* What a step does at Stripe, and the event it leaves there. *)
OneEvent ==
  \/ UNCHANGED stripeVars
  \/ \E o \in Orders, event \in EventTypes : Emit(o, event) /\ Heard(o, event)'
  \/ UNCHANGED emitted

LEMMA OutsideKeeps ==
  ASSUME IInv, Outside
  PROVE  StripeKeeps /\ OneEvent
<1>1. CASE SetAutoApprove
  BY <1>1 DEF SetAutoApprove, StripeKeeps, OneEvent, stripeVars, FullyRefunded, Session
<1>2. ASSUME NEW o \in Orders,
             \/ CustomerPays(o) \/ SessionExpires(o) \/ PartialRefund(o) \/ DashboardRefund(o)
             \/ DisputeOpens(o) \/ \E outcome \in {"won", "lost"} : DisputeCloses(o, outcome)
      PROVE  StripeKeeps /\ OneEvent
  <2>1. stripe \in [Orders -> StripeRecord] /\ stripe[o] \in StripeRecord
    BY DEF IInv, TypeOK
  <2>2. \A p \in Orders : p # o => stripe'[p] = stripe[p]
    BY <1>2, <2>1 DEF CustomerPays, SessionExpires, PartialRefund, DashboardRefund,
                      DisputeOpens, DisputeCloses
  <2>3. CASE CustomerPays(o) \/ SessionExpires(o) \/ PartialRefund(o)
    <3>1. /\ stripe'[o].dispute = stripe[o].dispute
          /\ FullyRefunded(o) => FullyRefunded(o)'
          /\ Session(o) \in {"COMPLETED", "EXPIRED"} => Session(o)' = Session(o)
      BY <2>1, <2>3 DEF CustomerPays, SessionExpires, PartialRefund, StripeRecord, Session,
                        FullyRefunded
    <3>2. \E event \in {"completed", "expired", "partRefund"} : Emit(o, event)
      BY <2>3 DEF CustomerPays, SessionExpires, PartialRefund
    <3>3. OneEvent
      BY <3>2 DEF OneEvent, Heard, EventTypes
    <3> QED
      BY <2>2, <3>1, <3>3 DEF StripeKeeps, FullyRefunded, Session
  <2>4. CASE DashboardRefund(o)
    <3>1. /\ stripe'[o].dispute = stripe[o].dispute /\ stripe'[o].refund = "full"
          /\ Session(o)' = Session(o)
      BY <2>1, <2>4 DEF DashboardRefund, StripeRecord, Session
    <3>2. OneEvent
      BY <2>4, <3>1 DEF DashboardRefund, OneEvent, Heard, EventTypes, FullyRefunded
    <3> QED
      BY <2>2, <3>1, <3>2 DEF StripeKeeps, FullyRefunded, Session
  <2>5. CASE DisputeOpens(o)
    <3>1. /\ stripe'[o].dispute = "open" /\ stripe'[o].refund = stripe[o].refund
          /\ Session(o)' = Session(o) /\ stripe[o].dispute = "none"
      BY <2>1, <2>5 DEF DisputeOpens, StripeRecord, Session
    <3>2. OneEvent
      BY <2>5, <3>1 DEF DisputeOpens, OneEvent, Heard, EventTypes
    <3> QED
      BY <2>2, <3>1, <3>2 DEF StripeKeeps, FullyRefunded, Session
  <2>6. ASSUME NEW outcome \in {"won", "lost"}, DisputeCloses(o, outcome)
        PROVE  StripeKeeps /\ OneEvent
    <3>1. /\ stripe'[o].dispute = outcome /\ stripe'[o].refund = stripe[o].refund
          /\ Session(o)' = Session(o) /\ stripe[o].dispute = "open"
      BY <2>1, <2>6 DEF DisputeCloses, StripeRecord, Session
    <3>2. outcome \in EventTypes /\ Emit(o, outcome) /\ Heard(o, outcome)'
      BY <2>6, <3>1 DEF DisputeCloses, Heard, EventTypes
    <3> QED
      BY <2>2, <3>1, <3>2 DEF StripeKeeps, OneEvent, FullyRefunded, Session
  <2> QED
    BY <1>2, <2>3, <2>4, <2>5, <2>6
<1> QED
  BY <1>1, <1>2 DEF Outside

(* The session a checkout opens was not there; the refund an admin makes   *)
(* is a full one.                                                          *)
LEMMA ContinueKeeps ==
  ASSUME IInv, NEW w \in Workers, Continue(w)
  PROVE  StripeKeeps /\ OneEvent
<1>1. stripe \in [Orders -> StripeRecord]
  BY DEF IInv, TypeOK
<1>2. CASE CreateSession(w)
  <2>1. ~ IsIdle(w) /\ RequestOK(req[w]) /\ req[w].step = "createSession"
    BY <1>2 DEF CreateSession, At, IsIdle, IInv
  <2>2. PICK o \in Orders : o = req[w].order
    BY <2>1, BusyIsRunning DEF IInv, Running
  <2>3. Session(o) = "NONE" /\ stripe' = [stripe EXCEPT ![o].session = "OPEN"]
        /\ UNCHANGED emitted /\ stripe[o] \in StripeRecord
    BY <1>1, <1>2, <2>1, <2>2 DEF CreateSession, RequestOK
  <2>4. /\ stripe'[o].dispute = stripe[o].dispute /\ stripe'[o].refund = stripe[o].refund
        /\ \A p \in Orders : p # o => stripe'[p] = stripe[p]
    BY <1>1, <2>3 DEF StripeRecord
  <2> QED
    BY <2>3, <2>4 DEF StripeKeeps, OneEvent, FullyRefunded, Session
<1>3. CASE StripeRefund(w) /\ ~ UNCHANGED stripeVars
  <2>1. ~ IsIdle(w)
    BY <1>3 DEF StripeRefund, At, IsIdle
  <2>2. PICK o \in Orders : o = req[w].order
    BY <2>1, BusyIsRunning DEF IInv, Running
  <2>3. stripe' = [stripe EXCEPT ![o].refund = "byAdmin"] /\ Emit(o, "refunded")
        /\ stripe[o] \in StripeRecord
    BY <1>1, <1>3, <2>2 DEF StripeRefund
  <2>4. /\ stripe'[o].dispute = stripe[o].dispute /\ stripe'[o].refund = "byAdmin"
        /\ Session(o)' = Session(o)
        /\ \A p \in Orders : p # o => stripe'[p] = stripe[p]
    BY <1>1, <2>3 DEF StripeRecord, Session
  <2>5. OneEvent
    BY <2>3, <2>4 DEF OneEvent, Heard, FullyRefunded, EventTypes
  <2> QED
    BY <2>4, <2>5 DEF StripeKeeps, FullyRefunded, Session
<1>4. CASE UNCHANGED stripeVars
  BY <1>4 DEF StripeKeeps, OneEvent, stripeVars, FullyRefunded, Session
<1>5. UNCHANGED stripeVars \/ CreateSession(w) \/ StripeRefund(w)
  BY DEF Continue, CreateOrder, CreateSessionFails, SaveSession, RetrieveSession,
         RetrieveSessionGivesUp, StripeRefundFails, ReadSettings, RecordIntent, MarkPaidRead,
         MarkPaidCommit, MarkFailedRead, MarkFailedCommit, ApplyRefund, ApplyDisputeOpened,
         ApplyDisputeWon, FindOrder, Finish, ReleaseClaim, Transaction, stripeVars
<1> QED
  BY <1>2, <1>3, <1>4, <1>5

LEMMA StepKeeps ==
  ASSUME IInv, [Next]_vars
  PROVE  StripeKeeps /\ OneEvent
<1>1. CASE UNCHANGED stripeVars
  BY <1>1 DEF StripeKeeps, OneEvent, stripeVars, FullyRefunded, Session
<1>2. CASE \E w \in Workers : Start(w) \/ Fails(w)
  <2>1. UNCHANGED stripeVars
    BY <1>2 DEF Start, StartCheckout, StartConfirm, StartApprove, StartRefund, ClaimEvent,
                AckDuplicate, Fails, Throw, ReleaseClaimFails, Crash, stripeVars
  <2> QED
    BY <1>1, <2>1
<1> QED
  BY <1>1, <1>2, OutsideKeeps, ContinueKeeps DEF Next, vars, stripeVars

(* What has been heard stays true, and a step adds only what is. *)
LEMMA HeardStays ==
  ASSUME StripeKeeps, NEW o \in Orders, NEW event, Heard(o, event)
  PROVE  Heard(o, event)'
BY DEF StripeKeeps, Heard

LEMMA EmittedIsHeard ==
  ASSUME IInv, CauseInv, StripeKeeps, OneEvent, NEW o \in Orders, NEW i \in DOMAIN emitted'[o]
  PROVE  Heard(o, emitted[o][i])'
<1>1. emitted \in [Orders -> Seq(EventTypes)]
  BY DEF IInv, TypeOK
<1>2. CASE i \in DOMAIN emitted[o] /\ emitted'[o][i] = emitted[o][i]
  <2>1. Heard(o, emitted[o][i])
    BY <1>2 DEF CauseInv
  <2> QED
    BY <1>2, <2>1 DEF Heard, StripeKeeps
<1>3. CASE UNCHANGED emitted
  BY <1>2, <1>3
<1>4. ASSUME NEW p \in Orders, NEW event \in EventTypes, Emit(p, event), Heard(p, event)'
      PROVE  Heard(o, emitted[o][i])'
  <2>1. CASE o = p
    <3>1. emitted'[o] = Append(emitted[o], event)
      BY <1>1, <1>4, <2>1 DEF Emit
    <3>2. \/ i \in DOMAIN emitted[o] /\ emitted'[o][i] = emitted[o][i]
          \/ emitted'[o][i] = event
      BY <1>1, <3>1, AppendRow
    <3>3. CASE emitted'[o][i] = event
      BY <1>4, <2>1, <3>3 DEF Heard
    <3> QED
      BY <1>2, <3>2, <3>3
  <2>2. CASE o # p
    <3>1. emitted'[o] = emitted[o]
      BY <1>1, <1>4, <2>2 DEF Emit
    <3> QED
      BY <1>2, <3>1
  <2> QED
    BY <2>1, <2>2
<1> QED
  BY <1>3, <1>4 DEF OneEvent, stripeVars

(* A request keeps the cause it has, and may lose interest in it.          *)
Heedless == {"createOrder", "createSession", "saveSession", "retrieveSession", "readSettings",
             "markPaidRead", "markPaidCommit", "recordIntent", "markFailedRead",
             "markFailedCommit", "stripeRefund", "finish", "failed"}
Carries(v) ==
  /\ req'[v].order = req[v].order /\ req'[v].event = req[v].event
  /\ req'[v].step = req[v].step \/ req'[v].step \in Heedless

LEMMA CauseStays ==
  ASSUME IInv, CauseInv, StripeKeeps, NEW v \in Workers, Carries(v) \/ req'[v] = Idle
  PROVE  HasCause(req[v])'
<1>1. HasCause(req[v])
  BY DEF CauseInv
<1>2. CASE req'[v] = Idle
  BY <1>2 DEF HasCause, Heard, Idle, NoEvent
<1>3. CASE req[v] = Idle /\ Carries(v)
  BY <1>3 DEF HasCause, Heard, Idle, NoEvent, Carries, Heedless
<1>4. CASE req[v].order \in Orders /\ Carries(v)
  BY <1>1, <1>4 DEF HasCause, Heard, Carries, Heedless, StripeKeeps, GivenBack
<1>5. req[v] = Idle \/ req[v].order \in Orders
  BY DEF IInv, TypeOK, Request, Running
<1> QED
  BY <1>2, <1>3, <1>4, <1>5

LEMMA StartHasCause ==
  ASSUME IInv, CauseInv, NEW w \in Workers, Start(w), UNCHANGED stripeVars
  PROVE  \A v \in Workers : HasCause(req[v])'
<1>1. StripeKeeps
  BY DEF StripeKeeps, stripeVars, FullyRefunded, Session
<1>2. req \in [Workers -> Request]
  BY DEF IInv, TypeOK
<1>3. ASSUME NEW v \in Workers, req'[v] = req[v] PROVE HasCause(req[v])'
  BY <1>1, <1>3, CauseStays DEF Carries
<1>4. PICK o \in Orders :
        \/ StartCheckout(w, o) \/ StartConfirm(w, o) \/ StartApprove(w, o) \/ StartRefund(w, o)
        \/ \E event \in EventTypes : ClaimEvent(w, o, event) \/ AckDuplicate(w, o, event)
  BY DEF Start
<1>5. ASSUME NEW step, NEW event, NEW intent, Begin(w, step, o, event, intent), Heard(o, event),
             /\ step = "applyRefund" => o \in FreeOrders
             /\ step \notin {"applyDisputeOpened", "applyDisputeWon"}
             /\ step = "findOrder" => event \in {"refunded", "disputed", "won", "lost"}
      PROVE  \A v \in Workers : HasCause(req[v])'
  <2>1. \A v \in Workers : v # w => req'[v] = req[v]
    BY <1>2, <1>5 DEF Begin
  <2>2. req'[w] = [step |-> step, order |-> o, event |-> event, intent |-> intent]
    BY <1>2, <1>5 DEF Begin
  <2>3. Heard(o, event)' <=> Heard(o, event)
    BY DEF Heard, stripeVars, FullyRefunded
  <2>4. HasCause(req[w])'
    BY <1>5, <2>2, <2>3 DEF HasCause, Heard, GivenBack
  <2> QED
    BY <1>3, <2>1, <2>4
<1>6. CASE StartCheckout(w, o) \/ StartConfirm(w, o) \/ StartApprove(w, o) \/ StartRefund(w, o)
  <2>1. Heard(o, NoEvent)
    BY DEF Heard, NoEvent
  <2> DEFINE Begins(step, intent) ==
               /\ Begin(w, step, o, NoEvent, intent)
               /\ step \in {"createOrder", "retrieveSession", "markPaidRead", "applyRefund",
                            "stripeRefund"}
               /\ step = "applyRefund" => o \in FreeOrders
  <2>2. \E step, intent : Begins(step, intent)
    <3>1. CASE StartCheckout(w, o)
      <4>1. Begins("createOrder", FALSE)
        BY <3>1 DEF StartCheckout
      <4> QED
        BY <4>1
    <3>2. CASE StartConfirm(w, o)
      <4>1. Begins("retrieveSession", FALSE)
        BY <3>2 DEF StartConfirm
      <4> QED
        BY <4>1
    <3>3. CASE StartApprove(w, o)
      <4>1. Begins("markPaidRead", orders[o].intent)
        BY <3>3 DEF StartApprove
      <4> QED
        BY <4>1
    <3>4. CASE StartRefund(w, o)
      <4>1. Begins("applyRefund", FALSE) \/ Begins("stripeRefund", FALSE)
        BY <3>4 DEF StartRefund
      <4> QED
        BY <4>1
    <3> QED
      BY <1>6, <3>1, <3>2, <3>3, <3>4
  <2>3. PICK step, intent : Begins(step, intent)
    BY <2>2
  <2>4. step \notin {"applyDisputeOpened", "applyDisputeWon", "findOrder"}
    BY <2>3
  <2> QED
    BY <1>5, <2>1, <2>3, <2>4
<1>7. ASSUME NEW event \in EventTypes, ClaimEvent(w, o, event)
      PROVE  \A v \in Workers : HasCause(req[v])'
  <2>1. Heard(o, event)
    BY <1>7 DEF ClaimEvent, Deliverable, CauseInv
  <2>2. /\ FirstStep(event) \in {"readSettings", "markFailedRead", "finish", "findOrder"}
        /\ FirstStep(event) = "findOrder" => event \in {"refunded", "disputed", "won", "lost"}
    BY DEF FirstStep, EventTypes
  <2> QED
    BY <1>5, <1>7, <2>1, <2>2 DEF ClaimEvent
<1>8. ASSUME NEW event \in EventTypes, AckDuplicate(w, o, event)
      PROVE  \A v \in Workers : HasCause(req[v])'
  BY <1>3, <1>8 DEF AckDuplicate
<1> QED
  BY <1>4, <1>6, <1>7, <1>8

LEMMA ContinueHasCause ==
  ASSUME IInv, CauseInv, StripeKeeps, NEW w \in Workers, Continue(w)
  PROVE  \A v \in Workers : HasCause(req[v])'
<1>1. req \in [Workers -> Request]
  BY DEF IInv, TypeOK
<1>2. ~ IsIdle(w)
  BY DEF Continue, CreateOrder, CreateSession, CreateSessionFails, SaveSession,
         RetrieveSession, RetrieveSessionGivesUp, StripeRefund, StripeRefundFails,
         ReadSettings, RecordIntent, MarkPaidRead, MarkPaidCommit, MarkFailedRead,
         MarkFailedCommit, ApplyRefund, ApplyDisputeOpened, ApplyDisputeWon, FindOrder,
         Finish, ReleaseClaim, At, IsIdle
<1>3. req[w] \in Running /\ req[w].order \in Orders /\ HasCause(req[w])
  BY <1>2, BusyIsRunning DEF IInv, Running, CauseInv
<1>4. \A v \in Workers : v # w => req'[v] = req[v]
  BY <1>1 DEF Continue, CreateOrder, CreateSession, CreateSessionFails, SaveSession,
         RetrieveSession, RetrieveSessionGivesUp, StripeRefund, StripeRefundFails,
         ReadSettings, RecordIntent, MarkPaidRead, MarkPaidCommit, MarkFailedRead,
         MarkFailedCommit, ApplyRefund, ApplyDisputeOpened, ApplyDisputeWon, FindOrder,
         Finish, ReleaseClaim, Transaction, Apply, NotApplied, RolledBack, Goto, Done
<1>5. \A v \in Workers : v # w => HasCause(req[v])'
  BY <1>4, CauseStays DEF Carries
<1>6. ASSUME NEW step \in Heedless, Goto(w, step) PROVE HasCause(req[w])'
  BY <1>1, <1>3, <1>6, CauseStays DEF Goto, Carries, Running
<1>7. ASSUME Done(w) PROVE HasCause(req[w])'
  <2>1. req'[w] = Idle
    BY <1>1, <1>7 DEF Done
  <2> QED
    BY <2>1, CauseStays
<1>8. ASSUME RetrieveSession(w) PROVE HasCause(req[w])'
  BY <1>1, <1>3, <1>8, CauseStays DEF RetrieveSession, Carries, Running, Heedless
<1>9. ASSUME StripeRefund(w) PROVE HasCause(req[w])'
  <2>1. req'[w] = [req[w] EXCEPT !.step = "applyRefund"]
    BY <1>1, <1>9 DEF StripeRefund, Goto
  <2>2. PICK o \in Orders : o = req[w].order
    BY <1>3
  <2>3. FullyRefunded(o)'
    BY <1>9, <2>2 DEF StripeRefund, FullyRefunded, stripeVars, IInv, TypeOK, StripeRecord
  <2>4. req'[w].step = "applyRefund" /\ req'[w].order = o /\ req'[w].event = req[w].event
    BY <1>3, <2>1, <2>2 DEF Running
  <2>5. Heard(o, req[w].event)
    BY <1>3, <2>2 DEF HasCause
  <2>6. /\ req[w].event = "refunded" => FullyRefunded(o)'
        /\ req[w].event = "disputed" => stripe'[o].dispute # "none"
        /\ req[w].event \in {"won", "lost"} => stripe'[o].dispute = req[w].event
    BY <2>5 DEF Heard, StripeKeeps
  <2> QED
    BY <2>3, <2>4, <2>6 DEF HasCause, Heard, GivenBack
<1>10. ASSUME FindOrder(w), ~ Goto(w, "finish") PROVE HasCause(req[w])'
  <2>1. PICK o \in Orders : o = req[w].order
    BY <1>3
  <2>2. PICK event \in {"refunded", "disputed", "won", "lost"} : event = req[w].event
    BY <1>3, <1>10 DEF FindOrder, At, HasCause
  <2>3. PICK step : Goto(w, step) /\ step = CASE event = "disputed" -> "applyDisputeOpened"
                                             [] event = "won" -> "applyDisputeWon"
                                             [] OTHER -> "applyRefund"
    BY <1>10, <2>2 DEF FindOrder
  <2>4. /\ req'[w].step = step /\ req'[w].order = o /\ req'[w].event = event
    BY <1>1, <1>3, <2>1, <2>2, <2>3 DEF Goto, Running
  <2>5. Heard(o, event)
    BY <1>3, <2>1, <2>2 DEF HasCause
  <2>6. /\ event = "refunded" => FullyRefunded(o)'
        /\ event = "disputed" => stripe'[o].dispute # "none"
        /\ event \in {"won", "lost"} => stripe'[o].dispute = event
    BY <2>5 DEF Heard, StripeKeeps
  <2>7. /\ step = "applyRefund" => event \in {"refunded", "lost"}
        /\ step = "applyDisputeOpened" => event = "disputed"
        /\ step = "applyDisputeWon" => event = "won"
        /\ step # "findOrder"
    BY <2>3
  <2> QED
    BY <2>4, <2>6, <2>7 DEF HasCause, Heard, GivenBack
<1>11. \/ Done(w) \/ \E step \in Heedless : Goto(w, step)
       \/ RetrieveSession(w) \/ StripeRefund(w) \/ (FindOrder(w) /\ ~ Goto(w, "finish"))
  BY DEF Continue, CreateOrder, CreateSession, CreateSessionFails, SaveSession,
         RetrieveSessionGivesUp, StripeRefundFails,
         ReadSettings, RecordIntent, MarkPaidRead, MarkPaidCommit, MarkFailedRead,
         MarkFailedCommit, ApplyRefund, ApplyDisputeOpened, ApplyDisputeWon,
         Finish, ReleaseClaim, Transaction, Apply, NotApplied, RolledBack, Heedless
<1>12. HasCause(req[w])'
  BY <1>6, <1>7, <1>8, <1>9, <1>10, <1>11
<1> QED
  BY <1>5, <1>12

LEMMA RequestsHaveCause ==
  ASSUME IInv, CauseInv, [Next]_vars
  PROVE  \A v \in Workers : HasCause(req[v])'
<1>1. StripeKeeps
  BY StepKeeps
<1>2. CASE UNCHANGED req
  BY <1>1, <1>2, CauseStays DEF Carries
<1>3. ASSUME NEW w \in Workers, Fails(w) PROVE \A v \in Workers : HasCause(req[v])'
  <2>1. Done(w) \/ Goto(w, "failed")
    BY <1>3 DEF Fails, Throw, ReleaseClaimFails, Crash
  <2>2. req \in [Workers -> Request] /\ (req[w] = Idle \/ req[w] \in Running)
    BY DEF IInv, TypeOK, Request
  <2>3. ASSUME NEW v \in Workers PROVE Carries(v) \/ req'[v] = Idle
    <3>1. CASE v # w
      BY <2>1, <2>2, <3>1 DEF Done, Goto, Carries
    <3>2. CASE v = w /\ Done(w)
      BY <2>2, <3>2 DEF Done
    <3>3. CASE v = w /\ Goto(w, "failed")
      BY <2>2, <3>3 DEF Goto, Carries, Heedless, Idle, Running
    <3> QED
      BY <2>1, <3>1, <3>2, <3>3
  <2> QED
    BY <1>1, <2>3, CauseStays
<1>4. CASE Outside
  BY <1>2, <1>4 DEF Outside, SetAutoApprove, CustomerPays, SessionExpires, PartialRefund,
                    DashboardRefund, DisputeOpens, DisputeCloses
<1>5. ASSUME NEW w \in Workers, Start(w) PROVE UNCHANGED stripeVars
  BY <1>5 DEF Start, StartCheckout, StartConfirm, StartApprove, StartRefund, ClaimEvent,
              AckDuplicate, stripeVars
<1> QED
  BY <1>1, <1>2, <1>3, <1>4, <1>5, StartHasCause, ContinueHasCause DEF Next, vars

(* A step that moves an order's status has cause to.                       *)
LEMMA MovesAreCaused ==
  ASSUME IInv, CauseInv, [Next]_vars, NEW o \in Orders, Status(o)' # Status(o)
  PROVE  /\ Status(o)' = "REFUNDED" => GivenBack(o)
         /\ Status(o)' = "DISPUTED" => stripe[o].dispute # "none"
         /\ Status(o)' = "PAID" /\ Status(o) # "PENDING" => stripe[o].dispute = "won"
<1>1. orders \in [Orders -> OrderRow]
  BY DEF IInv, TypeOK
<1>2. PICK w \in Workers : Continue(w)
  BY <1>1 DEF Next, vars, Outside, SetAutoApprove, CustomerPays, SessionExpires, PartialRefund,
       DashboardRefund, DisputeOpens, DisputeCloses, Start, StartCheckout, StartConfirm,
       StartApprove, StartRefund, ClaimEvent, AckDuplicate, Fails, Throw, ReleaseClaimFails,
       Crash, dbVars, Status
<1>3. HasCause(req[w])
  BY DEF CauseInv
<1>4. ASSUME NEW from, NEW row, NEW access, Transaction(w, from, row, access)
      PROVE  req[w].order = o /\ Status(o) \in from /\ Status(o)' = row.status
  BY <1>1, <1>4, TransactionRows DEF Applied, Untouched, Status
<1>5. CASE MarkPaidCommit(w)
  <2>1. Transaction(w, {"PENDING"}, PaidRow(w), "ACTIVE")
    BY <1>5 DEF MarkPaidCommit
  <2>2. o = req[w].order /\ Status(o) = "PENDING" /\ Status(o)' = PaidRow(w).status
    BY <1>4, <2>1
  <2>3. PaidRow(w).status = "PAID"
    BY <2>2, PaidRowType DEF IInv
  <2> QED
    BY <2>2, <2>3
<1>6. orders[o] \in OrderRow
      /\ \A s \in OrderStatus : [orders[o] EXCEPT !.status = s].status = s
  BY <1>1 DEF OrderRow
<1>7. CASE MarkFailedCommit(w)
  <2>1. Transaction(w, MarkFailedFrom, [orders[req[w].order] EXCEPT !.status = "FAILED"],
                    enrollments[Purchase[req[w].order]])
    BY <1>7 DEF MarkFailedCommit
  <2>2. Status(o)' = "FAILED"
    BY <1>4, <1>6, <2>1 DEF OrderStatus
  <2> QED
    BY <2>2
<1>8. CASE ApplyRefund(w)
  <2>1. Transaction(w, RefundableFrom(req[w].event),
                    [orders[req[w].order] EXCEPT !.status = "REFUNDED"],
                    RefundedAccess(enrollments[Purchase[req[w].order]]))
    BY <1>8 DEF ApplyRefund
  <2>2. Status(o)' = "REFUNDED" /\ req[w].order = o
    BY <1>4, <1>6, <2>1 DEF OrderStatus
  <2> QED
    BY <1>3, <1>8, <2>2 DEF ApplyRefund, At, HasCause
<1>9. CASE ApplyDisputeOpened(w)
  <2>1. Transaction(w, {"PAID"}, [orders[req[w].order] EXCEPT !.status = "DISPUTED"],
                    SuspendedAccess(enrollments[Purchase[req[w].order]]))
    BY <1>9 DEF ApplyDisputeOpened
  <2>2. Status(o)' = "DISPUTED" /\ req[w].order = o
    BY <1>4, <1>6, <2>1 DEF OrderStatus
  <2> QED
    BY <1>3, <1>9, <2>2 DEF ApplyDisputeOpened, At, HasCause
<1>10. CASE ApplyDisputeWon(w)
  <2>1. Transaction(w, {"DISPUTED"}, [orders[req[w].order] EXCEPT !.status = "PAID"],
                    RestoredAccess(enrollments[Purchase[req[w].order]]))
    BY <1>10 DEF ApplyDisputeWon
  <2>2. Status(o)' = "PAID" /\ req[w].order = o
    BY <1>4, <1>6, <2>1 DEF OrderStatus
  <2> QED
    BY <1>3, <1>10, <2>2 DEF ApplyDisputeWon, At, HasCause
<1>11. CASE CreateOrder(w)
  <2>1. Status(o)' = "PENDING"
    BY <1>1, <1>11 DEF CreateOrder, Status, OrderRow
  <2> QED
    BY <2>1
<1>12. CASE SaveSession(w) \/ RecordIntent(w)
  <2>1. PICK p \in Orders : p = req[w].order
    <3>1. ~ IsIdle(w)
      BY <1>12 DEF SaveSession, RecordIntent, At, IsIdle
    <3> QED
      BY <3>1, BusyIsRunning DEF IInv, Running
  <2>2. orders'[o].status = orders[o].status
    BY <1>1, <1>12, <2>1 DEF SaveSession, RecordIntent, OrderRow
  <2> QED
    BY <2>2 DEF Status
<1>13. \/ MarkPaidCommit(w) \/ MarkFailedCommit(w) \/ ApplyRefund(w) \/ ApplyDisputeOpened(w)
       \/ ApplyDisputeWon(w) \/ CreateOrder(w) \/ SaveSession(w) \/ RecordIntent(w)
  <2>1. ASSUME \/ CreateSession(w) \/ CreateSessionFails(w) \/ RetrieveSession(w)
               \/ RetrieveSessionGivesUp(w) \/ StripeRefund(w) \/ StripeRefundFails(w)
               \/ ReadSettings(w) \/ MarkPaidRead(w) \/ MarkFailedRead(w) \/ FindOrder(w)
               \/ Finish(w) \/ ReleaseClaim(w)
        PROVE  orders' = orders
    BY <2>1 DEF CreateSession, CreateSessionFails, RetrieveSession, RetrieveSessionGivesUp,
         StripeRefund, StripeRefundFails, ReadSettings, MarkPaidRead, MarkFailedRead, FindOrder,
         Finish, ReleaseClaim, dbVars
  <2>2. orders' # orders
    BY DEF Status
  <2> QED
    BY <1>2, <2>1, <2>2 DEF Continue
<1> QED
  BY <1>5, <1>7, <1>8, <1>9, <1>10, <1>11, <1>12, <1>13

(* What is said of one order goes on being so: by what Stripe keeps, and   *)
(* by the cause of the step that moves it.                                 *)
LEMMA CausedStays ==
  ASSUME IInv, CauseInv, IInv', LogTellsStatus, [Next]_vars, NEW o \in Orders
  PROVE  Caused(o)'
<1>1. Caused(o) /\ OrderOK(o)' /\ StripeKeeps
  BY StepKeeps DEF CauseInv, IInv
<1>2. Status(o)' \in {"PAID", "DISPUTED", "REFUNDED"} => PaidFor(o)'
  BY <1>1 DEF OrderOK
<1>3. CASE Untouched
  <2>1. Status(o)' = Status(o) /\ (WasDisputed(o)' <=> WasDisputed(o))
    BY <1>3 DEF Untouched, WasDisputed
  <2> QED
    BY <1>1, <1>2, <2>1 DEF Caused, StripeKeeps, GivenBack
<1>4. ASSUME NEW p \in Orders, Placed(p) PROVE Caused(o)'
  <2>1. Status(o)' = "PENDING" \/ Status(o)' = Status(o)
    BY <1>4, PlacedEffect
  <2>2. WasDisputed(o)' <=> WasDisputed(o)
    BY <1>4 DEF Placed, WasDisputed
  <2> QED
    BY <1>1, <1>2, <2>1, <2>2 DEF Caused, StripeKeeps, GivenBack
<1>5. ASSUME NEW p \in Orders, NEW event \in EventTypes \cup {NoEvent}, NEW from, NEW to,
             NEW access, Moved(p, from, to, event, access),
             to = "FAILED" => Session(p) = "EXPIRED",
             to = "PAID" => from = {"PENDING"} \/ from = {"DISPUTED"},
             to = "REFUNDED" => from = {"PAID", "DISPUTED"},
             to = "DISPUTED" => from = {"PAID"},
             to \in {"PAID", "REFUNDED", "DISPUTED", "FAILED"}
      PROVE  Caused(o)'
  <2>1. Effect(p, from, to, event, access)
    BY <1>5, MovedEffect
  <2>2. CASE o # p
    <3>1. Status(o)' = Status(o) /\ (WasDisputed(o)' <=> WasDisputed(o))
      BY <2>1, <2>2 DEF Effect, WasDisputed
    <3> QED
      BY <1>1, <1>2, <3>1 DEF Caused, StripeKeeps, GivenBack
  <2>3. CASE o = p
    <3>1. Status(o)' = to /\ Status(o) \in from
      BY <2>1, <2>3 DEF Effect
    <3>2. CASE to = "FAILED"
      BY <1>1, <1>5, <2>3, <3>1, <3>2 DEF Caused, StripeKeeps
    <3>3. CASE to \in {"REFUNDED", "DISPUTED"}
      <4>1. Status(o)' # Status(o)
        BY <1>5, <3>1, <3>3
      <4>2. /\ to = "REFUNDED" => GivenBack(o)
            /\ to = "DISPUTED" => stripe[o].dispute # "none"
        BY <3>1, <4>1, MovesAreCaused
      <4> QED
        BY <1>1, <1>2, <3>1, <3>3, <4>2 DEF Caused, StripeKeeps, GivenBack
    <3>4. CASE to = "PAID" /\ from = {"DISPUTED"}
      <4>1. stripe[o].dispute = "won"
        BY <3>1, <3>4, MovesAreCaused
      <4> QED
        BY <1>1, <1>2, <3>1, <3>4, <4>1 DEF Caused, StripeKeeps
    <3>5. CASE to = "PAID" /\ from = {"PENDING"}
      <4>1. LogOK(StatusLog(o), Status(o)) /\ Status(o) = "PENDING"
        BY <3>1, <3>5 DEF LogTellsStatus, LogOK
      <4>2. StatusLog(o) = <<>>
        BY <4>1, LogOfStatus
      <4>3. payments[o] \in Seq(PaymentRow)
        BY DEF IInv, TypeOK
      <4>4. DOMAIN payments[o] = {}
        BY <4>2, <4>3 DEF StatusLog
      <4>5. ~ WasDisputed(o)'
        <5>1. payments'[o] = Append(payments[o], [status |-> "PAID", event |-> event])
              /\ [status |-> "PAID", event |-> event] \in PaymentRow
          BY <2>1, <2>3, <3>5 DEF Effect
        <5>2. \A i \in DOMAIN payments'[o] :
                \/ payments'[o][i] = [status |-> "PAID", event |-> event]
                \/ i \in DOMAIN payments[o]
          BY <4>3, <5>1, AppendRow
        <5> QED
          BY <4>4, <5>2 DEF WasDisputed
      <4> QED
        BY <1>2, <3>1, <3>5, <4>5 DEF Caused
    <3> QED
      BY <1>5, <3>2, <3>3, <3>4, <3>5
  <2> QED
    BY <2>2, <2>3
<1> QED
  BY <1>3, <1>4, <1>5, RowSteps DEF RowStep

(* Whatever Stripe delivers, in whatever order and however often, whatever *)
(* throws or dies and whoever approves by hand, an order never claims more *)
(* than Stripe holds: it is paid for, its refund or lost dispute is there, *)
(* a dispute it shows was opened, and access given back after a dispute    *)
(* was won (handleStripeWebhookEvent and refundOrder act on the event or   *)
(* the answer they hold, never on the order's status alone).  A late or    *)
(* lost event can leave an order behind Stripe; it cannot put it ahead.    *)
THEOREM NeverAheadOfStripe == Spec => [](\A o \in Orders : Caused(o))
<1>1. Init => CauseInv
  <2> SUFFICES ASSUME Init PROVE CauseInv
    OBVIOUS
  <2>1. \A o \in Orders : DOMAIN emitted[o] = {} /\ Status(o) = "NONE"
    BY DEF Init, Status
  <2>2. \A w \in Workers : HasCause(req[w])
    BY DEF Init, HasCause, Heard, Idle, NoEvent
  <2> QED
    BY <2>1, <2>2 DEF CauseInv, Caused
<1>2. IInv /\ IInv' /\ LogTellsStatus /\ CauseInv /\ [Next]_vars => CauseInv'
  <2> SUFFICES ASSUME IInv, IInv', LogTellsStatus, CauseInv, [Next]_vars PROVE CauseInv'
    OBVIOUS
  <2>1. \A o \in Orders : \A i \in DOMAIN emitted'[o] : Heard(o, emitted[o][i])'
    BY StepKeeps, EmittedIsHeard
  <2> QED
    BY <2>1, RequestsHaveCause, CausedStays DEF CauseInv
<1>3. CauseInv => \A o \in Orders : Caused(o)
  BY DEF CauseInv
<1> QED
  BY <1>1, <1>2, <1>3, Inductive, LogIsTheStory, PTL DEF Spec

-----------------------------------------------------------------------------
(* Agreement with Stripe *)

(* In an orderly environment Stripe waits for the acknowledgement of an    *)
(* order's earlier events and does not deliver one while it is handled,    *)
(* payments are approved as they come and by nobody else, and a call that  *)
(* fails throws: no process dies, and a claim can be released.             *)
Orderly ==
  /\ OrderedDelivery /\ ~ Redelivery
  /\ ~ AdminApproves /\ AutoApproveModes \subseteq {TRUE}
  /\ Faults \subseteq {"throw"}

(* An order's events say what Stripe holds, each once and in their order.  *)
Has(o, event) == \E i \in DOMAIN emitted[o] : emitted[o][i] = event
AfterPayment == {"partRefund", "refunded", "disputed", "won", "lost"}
Comes(o, first, event) ==
  \A i \in DOMAIN emitted[o] :
    emitted[o][i] = event => \E j \in 1..(i - 1) : emitted[o][j] = first
EventsOK(o) ==
  /\ \A i, j \in DOMAIN emitted[o] : emitted[o][i] = emitted[o][j] => i = j
  /\ Has(o, "completed") <=> Session(o) = "COMPLETED"
  /\ Has(o, "expired") <=> Session(o) = "EXPIRED"
  /\ Has(o, "partRefund") => stripe[o].refund # "no"
  /\ Has(o, "refunded") <=> FullyRefunded(o)
  /\ Has(o, "disputed") <=> stripe[o].dispute # "none"
  /\ \A outcome \in {"won", "lost"} : Has(o, outcome) <=> stripe[o].dispute = outcome
  /\ stripe[o].refund # "no" \/ stripe[o].dispute # "none" => Session(o) = "COMPLETED"
  /\ \A event \in AfterPayment : Comes(o, "completed", event)
  /\ \A outcome \in {"won", "lost"} : Comes(o, "disputed", outcome)

(* Acknowledgements follow the order of the events; a claimed event is     *)
(* acknowledged, or in the hands of one request, which came to it in turn. *)
InTurn(o, event) ==
  \E i \in DOMAIN emitted[o] :
    /\ emitted[o][i] = event
    /\ \A j \in 1..(i - 1) : <<o, emitted[o][j]>> \in acked
DeliveriesOK ==
  /\ \A o \in Orders, event \in EventTypes : <<o, event>> \in acked => InTurn(o, event)
  /\ \A w \in Workers : req[w].event # NoEvent =>
       /\ InTurn(req[w].order, req[w].event)
       /\ <<req[w].order, req[w].event>> \in stripeEvents \ acked
  /\ \A v, w \in Workers :
       req[v].event # NoEvent /\ req[v].event = req[w].event /\ req[v].order = req[w].order => v = w
  /\ \A o \in Orders, event \in EventTypes :
       <<o, event>> \in stripeEvents => <<o, event>> \in acked \/ InHand(o, event)

(* What an event that has been handled has made of the order's status. *)
Told(o, event) ==
  /\ event = "completed" => Status(o) \notin {"NONE", "PENDING"}
  /\ event = "expired" => Status(o) = "FAILED"
  /\ event = "disputed" => Status(o) \in {"DISPUTED", "REFUNDED"} \/ stripe[o].dispute = "won"
  /\ event = "won" => Status(o) # "DISPUTED"
  /\ event \in {"refunded", "lost"} => Status(o) = "REFUNDED"

(* The steps that handle an event, and what a request knows at them. *)
Handling(event) ==
  {"finish", "failed"} \cup
  CASE event = "completed" -> {"readSettings", "markPaidRead", "markPaidCommit"}
    [] event = "expired" -> {"markFailedRead", "markFailedCommit"}
    [] event = "disputed" -> {"findOrder", "applyDisputeOpened"}
    [] event = "won" -> {"findOrder", "applyDisputeWon"}
    [] event \in {"refunded", "lost"} -> {"findOrder", "applyRefund"}
    [] OTHER -> {}
HandlingOK(r) ==
  /\ r.event # NoEvent => r.step \in Handling(r.event)
  /\ r.step = "finish" => Told(r.order, r.event)
  /\ r.event = NoEvent =>
       /\ r.step = "applyRefund" => FullyRefunded(r.order) \/ r.order \in FreeOrders
       /\ r.step \notin {"findOrder", "applyDisputeOpened", "applyDisputeWon", "failed"}
  /\ r.step \in {"readSettings", "markPaidRead", "markPaidCommit"} =>
       r.intent \/ r.order \in FreeOrders
  /\ r.step # "recordIntent"

(* An order has its payment intent once it is paid, and the status that    *)
(* Stripe has given it cause for.                                          *)
CauseOK(o) ==
  o \notin FreeOrders =>
    /\ Status(o) \in {"PAID", "DISPUTED", "REFUNDED"} => orders[o].intent
    /\ Status(o) = "FAILED" => Session(o) = "EXPIRED"
    /\ Status(o) = "REFUNDED" => FullyRefunded(o) \/ stripe[o].dispute = "lost"
    /\ Status(o) = "DISPUTED" => stripe[o].dispute # "none"

LedgerInv ==
  /\ \A o \in Orders : EventsOK(o)
  /\ DeliveriesOK
  /\ autoApprove = TRUE
  /\ \A o \in Orders, event \in EventTypes : <<o, event>> \in acked => Told(o, event)
  /\ \A w \in Workers : HandlingOK(req[w])
  /\ \A o \in Orders : CauseOK(o)

(* An idle request is none. *)
LEMMA IdleIs ==
  ASSUME TypeOK, NEW w \in Workers, IsIdle(w)
  PROVE  req[w] = Idle
BY DEF TypeOK, Request, Running, IsIdle

(* What an order's session and status say of each other. *)
LEMMA SessionTells ==
  ASSUME Orderly, IInv, LedgerInv, NEW o \in Orders
  PROVE  /\ Session(o) # "NONE" => o \notin FreeOrders /\ Status(o) # "NONE"
         /\ o \notin FreeOrders /\ Status(o) \in {"PAID", "DISPUTED", "REFUNDED"} =>
              Session(o) = "COMPLETED"
         /\ Session(o) = "COMPLETED" => Status(o) # "FAILED"
<1>1. OrderOK(o) /\ CauseOK(o)
  BY DEF IInv, LedgerInv
<1> QED
  BY <1>1 DEF OrderOK, CauseOK, PaidFor, Orderly

(* What has come before an event whose turn it is. *)
LEMMA TurnTells ==
  ASSUME LedgerInv, NEW o \in Orders, NEW event \in EventTypes, InTurn(o, event)
  PROVE  /\ Has(o, event)
         /\ event = "expired" => Session(o) = "EXPIRED"
         /\ event # "expired" => Session(o) = "COMPLETED"
         /\ event \in AfterPayment => <<o, "completed">> \in acked
         /\ event \in {"won", "lost"} => <<o, "disputed">> \in acked
<1>1. EventsOK(o)
  BY DEF LedgerInv
<1>2. Has(o, event)
  BY DEF InTurn, Has
<1>3. event \in AfterPayment \/ event \in {"completed", "expired"}
  BY DEF EventTypes, AfterPayment
<1>4. event \in AfterPayment => Session(o) = "COMPLETED"
  BY <1>1, <1>2 DEF EventsOK, AfterPayment, FullyRefunded
<1>5. event \in AfterPayment => <<o, "completed">> \in acked
  BY <1>1 DEF EventsOK, InTurn, Comes
<1>6. event \in {"won", "lost"} => <<o, "disputed">> \in acked
  BY <1>1 DEF EventsOK, InTurn, Comes
<1>7. event = "expired" => Session(o) = "EXPIRED"
  BY <1>1, <1>2 DEF EventsOK
<1>8. event = "completed" => Session(o) = "COMPLETED"
  BY <1>1, <1>2 DEF EventsOK
<1>9. event # "expired" => Session(o) = "COMPLETED"
  BY <1>3, <1>4, <1>8
<1> QED
  BY <1>2, <1>5, <1>6, <1>7, <1>9

(* An event has been handled, up to its acknowledgement. *)
Handled(o, event) ==
  \/ <<o, event>> \in acked
  \/ \E w \in Workers : req[w].step = "finish" /\ req[w].order = o /\ req[w].event = event

LEMMA HandledIsTold ==
  ASSUME LedgerInv, NEW o \in Orders, NEW event \in EventTypes, Handled(o, event)
  PROVE  InTurn(o, event) /\ Told(o, event)
<1>1. CASE <<o, event>> \in acked
  BY <1>1 DEF LedgerInv, DeliveriesOK
<1>2. ASSUME NEW w \in Workers, req[w].step = "finish", req[w].order = o, req[w].event = event
      PROVE  InTurn(o, event) /\ Told(o, event)
  BY <1>2 DEF LedgerInv, DeliveriesOK, HandlingOK, EventTypes, NoEvent
<1> QED
  BY <1>1, <1>2 DEF Handled

(* The ways a status moves leave true what has been told. *)
ToldMove(o, event) ==
  \/ Status(o)' = Status(o)
  \/ Status(o) = "NONE"
  \/ Status(o) = "PENDING" /\ Status(o)' = "PAID"
  \/ Status(o)' = "FAILED" /\ Session(o) = "EXPIRED"
  \/ Status(o) \in {"PAID", "DISPUTED"} /\ Status(o)' = "REFUNDED"
  \/ Status(o) = "PAID" /\ Status(o)' = "DISPUTED" /\ event # "won"
  \/ Status(o) = "DISPUTED" /\ Status(o)' = "PAID" /\ stripe[o].dispute = "won"

LEMMA ToldStays ==
  ASSUME Orderly, IInv, LedgerInv, NEW o \in Orders, NEW event \in EventTypes,
         InTurn(o, event), Told(o, event), stripe' = stripe, ToldMove(o, event),
         Status(o) = "PENDING" /\ Status(o)' = "PAID" => Session(o) # "EXPIRED"
  PROVE  Told(o, event)'
<1>1. /\ event = "expired" => Session(o) = "EXPIRED"
      /\ event # "expired" => Session(o) = "COMPLETED"
  BY TurnTells
<1>2. o \notin FreeOrders /\ Status(o) # "NONE"
  BY <1>1, SessionTells
<1>3. CASE event = "expired"
  <2>1. Status(o) = "FAILED"
    BY <1>3 DEF Told
  <2>2. Status(o)' = "FAILED"
    BY <2>1 DEF ToldMove
  <2> QED
    BY <1>3, <2>2 DEF Told
<1>4. CASE event # "expired"
  BY <1>1, <1>2, <1>4 DEF Told, ToldMove
<1> QED
  BY <1>3, <1>4

(* A step of a request that delivers nothing and hears nothing of Stripe. *)
LEMMA LedgerRequest ==
  ASSUME IInv, LedgerInv, NEW w \in Workers,
         \A v \in Workers : v # w => req'[v] = req[v],
         req'[w].event = req[w].event,
         req[w].event # NoEvent => req'[w].order = req[w].order,
         UNCHANGED <<stripe, emitted, stripeEvents, acked, autoApprove>>,
         \A o \in Orders, event \in EventTypes : Handled(o, event) => Told(o, event)',
         HandlingOK(req[w])', \A o \in Orders : CauseOK(o)'
  PROVE  LedgerInv'
<1>1. \A o \in Orders : EventsOK(o)'
  BY DEF LedgerInv, EventsOK, Has, Comes, Session, FullyRefunded
<1>2. DeliveriesOK'
  <2>1. \A o, event : InTurn(o, event)' <=> InTurn(o, event)
    BY DEF InTurn
  <2>2. \A v \in Workers : /\ req'[v].event = req[v].event
                           /\ req[v].event # NoEvent => req'[v].order = req[v].order
    OBVIOUS
  <2>3. \A o \in Orders, event \in EventTypes : InHand(o, event)' <=> InHand(o, event)
    BY <2>2 DEF InHand, EventTypes, NoEvent
  <2> QED
    BY <2>1, <2>2, <2>3 DEF LedgerInv, DeliveriesOK
<1>3. \A o \in Orders, event \in EventTypes : (<<o, event>> \in acked)' => Told(o, event)'
  BY DEF Handled
<1>4. \A v \in Workers : HandlingOK(req[v])'
  <2> SUFFICES ASSUME NEW v \in Workers, v # w PROVE HandlingOK(req[v])'
    OBVIOUS
  <2>1. req'[v] = req[v] /\ HandlingOK(req[v])
    BY DEF LedgerInv
  <2>2. req[v].step = "finish" => Told(req[v].order, req[v].event)'
    <3>1. CASE req[v].event \in EventTypes /\ req[v].order \in Orders
      BY <3>1 DEF Handled
    <3>2. CASE req[v].event = NoEvent
      BY <3>2 DEF Told, NoEvent
    <3>3. req[v] = Idle \/ req[v] \in Running
      BY DEF IInv, TypeOK, Request
    <3> QED
      BY <3>1, <3>2, <3>3 DEF Idle, Running
  <2> QED
    BY <2>1, <2>2 DEF HandlingOK, FullyRefunded
<1> QED
  BY <1>1, <1>2, <1>3, <1>4 DEF LedgerInv

(* A step of a request that writes no order either. *)
LEMMA LedgerQuiet ==
  ASSUME IInv, LedgerInv, NEW w \in Workers,
         \A v \in Workers : v # w => req'[v] = req[v],
         req'[w].event = req[w].event,
         req[w].event # NoEvent => req'[w].order = req[w].order,
         UNCHANGED <<stripe, emitted, stripeEvents, acked, autoApprove>>,
         \A o \in Orders : Status(o)' = Status(o) /\ (orders[o].intent => orders'[o].intent),
         HandlingOK(req[w])'
  PROVE  LedgerInv'
<1>1. \A o \in Orders, event \in EventTypes : Handled(o, event) => Told(o, event)'
  BY HandledIsTold DEF Told
<1>2. \A o \in Orders : CauseOK(o)'
  BY DEF LedgerInv, CauseOK, Session, FullyRefunded
<1> QED
  BY <1>1, <1>2, LedgerRequest

(* Such a step, as Goto and Done make it. *)
LEMMA LedgerGoto ==
  ASSUME IInv, LedgerInv, NEW w \in Workers, ~ IsIdle(w), NEW step, Goto(w, step),
         UNCHANGED <<orders, stripe, emitted, stripeEvents, acked, autoApprove>>,
         req[w].event # NoEvent => step \in Handling(req[w].event),
         step = "finish" => Told(req[w].order, req[w].event),
         req[w].event = NoEvent =>
           /\ step = "applyRefund" => FullyRefunded(req[w].order) \/ req[w].order \in FreeOrders
           /\ step \notin {"findOrder", "applyDisputeOpened", "applyDisputeWon", "failed"},
         step \in {"readSettings", "markPaidRead", "markPaidCommit"} =>
           req[w].intent \/ req[w].order \in FreeOrders,
         step # "recordIntent"
  PROVE  LedgerInv'
<1>1. req[w] \in Running
  BY BusyIsRunning DEF IInv
<1>2. /\ req'[w].step = step /\ req'[w].order = req[w].order
      /\ req'[w].event = req[w].event /\ req'[w].intent = req[w].intent
      /\ \A v \in Workers : v # w => req'[v] = req[v]
  BY <1>1 DEF Goto, IInv, TypeOK, Running
<1>3. \A o : Status(o)' = Status(o)
  BY DEF Status
<1>4. HandlingOK(req[w])'
  BY <1>2, <1>3 DEF HandlingOK, Told, FullyRefunded
<1> QED
  BY <1>2, <1>3, <1>4, LedgerQuiet

LEMMA LedgerDone ==
  ASSUME IInv, LedgerInv, NEW w \in Workers, Done(w), req[w].event = NoEvent,
         UNCHANGED <<stripe, emitted, stripeEvents, acked, autoApprove>>,
         \A o \in Orders : Status(o)' = Status(o) /\ (orders[o].intent => orders'[o].intent)
  PROVE  LedgerInv'
<1>1. req'[w] = Idle /\ \A v \in Workers : v # w => req'[v] = req[v]
  BY DEF Done, IInv, TypeOK
<1>2. HandlingOK(req[w])'
  BY <1>1 DEF HandlingOK, Idle, NoEvent
<1> QED
  BY <1>1, <1>2, LedgerQuiet DEF Idle

(* A transaction whose refusal says that the event has had its effect, and *)
(* whose application is one of ToldMove's and has a cause.                 *)
LEMMA LedgerTransaction ==
  ASSUME Orderly, IInv, LedgerInv, NEW w \in Workers, ~ IsIdle(w), NEW from, NEW row \in OrderRow,
         NEW access, Transaction(w, from, row, access),
         Status(req[w].order) \notin from => Told(req[w].order, req[w].event),
         Status(req[w].order) \in from =>
           /\ \A event \in EventTypes : Handled(req[w].order, event) =>
                \/ row.status = Status(req[w].order)
                \/ Status(req[w].order) = "PENDING" /\ row.status = "PAID"
                     /\ Session(req[w].order) # "EXPIRED"
                \/ row.status = "FAILED" /\ Session(req[w].order) = "EXPIRED"
                \/ Status(req[w].order) \in {"PAID", "DISPUTED"} /\ row.status = "REFUNDED"
                \/ Status(req[w].order) = "PAID" /\ row.status = "DISPUTED" /\ event # "won"
                \/ Status(req[w].order) = "DISPUTED" /\ row.status = "PAID"
                     /\ stripe[req[w].order].dispute = "won"
           /\ req[w].event = "completed" => row.status \notin {"NONE", "PENDING"}
           /\ req[w].event = "expired" => row.status = "FAILED"
           /\ req[w].event = "disputed" => row.status = "DISPUTED"
           /\ req[w].event = "won" => row.status # "DISPUTED"
           /\ req[w].event \in {"refunded", "lost"} => row.status = "REFUNDED"
           /\ req[w].order \notin FreeOrders =>
                /\ row.status \in {"PAID", "DISPUTED", "REFUNDED"} => row.intent
                /\ row.status = "FAILED" => Session(req[w].order) = "EXPIRED"
                /\ row.status = "REFUNDED" =>
                     FullyRefunded(req[w].order) \/ stripe[req[w].order].dispute = "lost"
                /\ row.status = "DISPUTED" => stripe[req[w].order].dispute # "none"
  PROVE  LedgerInv'
<1> DEFINE o == req[w].order
<1>1. req[w] \in Running /\ o \in Orders
  BY BusyIsRunning DEF IInv, Running
<1>2. UNCHANGED <<stripe, emitted, stripeEvents, acked, autoApprove>>
  BY DEF Transaction, stripeVars
<1>3. orders \in [Orders -> OrderRow] /\ req \in [Workers -> Request]
  BY DEF IInv, TypeOK
<1>4. HandlingOK(req[w])
  BY DEF LedgerInv
<1>5. CASE NotApplied(w, from)
  <2>1. Goto(w, "finish") /\ Told(o, req[w].event) /\ UNCHANGED orders
    BY <1>5 DEF NotApplied, Status, dbVars
  <2> QED
    BY <1>2, <2>1, LedgerGoto DEF Handling
<1>6. CASE RolledBack(w, from)
  <2>1. Goto(w, "failed") /\ req[w].event # NoEvent /\ UNCHANGED orders
    BY <1>6 DEF RolledBack, Logged, dbVars
  <2> QED
    BY <1>2, <2>1, LedgerGoto DEF Handling
<1>7. CASE Apply(w, from, row, access)
  <2>1. Status(o) \in from /\ orders' = [orders EXCEPT ![o] = row] /\ Goto(w, "finish")
    BY <1>7 DEF Apply, Status
  <2>2. /\ req'[w].step = "finish" /\ req'[w].order = o /\ req'[w].event = req[w].event
        /\ \A v \in Workers : v # w => req'[v] = req[v]
    BY <1>1, <1>3, <2>1 DEF Goto, Running
  <2>3. orders'[o] = row /\ \A p \in Orders : p # o => orders'[p] = orders[p]
    BY <1>1, <1>3, <2>1
  <2>4. ASSUME NEW p \in Orders, NEW event \in EventTypes, Handled(p, event)
        PROVE  Told(p, event)'
    <3>1. InTurn(p, event) /\ Told(p, event)
      BY <2>4, HandledIsTold
    <3>2. CASE p = o
      <4>1. ToldMove(p, event)
        BY <2>1, <2>3, <2>4, <3>2 DEF ToldMove, Status
      <4>2. Status(p) = "PENDING" /\ Status(p)' = "PAID" => Session(p) # "EXPIRED"
        BY <2>1, <2>3, <2>4, <3>2 DEF Status
      <4> QED
        BY <1>2, <3>1, <4>1, <4>2, ToldStays
    <3>3. CASE p # o
      <4>1. Status(p)' = Status(p)
        BY <2>3, <3>3 DEF Status
      <4> QED
        BY <1>2, <3>1, <4>1 DEF Told
    <3> QED
      BY <3>2, <3>3
  <2>5. ASSUME NEW p \in Orders
        PROVE  CauseOK(p)'
    <3>1. CASE p = o
      BY <1>2, <2>1, <2>3, <3>1 DEF CauseOK, Status, Session, FullyRefunded
    <3>2. CASE p # o
      BY <1>2, <2>3, <3>2 DEF LedgerInv, CauseOK, Status, Session, FullyRefunded
    <3> QED
      BY <3>1, <3>2
  <2>6. Told(req[w].order, req[w].event)'
    BY <2>1, <2>2, <2>3 DEF Told, Status
  <2>7. HandlingOK(req[w])'
    <3>1. req[w].event # NoEvent => "finish" \in Handling(req[w].event)
      BY DEF Handling
    <3> QED
      BY <2>2, <2>6, <3>1 DEF HandlingOK, Told
  <2> QED
    BY <1>2, <2>2, <2>4, <2>5, <2>7, LedgerRequest
<1> QED
  BY <1>5, <1>6, <1>7 DEF Transaction

(* What a request that is handling an event knows of it. *)
LEMMA RequestTells ==
  ASSUME Orderly, IInv, LedgerInv, NEW w \in Workers, ~ IsIdle(w)
  PROVE  /\ req[w] \in Running /\ req[w].order \in Orders
         /\ RequestOK(req[w]) /\ HandlingOK(req[w])
         /\ req[w].event # NoEvent =>
              /\ req[w].event \in EventTypes
              /\ InTurn(req[w].order, req[w].event)
              /\ <<req[w].order, req[w].event>> \notin acked
<1>1. req[w] \in Running
  BY BusyIsRunning DEF IInv
<1> QED
  BY <1>1 DEF IInv, Running, LedgerInv, DeliveriesOK

(* An event that comes after the payment finds it recorded. *)
LEMMA PaymentIsKnown ==
  ASSUME Orderly, IInv, LedgerInv, NEW o \in Orders, NEW event \in AfterPayment, InTurn(o, event)
  PROVE  /\ o \notin FreeOrders /\ orders[o].intent
         /\ Status(o) \in {"PAID", "DISPUTED", "REFUNDED"}
<1>1. event \in EventTypes /\ "completed" \in EventTypes /\ event # "expired"
  BY DEF AfterPayment, EventTypes
<1>2. <<o, "completed">> \in acked /\ Session(o) = "COMPLETED"
  BY <1>1, TurnTells
<1>3. Told(o, "completed")
  BY <1>1, <1>2 DEF LedgerInv
<1>4. Status(o) \in OrderStatus
  BY DEF IInv, TypeOK, OrderRow, Status
<1>5. o \notin FreeOrders /\ Status(o) # "FAILED"
  BY <1>2, SessionTells
<1>6. Status(o) \in {"PAID", "DISPUTED", "REFUNDED"}
  BY <1>3, <1>4, <1>5 DEF Told, OrderStatus
<1> QED
  BY <1>5, <1>6 DEF LedgerInv, CauseOK

LEMMA LedgerMarkPaid ==
  ASSUME Orderly, IInv, LedgerInv, NEW w \in Workers, MarkPaidCommit(w)
  PROVE  LedgerInv'
<1> DEFINE o == req[w].order
<1>1. ~ IsIdle(w) /\ req[w].step = "markPaidCommit" /\ Transaction(w, {"PENDING"}, PaidRow(w), "ACTIVE")
  BY DEF MarkPaidCommit, At, IsIdle
<1>2. o \in Orders /\ RequestOK(req[w]) /\ HandlingOK(req[w])
  BY <1>1, RequestTells
<1>3. /\ PaidRow(w) \in OrderRow /\ PaidRow(w).status = "PAID"
      /\ req[w].intent => PaidRow(w).intent
  <2>1. orders[o] \in OrderRow
    BY <1>2 DEF IInv, TypeOK
  <2>2. req[w].intent => PaidRow(w).intent
    BY <2>1 DEF PaidRow, OrderRow
  <2> QED
    BY <1>2, <2>2, PaidRowType DEF IInv
<1>4. req[w].event \in {NoEvent, "completed"}
  <2>1. req[w].event \in EventTypes \cup {NoEvent}
    BY <1>1, RequestTells DEF Running
  <2> QED
    BY <1>1, <1>2, <2>1 DEF HandlingOK, Handling, EventTypes
<1>5. o \in FreeOrders \/ Session(o) = "COMPLETED"
  BY <1>1, <1>2 DEF RequestOK, PaidFor, Orderly
<1>6. \A event \in EventTypes : Handled(o, event) => Session(o) # "EXPIRED"
  <2>1. o \in FreeOrders => Session(o) = "NONE"
    BY <1>2, SessionTells
  <2> QED
    BY <1>5, <2>1
<1>7. Status(o) # "PENDING" => Told(o, req[w].event)
  <2>1. CASE req[w].event = NoEvent
    BY <2>1 DEF Told, NoEvent
  <2>2. CASE req[w].event = "completed"
    <3>1. Session(o) = "COMPLETED"
      BY <1>1, <2>2, RequestTells, TurnTells DEF NoEvent
    <3>2. Status(o) # "NONE"
      BY <1>2, <3>1, SessionTells
    <3> QED
      BY <2>2, <3>2 DEF Told
  <2> QED
    BY <1>4, <2>1, <2>2
<1> HIDE DEF o
<1> QED
  BY <1>1, <1>2, <1>3, <1>4, <1>6, <1>7, LedgerTransaction DEF o, HandlingOK, NoEvent

LEMMA LedgerMarkFailed ==
  ASSUME Orderly, IInv, LedgerInv, NEW w \in Workers, MarkFailedCommit(w)
  PROVE  LedgerInv'
<1> DEFINE o == req[w].order
           row == [orders[o] EXCEPT !.status = "FAILED"]
<1>1. ~ IsIdle(w) /\ req[w].step = "markFailedCommit"
      /\ Transaction(w, MarkFailedFrom, row, enrollments[Purchase[o]])
  BY DEF MarkFailedCommit, At, IsIdle
<1>2. o \in Orders /\ req[w].event = "expired" /\ Session(o) = "EXPIRED"
  BY <1>1, RequestTells DEF RequestOK
<1>3. orders[o] \in OrderRow
  BY <1>2 DEF IInv, TypeOK
<1>4. row \in OrderRow /\ row.status = "FAILED" /\ Status(o) \in MarkFailedFrom
  BY <1>3 DEF OrderRow, OrderStatus, MarkFailedFrom, Status
<1> HIDE DEF o, row
<1> QED
  BY <1>1, <1>2, <1>4, LedgerTransaction DEF o

LEMMA LedgerRefund ==
  ASSUME Orderly, IInv, LedgerInv, NEW w \in Workers, ApplyRefund(w)
  PROVE  LedgerInv'
<1> DEFINE o == req[w].order
           event == req[w].event
           row == [orders[o] EXCEPT !.status = "REFUNDED"]
<1>1. ~ IsIdle(w) /\ req[w].step = "applyRefund"
      /\ Transaction(w, RefundableFrom(event), row, RefundedAccess(enrollments[Purchase[o]]))
  BY DEF ApplyRefund, At, IsIdle
<1>2. /\ o \in Orders /\ HandlingOK(req[w]) /\ event \in EventTypes \cup {NoEvent}
      /\ event # NoEvent => InTurn(o, event)
  BY <1>1, RequestTells DEF Running
<1>3. orders[o] \in OrderRow
  BY <1>2 DEF IInv, TypeOK
<1>4. row \in OrderRow /\ row.status = "REFUNDED" /\ row.intent = orders[o].intent
  BY <1>3 DEF OrderRow, OrderStatus
<1>5. event \in {NoEvent, "refunded", "lost"}
  BY <1>1, <1>2 DEF HandlingOK, Handling, EventTypes
<1>6. RefundableFrom(event) \subseteq {"PAID", "DISPUTED"}
  BY DEF RefundableFrom
<1>7. Status(o) \notin RefundableFrom(event) => Told(o, event)
  <2>1. CASE event = NoEvent
    BY <2>1 DEF Told, NoEvent
  <2>2. CASE event \in {"refunded", "lost"}
    <3>1. event \in AfterPayment /\ event \in EventTypes /\ event # NoEvent
      BY <2>2 DEF AfterPayment, EventTypes, NoEvent
    <3>2. Status(o) \in {"PAID", "DISPUTED", "REFUNDED"}
      BY <1>2, <3>1, PaymentIsKnown
    <3>3. event = "lost" => Status(o) \in {"DISPUTED", "REFUNDED"}
      <4>1. event = "lost" => <<o, "disputed">> \in acked /\ Has(o, "lost")
        BY <1>2, <3>1, TurnTells
      <4>2. event = "lost" => stripe[o].dispute = "lost"
        BY <1>2, <4>1 DEF LedgerInv, EventsOK
      <4>3. event = "lost" => Told(o, "disputed")
        BY <1>2, <4>1 DEF LedgerInv, EventTypes
      <4> QED
        BY <4>2, <4>3 DEF Told
    <3>4. Status(o) \notin RefundableFrom(event) => Status(o) = "REFUNDED"
      BY <2>2, <3>2, <3>3 DEF RefundableFrom
    <3> QED
      BY <2>2, <3>4 DEF Told
  <2> QED
    BY <1>5, <2>1, <2>2
<1>8. o \notin FreeOrders => FullyRefunded(o) \/ stripe[o].dispute = "lost"
  <2>1. CASE event = NoEvent
    BY <1>1, <1>2, <2>1 DEF HandlingOK
  <2>2. CASE event \in {"refunded", "lost"}
    <3>1. Has(o, event)
      BY <1>2, <2>2, TurnTells DEF EventTypes, NoEvent
    <3> QED
      BY <1>2, <2>2, <3>1 DEF LedgerInv, EventsOK
  <2> QED
    BY <1>5, <2>1, <2>2
<1>9. o \notin FreeOrders /\ Status(o) \in {"PAID", "DISPUTED"} => orders[o].intent
  BY <1>2 DEF LedgerInv, CauseOK
<1> HIDE DEF o, event, row
<1> QED
  BY <1>1, <1>2, <1>4, <1>5, <1>6, <1>7, <1>8, <1>9, LedgerTransaction DEF o, event, NoEvent

LEMMA LedgerDisputeOpened ==
  ASSUME Orderly, IInv, LedgerInv, NEW w \in Workers, ApplyDisputeOpened(w)
  PROVE  LedgerInv'
<1> DEFINE o == req[w].order
           row == [orders[o] EXCEPT !.status = "DISPUTED"]
<1>1. ~ IsIdle(w) /\ req[w].step = "applyDisputeOpened"
      /\ Transaction(w, {"PAID"}, row, SuspendedAccess(enrollments[Purchase[o]]))
  BY DEF ApplyDisputeOpened, At, IsIdle
<1>2. /\ o \in Orders /\ req[w].event = "disputed" /\ InTurn(o, "disputed")
      /\ <<o, "disputed">> \notin acked
  BY <1>1, RequestTells DEF RequestOK, NoEvent
<1>3. orders[o] \in OrderRow
  BY <1>2 DEF IInv, TypeOK
<1>4. row \in OrderRow /\ row.status = "DISPUTED" /\ row.intent = orders[o].intent
  BY <1>3 DEF OrderRow, OrderStatus
<1>5. "disputed" \in AfterPayment /\ "disputed" \in EventTypes /\ "won" \in EventTypes
  BY DEF AfterPayment, EventTypes
<1>6. orders[o].intent /\ Status(o) \in {"PAID", "DISPUTED", "REFUNDED"}
  BY <1>2, <1>5, PaymentIsKnown
<1>7. stripe[o].dispute # "none"
  BY <1>2, <1>5, TurnTells DEF LedgerInv, EventsOK
<1>8. ~ Handled(o, "won")
  BY <1>2, <1>5, HandledIsTold, TurnTells
<1>9. Status(o) # "PAID" => Told(o, "disputed")
  BY <1>6 DEF Told
<1> HIDE DEF o, row
<1> QED
  BY <1>1, <1>2, <1>4, <1>6, <1>7, <1>8, <1>9, LedgerTransaction DEF o

LEMMA LedgerDisputeWon ==
  ASSUME Orderly, IInv, LedgerInv, NEW w \in Workers, ApplyDisputeWon(w)
  PROVE  LedgerInv'
<1> DEFINE o == req[w].order
           row == [orders[o] EXCEPT !.status = "PAID"]
<1>1. ~ IsIdle(w) /\ req[w].step = "applyDisputeWon"
      /\ Transaction(w, {"DISPUTED"}, row, RestoredAccess(enrollments[Purchase[o]]))
  BY DEF ApplyDisputeWon, At, IsIdle
<1>2. o \in Orders /\ HandlingOK(req[w]) /\ req[w].event \in EventTypes \cup {NoEvent}
  BY <1>1, RequestTells DEF Running
<1>3. req[w].event = "won"
  BY <1>1, <1>2 DEF HandlingOK, Handling, EventTypes
<1>4. InTurn(o, "won") /\ "won" \in AfterPayment /\ "won" \in EventTypes
  BY <1>1, <1>3, RequestTells DEF NoEvent, AfterPayment, EventTypes
<1>5. orders[o] \in OrderRow
  BY <1>2 DEF IInv, TypeOK
<1>6. row \in OrderRow /\ row.status = "PAID" /\ row.intent = orders[o].intent
  BY <1>5 DEF OrderRow, OrderStatus
<1>7. orders[o].intent
  BY <1>2, <1>4, PaymentIsKnown
<1>8. stripe[o].dispute = "won"
  BY <1>2, <1>4, TurnTells DEF LedgerInv, EventsOK
<1>9. Status(o) # "DISPUTED" => Told(o, "won")
  BY DEF Told
<1> HIDE DEF o, row
<1> QED
  BY <1>1, <1>2, <1>3, <1>6, <1>7, <1>8, <1>9, LedgerTransaction DEF o

(* A step of a request that claims, releases or acknowledges. *)
LEMMA LedgerDelivery ==
  ASSUME IInv, LedgerInv, NEW w \in Workers,
         \A v \in Workers : v # w => req'[v] = req[v],
         UNCHANGED <<orders, stripe, emitted, autoApprove>>,
         DeliveriesOK', HandlingOK(req[w])',
         \A o \in Orders, event \in EventTypes :
           (<<o, event>> \in acked)' => <<o, event>> \in acked \/ Told(o, event)
  PROVE  LedgerInv'
<1>1. \A o, event : Told(o, event)' <=> Told(o, event)
  BY DEF Told, Status
<1>2. \A o \in Orders : EventsOK(o)' /\ CauseOK(o)'
  BY DEF LedgerInv, EventsOK, CauseOK, Has, Comes, Session, FullyRefunded, Status
<1>3. \A v \in Workers : v # w => HandlingOK(req[v])'
  BY <1>1 DEF LedgerInv, HandlingOK, FullyRefunded
<1> QED
  BY <1>1, <1>2, <1>3 DEF LedgerInv

(* An event whose turn it is stays so: acknowledgements are not taken back. *)
LEMMA TurnStays ==
  ASSUME UNCHANGED emitted, acked \subseteq acked', NEW o, NEW event, InTurn(o, event)
  PROVE  InTurn(o, event)'
BY DEF InTurn

(* The claim is one request's, in its turn. *)
LEMMA LedgerClaim ==
  ASSUME Orderly, IInv, LedgerInv, NEW w \in Workers, NEW o \in Orders, NEW event \in EventTypes,
         ClaimEvent(w, o, event)
  PROVE  LedgerInv'
<1>1. req[w] = Idle
  BY IdleIs DEF ClaimEvent, IInv
<1>2. /\ req'[w].step = FirstStep(event) /\ req'[w].order = o /\ req'[w].event = event
      /\ req'[w].intent = (event = "completed")
      /\ \A v \in Workers : v # w => req'[v] = req[v]
  BY DEF ClaimEvent, Begin, IInv, TypeOK
<1>3. event # NoEvent /\ req[w].event = NoEvent
  BY <1>1 DEF EventTypes, NoEvent, Idle
<1>4. UNCHANGED <<orders, stripe, emitted, autoApprove, acked>>
  BY DEF ClaimEvent, dbVars, stripeVars
<1>5. InTurn(o, event) /\ <<o, event>> \notin acked /\ ~ InHand(o, event)
  BY DEF ClaimEvent, Deliverable, Orderly, InTurn
<1>6. stripeEvents' = stripeEvents \cup {<<o, event>>}
  BY DEF ClaimEvent
<1>7. DeliveriesOK'
  <2>1. \A p, e : InTurn(p, e) => InTurn(p, e)'
    BY <1>4, TurnStays
  <2>2. \A p \in Orders, e \in EventTypes : (<<p, e>> \in acked)' => InTurn(p, e)'
    BY <1>4, <2>1 DEF LedgerInv, DeliveriesOK
  <2>3. \A v \in Workers : req'[v].event # NoEvent =>
          /\ InTurn(req[v].order, req[v].event)'
          /\ <<req'[v].order, req'[v].event>> \in stripeEvents' \ acked'
    <3> SUFFICES ASSUME NEW v \in Workers, req'[v].event # NoEvent
                 PROVE  /\ InTurn(req[v].order, req[v].event)'
                        /\ <<req'[v].order, req'[v].event>> \in stripeEvents' \ acked'
      OBVIOUS
    <3>1. CASE v = w
      BY <1>2, <1>4, <1>5, <1>6, <3>1 DEF InTurn
    <3>2. CASE v # w
      <4>1. InTurn(req[v].order, req[v].event) /\ req'[v] = req[v]
            /\ <<req[v].order, req[v].event>> \in stripeEvents \ acked
        BY <1>2, <3>2 DEF LedgerInv, DeliveriesOK
      <4> QED
        BY <1>4, <1>6, <4>1 DEF InTurn
    <3> QED
      BY <3>1, <3>2
  <2>4. \A u, v \in Workers :
          req'[u].event # NoEvent /\ req'[u].event = req'[v].event /\ req'[u].order = req'[v].order
            => u = v
    BY <1>2, <1>5 DEF LedgerInv, DeliveriesOK, InHand
  <2>5. \A p \in Orders, e \in EventTypes :
          (<<p, e>> \in stripeEvents)' => (<<p, e>> \in acked)' \/ InHand(p, e)'
    <3> SUFFICES ASSUME NEW p \in Orders, NEW e \in EventTypes, <<p, e>> \in stripeEvents',
                        <<p, e>> \notin acked
                 PROVE  InHand(p, e)'
      BY <1>4
    <3>1. CASE p = o /\ e = event
      BY <1>2, <3>1 DEF InHand
    <3>2. CASE <<p, e>> \in stripeEvents
      <4>1. PICK v \in Workers : req[v].order = p /\ req[v].event = e
        BY <3>2 DEF LedgerInv, DeliveriesOK, InHand
      <4>2. v # w
        BY <1>3, <4>1 DEF EventTypes, NoEvent
      <4> QED
        BY <1>2, <4>1, <4>2 DEF InHand
    <3> QED
      BY <1>6, <3>1, <3>2
  <2> QED
    BY <2>2, <2>3, <2>4, <2>5 DEF DeliveriesOK
<1>8. HandlingOK(req[w])'
  <2>1. /\ FirstStep(event) \in Handling(event)
        /\ FirstStep(event) = "finish" => event = "partRefund"
        /\ FirstStep(event) \in {"readSettings", "markPaidRead", "markPaidCommit"} =>
             event = "completed"
        /\ FirstStep(event) # "recordIntent"
    BY DEF FirstStep, Handling, EventTypes
  <2> QED
    BY <1>2, <1>3, <2>1 DEF HandlingOK, Told
<1> QED
  BY <1>2, <1>4, <1>7, <1>8, LedgerDelivery

(* An event that is not handled and not acknowledged is no duplicate. *)
LEMMA NoDuplicate ==
  ASSUME Orderly, LedgerInv, NEW w \in Workers, NEW o \in Orders, NEW event \in EventTypes,
         AckDuplicate(w, o, event)
  PROVE  FALSE
BY DEF AckDuplicate, Deliverable, Orderly, LedgerInv, DeliveriesOK

(* The request that has handled an event acknowledges it, or gives it back. *)
LEMMA LedgerEnd ==
  ASSUME Orderly, IInv, LedgerInv, NEW w \in Workers, Finish(w) \/ ReleaseClaim(w)
  PROVE  LedgerInv'
<1> DEFINE o == req[w].order
           event == req[w].event
<1>1. ~ IsIdle(w)
  BY DEF Finish, ReleaseClaim, At, IsIdle
<1>2. /\ o \in Orders /\ HandlingOK(req[w]) /\ event \in EventTypes \cup {NoEvent}
      /\ event # NoEvent => InTurn(o, event)
  BY <1>1, RequestTells DEF Running
<1>3. UNCHANGED <<orders, stripe, emitted, autoApprove>> /\ Done(w)
  BY DEF Finish, ReleaseClaim, dbVars, stripeVars
<1>4. req'[w] = Idle /\ \A v \in Workers : v # w => req'[v] = req[v]
  BY <1>3 DEF Done, IInv, TypeOK
<1>5. HandlingOK(req[w])'
  BY <1>4 DEF HandlingOK, Idle, NoEvent
<1>6. CASE event = NoEvent
  <2>1. ~ ReleaseClaim(w)
    BY <1>2, <1>6 DEF ReleaseClaim, At, HandlingOK
  <2>2. UNCHANGED <<stripeEvents, acked>>
    BY <1>6, <2>1 DEF Finish
  <2>3. \A p \in Orders : Status(p)' = Status(p)
    BY <1>3 DEF Status
  <2> QED
    BY <1>3, <1>6, <2>2, <2>3, LedgerDone
<1>7. CASE event # NoEvent
  <2>1. event \in EventTypes /\ InTurn(o, event)
    BY <1>2, <1>7
  <2>2. \/ /\ acked' = acked \cup {<<o, event>>} /\ stripeEvents' = stripeEvents
           /\ Told(o, event)
        \/ acked' = acked /\ stripeEvents' = stripeEvents \ {<<o, event>>}
    BY <1>2, <1>7 DEF Finish, ReleaseClaim, At, HandlingOK
  <2> HIDE DEF o, event
  <2>3. \A p, e : InTurn(p, e) => InTurn(p, e)'
    BY <1>3, <2>2, TurnStays
  <2>4. \A p \in Orders, e \in EventTypes : (<<p, e>> \in acked)' => InTurn(p, e)'
    BY <2>1, <2>2, <2>3 DEF LedgerInv, DeliveriesOK
  <2>5. ASSUME NEW v \in Workers, req'[v].event # NoEvent
        PROVE  /\ v # w /\ req'[v] = req[v]
               /\ InTurn(req[v].order, req[v].event)'
               /\ <<req'[v].order, req'[v].event>> \in stripeEvents' \ acked'
    <3>1. v # w /\ req'[v] = req[v]
      BY <1>4, <2>5 DEF Idle
    <3>2. InTurn(req[v].order, req[v].event)
          /\ <<req[v].order, req[v].event>> \in stripeEvents \ acked
      BY <2>5, <3>1 DEF LedgerInv, DeliveriesOK
    <3>3. req[v].order # o \/ req[v].event # event
      BY <1>7, <3>1 DEF LedgerInv, DeliveriesOK, o, event
    <3>4. <<req[v].order, req[v].event>> # <<o, event>>
      BY <3>3
    <3>5. InTurn(req[v].order, req[v].event)'
      BY <1>3, <2>2, <3>1, <3>2 DEF InTurn
    <3> QED
      BY <2>2, <3>1, <3>2, <3>4, <3>5
  <2>6. \A u, v \in Workers :
          req'[u].event # NoEvent /\ req'[u].event = req'[v].event /\ req'[u].order = req'[v].order
            => u = v
    <3> SUFFICES ASSUME NEW u \in Workers, NEW v \in Workers, req'[u].event # NoEvent,
                        req'[u].event = req'[v].event, req'[u].order = req'[v].order
                 PROVE  u = v
      OBVIOUS
    <3>1. req'[u] = req[u] /\ req'[v] = req[v]
      BY <2>5
    <3> QED
      BY <3>1 DEF LedgerInv, DeliveriesOK
  <2>7. \A p \in Orders, e \in EventTypes :
          (<<p, e>> \in stripeEvents)' => (<<p, e>> \in acked)' \/ InHand(p, e)'
    <3> SUFFICES ASSUME NEW p \in Orders, NEW e \in EventTypes, <<p, e>> \in stripeEvents',
                        <<p, e>> \notin acked'
                 PROVE  InHand(p, e)'
      OBVIOUS
    <3>1. <<p, e>> # <<o, event>> /\ <<p, e>> \in stripeEvents /\ <<p, e>> \notin acked
      BY <2>2
    <3>2. PICK v \in Workers : req[v].order = p /\ req[v].event = e
      BY <3>1 DEF LedgerInv, DeliveriesOK, InHand
    <3>3. v # w
      BY <3>1, <3>2 DEF o, event
    <3> QED
      BY <1>4, <3>2, <3>3 DEF InHand
  <2>8. DeliveriesOK'
    BY <2>4, <2>5, <2>6, <2>7 DEF DeliveriesOK
  <2>9. \A p \in Orders, e \in EventTypes :
          (<<p, e>> \in acked)' => <<p, e>> \in acked \/ Told(p, e)
    BY <2>2
  <2> QED
    BY <1>3, <1>4, <1>5, <2>8, <2>9, LedgerDelivery
<1> QED
  BY <1>6, <1>7


(* Stripe produces an event, once, with the change it tells of; no request *)
(* that handles an event moves.                                            *)
LEMMA LedgerStripe ==
  ASSUME IInv, LedgerInv, NEW o \in Orders, NEW e \in EventTypes, Emit(o, e), ~ Has(o, e),
         UNCHANGED <<orders, stripeEvents, autoApprove, acked>>,
         \A p \in Orders : p # o => stripe'[p] = stripe[p],
         Session(o)' = "COMPLETED" <=> Session(o) = "COMPLETED" \/ e = "completed",
         Session(o)' = "EXPIRED" <=> Session(o) = "EXPIRED" \/ e = "expired",
         stripe'[o].refund # "no" <=> stripe[o].refund # "no" \/ e \in {"partRefund", "refunded"},
         FullyRefunded(o)' <=> FullyRefunded(o) \/ e = "refunded",
         stripe'[o].dispute # "none" <=> stripe[o].dispute # "none" \/ e = "disputed",
         \A outcome \in {"won", "lost"} :
           stripe'[o].dispute = outcome <=> stripe[o].dispute = outcome \/ e = outcome,
         e \in AfterPayment => Session(o) = "COMPLETED",
         e \in {"won", "lost"} => stripe[o].dispute # "none",
         \A v \in Workers : \/ req'[v] = req[v]
                            \/ /\ req[v].event = NoEvent /\ req'[v].event = NoEvent
                               /\ HandlingOK(req[v])'
  PROVE  LedgerInv'
<1> DEFINE n == Len(emitted[o])
<1>1. /\ n \in Nat /\ DOMAIN emitted[o] = 1..n /\ DOMAIN emitted'[o] = 1..(n + 1)
      /\ emitted'[o][n + 1] = e
      /\ \A i \in 1..n : emitted'[o][i] = emitted[o][i]
      /\ \A p \in Orders : p # o => emitted'[p] = emitted[p]
  BY DEF Emit, IInv, TypeOK
<1> HIDE DEF n
<1>2. \A p \in Orders, f \in EventTypes : Has(p, f)' <=> Has(p, f) \/ (p = o /\ f = e)
  BY <1>1 DEF Has
<1>3. ASSUME NEW p \in Orders, NEW f, InTurn(p, f)
      PROVE  InTurn(p, f)'
  <2>1. PICK i \in DOMAIN emitted[p] :
          emitted[p][i] = f /\ \A j \in 1..(i - 1) : <<p, emitted[p][j]>> \in acked
    BY <1>3 DEF InTurn
  <2>2. CASE p # o
    BY <1>1, <2>1, <2>2 DEF InTurn
  <2>3. CASE p = o
    <3>1. i \in 1..n /\ i \in 1..(n + 1) /\ \A j \in 1..(i - 1) : j \in 1..n
      BY <1>1, <2>1, <2>3
    <3> QED
      BY <1>1, <2>1, <2>3, <3>1 DEF InTurn
  <2> QED
    BY <2>2, <2>3
<1>4. ASSUME NEW first, NEW f, Comes(o, first, f), f = e => Has(o, first)
      PROVE  Comes(o, first, f)'
  <2> SUFFICES ASSUME NEW i \in 1..(n + 1), emitted'[o][i] = f
               PROVE  \E j \in 1..(i - 1) : emitted'[o][j] = first
    BY <1>1 DEF Comes
  <2>1. CASE i \in 1..n
    <3>1. PICK j \in 1..(i - 1) : emitted[o][j] = first
      BY <1>1, <1>4, <2>1 DEF Comes
    <3>2. j \in 1..n
      BY <1>1, <2>1
    <3> QED
      BY <1>1, <3>1, <3>2
  <2>2. CASE i = n + 1
    <3>1. f = e
      BY <1>1, <2>2
    <3>2. PICK j \in 1..n : emitted[o][j] = first
      BY <1>1, <1>4, <3>1 DEF Has
    <3>3. j \in 1..(i - 1)
      BY <1>1, <2>2
    <3> QED
      BY <1>1, <3>2, <3>3
  <2> QED
    BY <1>1, <2>1, <2>2
<1>5. ASSUME NEW p \in Orders
      PROVE  EventsOK(p)'
  <2>1. EventsOK(p)
    BY DEF LedgerInv
  <2>2. CASE p # o
    BY <1>1, <2>1, <2>2 DEF EventsOK, Has, Comes, Session, FullyRefunded
  <2>3. CASE p = o
    <3>1. ASSUME NEW i \in 1..(n + 1), NEW j \in 1..(n + 1), emitted'[o][i] = emitted'[o][j]
          PROVE  i = j
      <4>1. \A k \in 1..n : emitted[o][k] # e
        BY <1>1 DEF Has
      <4>2. CASE i \in 1..n /\ j \in 1..n
        BY <1>1, <2>1, <2>3, <3>1, <4>2 DEF EventsOK
      <4>3. CASE i = n + 1 \/ j = n + 1
        BY <1>1, <3>1, <4>1, <4>3
      <4> QED
        BY <1>1, <4>2, <4>3
    <3>2. \A f \in EventTypes : Has(o, f)' <=> Has(o, f) \/ f = e
      BY <1>2
    <3>3. /\ Has(o, "completed")' <=> Session(o)' = "COMPLETED"
          /\ Has(o, "expired")' <=> Session(o)' = "EXPIRED"
          /\ Has(o, "partRefund")' => stripe'[o].refund # "no"
          /\ Has(o, "refunded")' <=> FullyRefunded(o)'
      BY <2>1, <2>3, <3>2 DEF EventsOK, EventTypes
    <3>4. /\ Has(o, "disputed")' <=> stripe'[o].dispute # "none"
          /\ \A outcome \in {"won", "lost"} : Has(o, outcome)' <=> stripe'[o].dispute = outcome
      BY <2>1, <2>3, <3>2 DEF EventsOK, EventTypes
    <3>5. stripe'[o].refund # "no" \/ stripe'[o].dispute # "none" => Session(o)' = "COMPLETED"
      BY <2>1, <2>3 DEF EventsOK, AfterPayment
    <3>6. \A f \in AfterPayment : Comes(o, "completed", f)'
      <4>1. e \in AfterPayment => Has(o, "completed")
        BY <2>1, <2>3 DEF EventsOK
      <4> QED
        BY <1>4, <2>1, <2>3, <4>1 DEF EventsOK
    <3>7. \A f \in {"won", "lost"} : Comes(o, "disputed", f)'
      <4>1. e \in {"won", "lost"} => Has(o, "disputed")
        BY <2>1, <2>3 DEF EventsOK
      <4> QED
        BY <1>4, <2>1, <2>3, <4>1 DEF EventsOK
    <3> QED
      BY <1>1, <2>3, <3>1, <3>3, <3>4, <3>5, <3>6, <3>7 DEF EventsOK
  <2> QED
    BY <2>2, <2>3
<1>6. \A v \in Workers : /\ req'[v].event = req[v].event
                         /\ req[v].event # NoEvent => req'[v] = req[v]
  OBVIOUS
<1>7. DeliveriesOK'
  <2>1. \A p \in Orders, f \in EventTypes : (<<p, f>> \in acked)' => InTurn(p, f)'
    BY <1>3 DEF LedgerInv, DeliveriesOK
  <2>2. ASSUME NEW v \in Workers, req'[v].event # NoEvent
        PROVE  /\ InTurn(req[v].order, req[v].event)'
               /\ <<req'[v].order, req'[v].event>> \in stripeEvents' \ acked'
    <3>1. req'[v] = req[v] /\ req[v].event # NoEvent
      BY <1>6, <2>2
    <3>2. InTurn(req[v].order, req[v].event)
          /\ <<req[v].order, req[v].event>> \in stripeEvents \ acked
      BY <3>1 DEF LedgerInv, DeliveriesOK
    <3>3. req[v].order \in Orders
      BY <3>1 DEF IInv, TypeOK, Request, Running, Idle
    <3>4. \A q \in Orders : \A f : InTurn(q, f) => InTurn(q, f)'
      BY <1>3
    <3> QED
      BY <3>1, <3>2, <3>3, <3>4 DEF InTurn
  <2>3. \A u, v \in Workers :
          req'[u].event # NoEvent /\ req'[u].event = req'[v].event /\ req'[u].order = req'[v].order
            => u = v
    <3> SUFFICES ASSUME NEW u \in Workers, NEW v \in Workers, req'[u].event # NoEvent,
                        req'[u].event = req'[v].event, req'[u].order = req'[v].order
                 PROVE  u = v
      OBVIOUS
    <3>1. req'[u] = req[u] /\ req'[v] = req[v]
      BY <1>6
    <3> QED
      BY <3>1 DEF LedgerInv, DeliveriesOK
  <2>4. \A p \in Orders, f \in EventTypes : InHand(p, f) => InHand(p, f)'
    BY <1>6 DEF InHand, EventTypes, NoEvent
  <2>5. \A p \in Orders, f \in EventTypes :
          (<<p, f>> \in stripeEvents)' => (<<p, f>> \in acked)' \/ InHand(p, f)'
    BY <2>4 DEF LedgerInv, DeliveriesOK
  <2> QED
    BY <2>1, <2>2, <2>3, <2>5 DEF DeliveriesOK
<1>8. \A p \in Orders : \A f : Told(p, f) => Told(p, f)'
  <2>1. \A p \in Orders : stripe[p].dispute = "won" => stripe'[p].dispute = "won"
    OBVIOUS
  <2> QED
    BY <2>1 DEF Told, Status
<1>9. \A p \in Orders : /\ FullyRefunded(p) => FullyRefunded(p)'
                        /\ stripe[p].dispute = "lost" => stripe'[p].dispute = "lost"
                        /\ stripe[p].dispute # "none" => stripe'[p].dispute # "none"
                        /\ Session(p) = "EXPIRED" => Session(p)' = "EXPIRED"
  BY DEF FullyRefunded, Session
<1>10. \A p \in Orders : CauseOK(p)'
  BY <1>9 DEF LedgerInv, CauseOK, Status
<1>11. ASSUME NEW v \in Workers
       PROVE  HandlingOK(req[v])'
  <2> SUFFICES ASSUME req'[v] = req[v] PROVE HandlingOK(req[v])'
    OBVIOUS
  <2>1. HandlingOK(req[v])
    BY DEF LedgerInv
  <2>2. CASE req[v] \in Running
    <3>1. req[v].order \in Orders
      BY <2>2 DEF Running
    <3>2. Told(req[v].order, req[v].event) =>
            Told(req[v].order, req[v].event)'
      BY <1>8, <3>1 DEF Told, Status
    <3>3. FullyRefunded(req[v].order) => FullyRefunded(req[v].order)'
      BY <1>9, <3>1 DEF FullyRefunded
    <3> QED
      BY <2>1, <3>2, <3>3 DEF HandlingOK
  <2>3. CASE req[v] = Idle
    BY <2>3 DEF HandlingOK, Idle, NoEvent
  <2> QED
    BY <2>2, <2>3 DEF IInv, TypeOK, Request
<1> QED
  BY <1>5, <1>7, <1>8, <1>10, <1>11 DEF LedgerInv

(* What the customer, the bank and the dashboard do. *)
LEMMA LedgerOutside ==
  ASSUME Orderly, IInv, LedgerInv, Outside
  PROVE  LedgerInv'
<1>1. ~ SetAutoApprove
  BY DEF SetAutoApprove, Orderly, LedgerInv
<1>2. PICK o \in Orders :
        \/ CustomerPays(o) \/ SessionExpires(o) \/ PartialRefund(o) \/ DashboardRefund(o)
        \/ DisputeOpens(o) \/ \E outcome \in {"won", "lost"} : DisputeCloses(o, outcome)
  BY <1>1 DEF Outside
<1>3. EventsOK(o)
  BY DEF LedgerInv
<1>4. stripe[o] \in StripeRecord /\ stripe \in [Orders -> StripeRecord]
  BY DEF IInv, TypeOK
<1>5. UNCHANGED <<orders, stripeEvents, autoApprove, acked, req>>
  BY <1>2 DEF CustomerPays, SessionExpires, PartialRefund, DashboardRefund, DisputeOpens,
              DisputeCloses, dbVars
<1>6. CASE CustomerPays(o)
  <2>1. /\ Emit(o, "completed") /\ ~ Has(o, "completed") /\ Session(o) = "OPEN"
        /\ stripe' = [stripe EXCEPT ![o].session = "COMPLETED"]
    BY <1>3, <1>6 DEF CustomerPays, EventsOK, Session
  <2>2. /\ Session(o)' = "COMPLETED" /\ stripe'[o].refund = stripe[o].refund
        /\ stripe'[o].dispute = stripe[o].dispute
        /\ \A p \in Orders : p # o => stripe'[p] = stripe[p]
    BY <1>4, <2>1 DEF Session, StripeRecord
  <2> QED
    BY <1>5, <2>1, <2>2, LedgerStripe DEF FullyRefunded, AfterPayment, EventTypes
<1>7. CASE SessionExpires(o)
  <2>1. /\ Emit(o, "expired") /\ ~ Has(o, "expired") /\ Session(o) = "OPEN"
        /\ stripe' = [stripe EXCEPT ![o].session = "EXPIRED"]
    BY <1>3, <1>7 DEF SessionExpires, EventsOK, Session
  <2>2. /\ Session(o)' = "EXPIRED" /\ stripe'[o].refund = stripe[o].refund
        /\ stripe'[o].dispute = stripe[o].dispute
        /\ \A p \in Orders : p # o => stripe'[p] = stripe[p]
    BY <1>4, <2>1 DEF Session, StripeRecord
  <2> QED
    BY <1>5, <2>1, <2>2, LedgerStripe DEF FullyRefunded, AfterPayment, EventTypes
<1>8. CASE PartialRefund(o)
  <2>1. /\ Emit(o, "partRefund") /\ ~ Has(o, "partRefund") /\ Session(o) = "COMPLETED"
        /\ stripe[o].refund = "no"
        /\ stripe' = [stripe EXCEPT ![o].refund = "part"]
    BY <1>3, <1>8 DEF PartialRefund, EventsOK, Session
  <2>2. /\ Session(o)' = Session(o) /\ stripe'[o].refund = "part"
        /\ stripe'[o].dispute = stripe[o].dispute
        /\ \A p \in Orders : p # o => stripe'[p] = stripe[p]
    BY <1>4, <2>1 DEF Session, StripeRecord
  <2> QED
    BY <1>5, <2>1, <2>2, LedgerStripe DEF FullyRefunded, AfterPayment, EventTypes
<1>9. CASE DashboardRefund(o)
  <2>1. /\ Emit(o, "refunded") /\ ~ Has(o, "refunded") /\ Session(o) = "COMPLETED"
        /\ stripe' = [stripe EXCEPT ![o].refund = "full"]
    BY <1>3, <1>9 DEF DashboardRefund, EventsOK, Session, FullyRefunded
  <2>2. /\ Session(o)' = Session(o) /\ stripe'[o].refund = "full"
        /\ stripe'[o].dispute = stripe[o].dispute
        /\ \A p \in Orders : p # o => stripe'[p] = stripe[p]
    BY <1>4, <2>1 DEF Session, StripeRecord
  <2> QED
    BY <1>5, <2>1, <2>2, LedgerStripe DEF FullyRefunded, AfterPayment, EventTypes
<1>10. CASE DisputeOpens(o)
  <2>1. /\ Emit(o, "disputed") /\ ~ Has(o, "disputed") /\ Session(o) = "COMPLETED"
        /\ stripe[o].dispute = "none"
        /\ stripe' = [stripe EXCEPT ![o].dispute = "open"]
    BY <1>3, <1>10 DEF DisputeOpens, EventsOK, Session
  <2>2. /\ Session(o)' = Session(o) /\ stripe'[o].refund = stripe[o].refund
        /\ stripe'[o].dispute = "open"
        /\ \A p \in Orders : p # o => stripe'[p] = stripe[p]
    BY <1>4, <2>1 DEF Session, StripeRecord
  <2> QED
    BY <1>5, <2>1, <2>2, LedgerStripe DEF FullyRefunded, AfterPayment, EventTypes
<1>11. ASSUME NEW outcome \in {"won", "lost"}, DisputeCloses(o, outcome)
       PROVE  LedgerInv'
  <2>1. /\ Emit(o, outcome) /\ ~ Has(o, outcome) /\ Session(o) = "COMPLETED"
        /\ stripe[o].dispute = "open"
        /\ stripe' = [stripe EXCEPT ![o].dispute = outcome]
    BY <1>3, <1>11 DEF DisputeCloses, EventsOK, Session
  <2>2. /\ Session(o)' = Session(o) /\ stripe'[o].refund = stripe[o].refund
        /\ stripe'[o].dispute = outcome
        /\ \A p \in Orders : p # o => stripe'[p] = stripe[p]
    BY <1>4, <2>1 DEF Session, StripeRecord
  <2>3. outcome \in EventTypes /\ outcome \notin {"completed", "expired", "partRefund", "refunded",
                                                  "disputed", "none"}
    BY DEF EventTypes
  <2> QED
    BY <1>5, <2>1, <2>2, <2>3, LedgerStripe DEF FullyRefunded, AfterPayment
<1> QED
  BY <1>2, <1>6, <1>7, <1>8, <1>9, <1>10, <1>11

(* The refund an admin makes at Stripe tells of itself, and the request    *)
(* that made it has cause to apply it.                                     *)
LEMMA LedgerStripeRefund ==
  ASSUME Orderly, IInv, LedgerInv, NEW w \in Workers, StripeRefund(w)
  PROVE  LedgerInv'
<1>1. ~ IsIdle(w) /\ req[w].step = "stripeRefund" /\ Goto(w, "applyRefund")
      /\ UNCHANGED <<orders, stripeEvents, autoApprove, acked>>
  BY DEF StripeRefund, At, IsIdle, dbVars
<1>2. req[w] \in Running /\ req[w].order \in Orders /\ HandlingOK(req[w])
  BY <1>1, RequestTells
<1>3. req[w].event = NoEvent
  <2>1. req[w].event \in EventTypes \cup {NoEvent}
    BY <1>2 DEF Running
  <2> QED
    BY <1>1, <1>2, <2>1 DEF HandlingOK, Handling, EventTypes
<1>4. PICK o \in Orders : o = req[w].order
  BY <1>2
<1>5. CASE stripe[o].refund = "byAdmin" /\ UNCHANGED stripeVars
  BY <1>1, <1>3, <1>4, <1>5, LedgerGoto DEF FullyRefunded, NoEvent, stripeVars
<1>6. CASE /\ stripe[o].refund \in {"no", "part"} /\ stripe[o].session = "COMPLETED"
           /\ stripe' = [stripe EXCEPT ![o].refund = "byAdmin"] /\ Emit(o, "refunded")
  <2>1. ~ Has(o, "refunded") /\ Session(o) = "COMPLETED"
    BY <1>6 DEF LedgerInv, EventsOK, FullyRefunded, Session
  <2>2. /\ Session(o)' = Session(o) /\ stripe'[o].refund = "byAdmin"
        /\ stripe'[o].dispute = stripe[o].dispute
        /\ \A p \in Orders : p # o => stripe'[p] = stripe[p]
    BY <1>6 DEF Session, StripeRecord, IInv, TypeOK
  <2>3. /\ req'[w].step = "applyRefund" /\ req'[w].order = o /\ req'[w].event = NoEvent
        /\ \A v \in Workers : v # w => req'[v] = req[v]
    BY <1>1, <1>2, <1>3, <1>4 DEF Goto, IInv, TypeOK, Running
  <2>4. HandlingOK(req[w])'
    BY <2>2, <2>3 DEF HandlingOK, FullyRefunded
  <2> QED
    BY <1>1, <1>3, <1>6, <2>1, <2>2, <2>3, <2>4, LedgerStripe
       DEF FullyRefunded, AfterPayment, EventTypes
<1> QED
  BY <1>4, <1>5, <1>6 DEF StripeRefund

(* The steps of the requests that handle no event. *)
LEMMA OwnSteps ==
  ASSUME Orderly, IInv, LedgerInv, NEW w \in Workers,
         req[w].step \in {"createOrder", "createSession", "saveSession", "retrieveSession",
                          "stripeRefund"}
  PROVE  /\ req[w] \in Running /\ req[w].order \in Orders /\ ~ IsIdle(w)
         /\ RequestOK(req[w]) /\ req[w].event = NoEvent
<1>1. ~ IsIdle(w)
  BY DEF IsIdle
<1>2. req[w] \in Running /\ req[w].order \in Orders /\ RequestOK(req[w]) /\ HandlingOK(req[w])
  BY <1>1, RequestTells
<1>3. req[w].event \in EventTypes \cup {NoEvent}
  BY <1>2 DEF Running
<1>4. req[w].event = NoEvent
  BY <1>2, <1>3 DEF HandlingOK, Handling, EventTypes
<1> QED
  BY <1>1, <1>2, <1>4

(* The order's row is there before Stripe has a session for it. *)
LEMMA LedgerCreateOrder ==
  ASSUME Orderly, IInv, LedgerInv, NEW w \in Workers, CreateOrder(w)
  PROVE  LedgerInv'
<1>1. req[w].step = "createOrder"
  BY DEF CreateOrder, At
<1>2. /\ req[w] \in Running /\ req[w].order \in Orders /\ ~ IsIdle(w)
      /\ RequestOK(req[w]) /\ req[w].event = NoEvent
  BY <1>1, OwnSteps
<1>3. PICK o \in Orders : o = req[w].order
  BY <1>2
<1>4. PICK step \in {"markPaidRead", "createSession"} :
        Goto(w, step) /\ (step = "markPaidRead" => o \in FreeOrders)
  BY <1>3 DEF CreateOrder
<1>5. UNCHANGED <<stripe, emitted, stripeEvents, acked, autoApprove>>
  BY DEF CreateOrder, stripeVars
<1>6. /\ req'[w].step = step /\ req'[w].order = o /\ req'[w].event = NoEvent
      /\ \A v \in Workers : v # w => req'[v] = req[v]
  BY <1>2, <1>3, <1>4 DEF Goto, IInv, TypeOK, Running
<1>7. /\ Status(o)' = "PENDING" /\ \A p \in Orders : p # o => orders'[p] = orders[p]
  BY <1>3 DEF CreateOrder, IInv, TypeOK, OrderRow, Status
<1>8. Session(o) = "NONE"
  <2>1. Status(o) = "NONE"
    BY <1>1, <1>2, <1>3 DEF RequestOK
  <2> QED
    BY <2>1, SessionTells
<1>9. ASSUME NEW p \in Orders, NEW event \in EventTypes, Handled(p, event)
      PROVE  Told(p, event)'
  <2>1. InTurn(p, event) /\ Told(p, event)
    BY <1>9, HandledIsTold
  <2>2. p # o
    BY <1>8, <2>1, TurnTells
  <2> QED
    BY <1>5, <1>7, <2>1, <2>2 DEF Told, Status
<1>10. ASSUME NEW p \in Orders
       PROVE  CauseOK(p)'
  <2>1. CASE p = o
    BY <1>7, <2>1 DEF CauseOK
  <2>2. CASE p # o
    BY <1>5, <1>7, <2>2 DEF LedgerInv, CauseOK, Status, Session, FullyRefunded
  <2> QED
    BY <2>1, <2>2
<1>11. HandlingOK(req[w])'
  BY <1>4, <1>6 DEF HandlingOK
<1> QED
  BY <1>2, <1>5, <1>6, <1>9, <1>10, <1>11, LedgerRequest

LEMMA LedgerCreateSession ==
  ASSUME Orderly, IInv, LedgerInv, NEW w \in Workers, CreateSession(w)
  PROVE  LedgerInv'
<1>1. req[w].step = "createSession"
  BY DEF CreateSession, At
<1>2. /\ req[w] \in Running /\ req[w].order \in Orders /\ ~ IsIdle(w)
      /\ RequestOK(req[w]) /\ req[w].event = NoEvent
  BY <1>1, OwnSteps
<1>3. PICK o \in Orders : o = req[w].order
  BY <1>2
<1>4. UNCHANGED <<orders, emitted, stripeEvents, acked, autoApprove>>
  BY DEF CreateSession, dbVars
<1>5. /\ req'[w].step = "saveSession" /\ req'[w].event = NoEvent
      /\ \A v \in Workers : v # w => req'[v] = req[v]
  BY <1>2 DEF CreateSession, Goto, IInv, TypeOK, Running
<1>6. /\ Session(o) = "NONE" /\ Session(o)' = "OPEN"
      /\ \A p \in Orders : p # o => stripe'[p] = stripe[p]
      /\ \A p \in Orders : /\ stripe'[p].refund = stripe[p].refund
                           /\ stripe'[p].dispute = stripe[p].dispute
  BY <1>1, <1>2, <1>3 DEF RequestOK, CreateSession, IInv, TypeOK, StripeRecord, Session
<1>7. \A p \in Orders : \A event : Told(p, event)' <=> Told(p, event)
  BY <1>4, <1>6 DEF Told, Status
<1>8. ASSUME NEW p \in Orders
      PROVE  EventsOK(p)' /\ CauseOK(p)'
  <2>1. EventsOK(p) /\ CauseOK(p)
    BY DEF LedgerInv
  <2>2. CASE p = o
    BY <1>4, <1>6, <2>1, <2>2 DEF EventsOK, CauseOK, Has, Comes, FullyRefunded, Status
  <2>3. CASE p # o
    BY <1>4, <1>6, <2>1, <2>3 DEF EventsOK, CauseOK, Has, Comes, Session, FullyRefunded, Status
  <2> QED
    BY <2>2, <2>3
<1>9. DeliveriesOK'
  <2>1. \A p, event : InTurn(p, event)' <=> InTurn(p, event)
    BY <1>4 DEF InTurn
  <2>2. \A v \in Workers : /\ req'[v].event = req[v].event
                           /\ req[v].event # NoEvent => req'[v].order = req[v].order
    BY <1>2, <1>5
  <2>3. \A p \in Orders, event \in EventTypes : InHand(p, event)' <=> InHand(p, event)
    BY <2>2 DEF InHand, EventTypes, NoEvent
  <2> QED
    BY <1>4, <2>1, <2>2, <2>3 DEF LedgerInv, DeliveriesOK
<1>10. ASSUME NEW v \in Workers
       PROVE  HandlingOK(req[v])'
  <2>1. CASE v = w
    BY <1>5, <2>1 DEF HandlingOK
  <2>2. CASE v # w
    <3>1. HandlingOK(req[v]) /\ req'[v] = req[v]
      BY <1>5, <2>2 DEF LedgerInv
    <3>2. req[v].order \in Orders => (FullyRefunded(req[v].order) => FullyRefunded(req[v].order)')
      BY <1>6, <3>1 DEF FullyRefunded
    <3>3. req[v].step = "applyRefund" => req[v].order \in Orders
      BY DEF IInv, TypeOK, Request, Running, Idle
    <3>4. req[v].step = "finish" => Told(req[v].order, req[v].event)'
      <4>1. req[v].step = "finish" => req[v].order \in Orders
        BY DEF IInv, TypeOK, Request, Running, Idle
      <4> QED
        BY <1>4, <1>6, <3>1, <4>1 DEF HandlingOK, Told, Status
    <3> QED
      BY <3>1, <3>2, <3>3, <3>4 DEF HandlingOK
  <2> QED
    BY <2>1, <2>2
<1> QED
  BY <1>4, <1>6, <1>7, <1>8, <1>9, <1>10 DEF LedgerInv, Told, Status

(* The calls that end a request without an event. *)
LEMMA LedgerGivesUp ==
  ASSUME Orderly, IInv, LedgerInv, NEW w \in Workers,
         CreateSessionFails(w) \/ SaveSession(w) \/ RetrieveSessionGivesUp(w) \/ StripeRefundFails(w)
  PROVE  LedgerInv'
<1>1. /\ Done(w) /\ UNCHANGED <<stripe, emitted, stripeEvents, acked, autoApprove>>
      /\ req[w].step \in {"createSession", "saveSession", "retrieveSession", "stripeRefund"}
  BY DEF CreateSessionFails, SaveSession, RetrieveSessionGivesUp, StripeRefundFails, At, stripeVars
<1>2. req[w].event = NoEvent /\ req[w].order \in Orders
  BY <1>1, OwnSteps
<1>3. \A o \in Orders : Status(o)' = Status(o) /\ (orders[o].intent => orders'[o].intent)
  <2>1. CASE UNCHANGED orders
    BY <2>1 DEF Status
  <2>2. CASE SaveSession(w)
    BY <1>2, <2>2 DEF SaveSession, Status, IInv, TypeOK, OrderRow
  <2> QED
    BY <2>1, <2>2 DEF CreateSessionFails, RetrieveSessionGivesUp, StripeRefundFails, dbVars
<1> QED
  BY <1>1, <1>2, <1>3, LedgerDone

LEMMA LedgerRetrieve ==
  ASSUME Orderly, IInv, LedgerInv, NEW w \in Workers, RetrieveSession(w)
  PROVE  LedgerInv'
<1>1. req[w].step = "retrieveSession"
  BY DEF RetrieveSession, At
<1>2. req[w] \in Running /\ req[w].event = NoEvent
  BY <1>1, OwnSteps
<1>3. UNCHANGED <<orders, stripe, emitted, stripeEvents, acked, autoApprove>>
  BY DEF RetrieveSession, dbVars, stripeVars
<1>4. /\ req'[w].step = "readSettings" /\ req'[w].intent = TRUE /\ req'[w].event = NoEvent
      /\ \A v \in Workers : v # w => req'[v] = req[v]
  BY <1>2 DEF RetrieveSession, IInv, TypeOK, Running
<1>5. HandlingOK(req[w])'
  BY <1>4 DEF HandlingOK
<1>6. \A o \in Orders : Status(o)' = Status(o) /\ (orders[o].intent => orders'[o].intent)
  BY <1>3 DEF Status
<1> QED
  BY <1>2, <1>3, <1>4, <1>5, <1>6, LedgerQuiet

(* Payments are approved as they come. *)
LEMMA LedgerReadSettings ==
  ASSUME Orderly, IInv, LedgerInv, NEW w \in Workers, ReadSettings(w)
  PROVE  LedgerInv'
<1>1. req[w].step = "readSettings" /\ ~ IsIdle(w) /\ Goto(w, "markPaidRead")
  BY DEF ReadSettings, At, IsIdle, LedgerInv
<1>2. HandlingOK(req[w]) /\ req[w].event \in EventTypes \cup {NoEvent}
  BY <1>1, RequestTells DEF Running
<1>3. req[w].event # NoEvent => req[w].event = "completed"
  BY <1>1, <1>2 DEF HandlingOK, Handling, EventTypes
<1>4. UNCHANGED <<orders, stripe, emitted, stripeEvents, acked, autoApprove>>
  BY DEF ReadSettings, dbVars, stripeVars
<1>5. req[w].event # NoEvent => "markPaidRead" \in Handling(req[w].event)
  BY <1>3 DEF Handling
<1>6. req[w].intent \/ req[w].order \in FreeOrders
  BY <1>1, <1>2 DEF HandlingOK
<1> QED
  BY <1>1, <1>4, <1>5, <1>6, LedgerGoto

LEMMA NoDeferral ==
  ASSUME LedgerInv, NEW w \in Workers, RecordIntent(w)
  PROVE  FALSE
BY DEF RecordIntent, At, LedgerInv, HandlingOK

(* An order that is not PENDING has been told of its session's end. *)
LEMMA LedgerMarkRead ==
  ASSUME Orderly, IInv, LedgerInv, NEW w \in Workers, MarkPaidRead(w) \/ MarkFailedRead(w)
  PROVE  LedgerInv'
<1>1. req[w].step \in {"markPaidRead", "markFailedRead"} /\ ~ IsIdle(w)
  BY DEF MarkPaidRead, MarkFailedRead, At, IsIdle
<1>2. /\ req[w].order \in Orders /\ HandlingOK(req[w]) /\ RequestOK(req[w])
      /\ req[w].event \in EventTypes \cup {NoEvent}
      /\ req[w].event # NoEvent => InTurn(req[w].order, req[w].event)
  BY <1>1, RequestTells DEF Running
<1>3. PICK o \in Orders : o = req[w].order
  BY <1>2
<1>4. UNCHANGED <<orders, stripe, emitted, stripeEvents, acked, autoApprove>>
  BY DEF MarkPaidRead, MarkFailedRead, dbVars, stripeVars
<1>5. Status(o) \in OrderStatus
  BY DEF IInv, TypeOK, OrderRow, Status
<1>6. CASE MarkPaidRead(w)
  <2>1. req[w].step = "markPaidRead"
    BY <1>6 DEF MarkPaidRead, At
  <2>2. req[w].event \in {NoEvent, "completed"}
    BY <1>2, <2>1 DEF HandlingOK, Handling, EventTypes
  <2>3. req[w].event = "completed" => Session(o) = "COMPLETED"
    BY <1>2, <1>3, TurnTells DEF EventTypes, NoEvent
  <2>4. req[w].event = "completed" => Status(o) # "NONE"
    BY <2>3, SessionTells
  <2>5. Status(o) # "PENDING" => Told(o, req[w].event)
    BY <2>2, <2>4 DEF Told, NoEvent
  <2>6. req[w].intent \/ o \in FreeOrders
    BY <1>2, <1>3, <2>1 DEF HandlingOK
  <2>7. PICK step \in {"markPaidCommit", "finish"} :
          Goto(w, step) /\ (step = "finish" => Status(o) # "PENDING")
    BY <1>3, <1>6 DEF MarkPaidRead, Status
  <2>8. req[w].event # NoEvent => step \in Handling(req[w].event)
    BY <2>2, <2>7 DEF Handling
  <2> QED
    BY <1>1, <1>3, <1>4, <2>5, <2>6, <2>7, <2>8, LedgerGoto
<1>7. CASE MarkFailedRead(w)
  <2>1. req[w].step = "markFailedRead"
    BY <1>7 DEF MarkFailedRead, At
  <2>2. req[w].event = "expired" /\ Session(o) = "EXPIRED"
    BY <1>2, <1>3, <2>1 DEF RequestOK
  <2>3. Status(o) \in {"PENDING", "FAILED"}
    BY <1>5, <2>2, SessionTells DEF OrderStatus
  <2>4. PICK step \in {"markFailedCommit", "finish"} :
          Goto(w, step) /\ (step = "finish" => Status(o) # "PENDING")
    BY <1>3, <1>7 DEF MarkFailedRead, Status
  <2>5. step = "finish" => Told(o, req[w].event)
    BY <2>2, <2>3, <2>4 DEF Told
  <2>6. step \in Handling(req[w].event) /\ req[w].event # NoEvent
    BY <2>2, <2>4 DEF Handling, NoEvent
  <2> QED
    BY <1>1, <1>3, <1>4, <2>4, <2>5, <2>6, LedgerGoto
<1> QED
  BY <1>6, <1>7

(* An event that comes after the payment finds its order. *)
LEMMA LedgerFindOrder ==
  ASSUME Orderly, IInv, LedgerInv, NEW w \in Workers, FindOrder(w)
  PROVE  LedgerInv'
<1>1. req[w].step = "findOrder" /\ ~ IsIdle(w)
  BY DEF FindOrder, At, IsIdle
<1>2. /\ req[w].order \in Orders /\ HandlingOK(req[w])
      /\ req[w].event \in EventTypes \cup {NoEvent}
      /\ req[w].event # NoEvent => InTurn(req[w].order, req[w].event)
  BY <1>1, RequestTells DEF Running
<1>3. req[w].event \in {"refunded", "disputed", "won", "lost"}
  BY <1>1, <1>2 DEF HandlingOK, Handling, EventTypes
<1>4. orders[req[w].order].intent
  BY <1>2, <1>3, PaymentIsKnown DEF AfterPayment, NoEvent
<1>5. PICK step \in {"applyRefund", "applyDisputeOpened", "applyDisputeWon"} :
        Goto(w, step) /\ step \in Handling(req[w].event)
  <2>1. CASE req[w].event = "disputed"
    BY <1>4, <2>1 DEF FindOrder, Handling
  <2>2. CASE req[w].event = "won"
    BY <1>4, <2>2 DEF FindOrder, Handling
  <2>3. CASE req[w].event \in {"refunded", "lost"}
    BY <1>4, <2>3 DEF FindOrder, Handling
  <2> QED
    BY <1>3, <2>1, <2>2, <2>3
<1>6. UNCHANGED <<orders, stripe, emitted, stripeEvents, acked, autoApprove>>
  BY DEF FindOrder, dbVars, stripeVars
<1>7. req[w].event # NoEvent
  BY <1>3 DEF NoEvent
<1> QED
  BY <1>1, <1>5, <1>6, <1>7, LedgerGoto

LEMMA LedgerContinue ==
  ASSUME Orderly, IInv, LedgerInv, NEW w \in Workers, Continue(w)
  PROVE  LedgerInv'
BY LedgerCreateOrder, LedgerCreateSession, LedgerGivesUp, LedgerRetrieve, LedgerStripeRefund,
   LedgerReadSettings, NoDeferral, LedgerMarkRead, LedgerMarkPaid, LedgerMarkFailed,
   LedgerRefund, LedgerDisputeOpened, LedgerDisputeWon, LedgerFindOrder, LedgerEnd DEF Continue

(* A request begins. *)
LEMMA LedgerStart ==
  ASSUME Orderly, IInv, LedgerInv, NEW w \in Workers, Start(w)
  PROVE  LedgerInv'
<1>1. PICK o \in Orders :
        \/ StartCheckout(w, o) \/ StartConfirm(w, o) \/ StartApprove(w, o) \/ StartRefund(w, o)
        \/ \E event \in EventTypes : ClaimEvent(w, o, event) \/ AckDuplicate(w, o, event)
  BY DEF Start
<1>2. ~ StartApprove(w, o)
  BY DEF StartApprove, Orderly
<1>3. CASE StartCheckout(w, o) \/ StartConfirm(w, o) \/ StartRefund(w, o)
  <2>1. IsIdle(w) /\ UNCHANGED <<orders, stripe, emitted, stripeEvents, acked, autoApprove>>
    BY <1>3 DEF StartCheckout, StartConfirm, StartRefund, dbVars, stripeVars
  <2>2. req[w].event = NoEvent
    BY <2>1, IdleIs DEF IInv, Idle
  <2>3. PICK step \in {"createOrder", "retrieveSession", "stripeRefund", "applyRefund"} :
          Begin(w, step, o, NoEvent, FALSE) /\ (step = "applyRefund" => o \in FreeOrders)
    BY <1>3 DEF StartCheckout, StartConfirm, StartRefund
  <2>4. /\ req'[w].step = step /\ req'[w].order = o /\ req'[w].event = NoEvent
        /\ \A v \in Workers : v # w => req'[v] = req[v]
    BY <2>3 DEF Begin, IInv, TypeOK
  <2>5. HandlingOK(req[w])'
    BY <2>3, <2>4 DEF HandlingOK
  <2>6. \A p \in Orders : Status(p)' = Status(p) /\ (orders[p].intent => orders'[p].intent)
    BY <2>1 DEF Status
  <2> QED
    BY <2>1, <2>2, <2>4, <2>5, <2>6, LedgerQuiet
<1> QED
  BY <1>1, <1>2, <1>3, LedgerClaim, NoDuplicate

(* A call throws; nothing worse happens. *)
LEMMA LedgerFails ==
  ASSUME Orderly, IInv, LedgerInv, NEW w \in Workers, Fails(w)
  PROVE  LedgerInv'
<1>1. Throw(w)
  BY DEF Fails, ReleaseClaimFails, Crash, Fault, Orderly
<1>2. ~ IsIdle(w) /\ UNCHANGED <<orders, stripe, emitted, stripeEvents, acked, autoApprove>>
  BY <1>1 DEF Throw, dbVars, stripeVars
<1>3. CASE req[w].event = NoEvent
  BY <1>1, <1>2, <1>3, LedgerDone DEF Throw, Status
<1>4. CASE req[w].event # NoEvent
  BY <1>1, <1>2, <1>4, LedgerGoto DEF Throw, Handling
<1> QED
  BY <1>3, <1>4

LEMMA LedgerInit ==
  ASSUME Orderly, Init
  PROVE  LedgerInv
<1>1. autoApprove = TRUE
  BY DEF Init, Orderly
<1>2. \A w \in Workers : req[w] = Idle
  BY DEF Init
<1>3. \A o \in Orders : /\ emitted[o] = <<>> /\ Status(o) = "NONE"
                        /\ Session(o) = "NONE" /\ stripe[o].refund = "no"
                        /\ stripe[o].dispute = "none"
  BY DEF Init, Status, Session
<1>4. \A o \in Orders : EventsOK(o) /\ CauseOK(o)
  BY <1>3 DEF EventsOK, CauseOK, Has, Comes, FullyRefunded
<1>5. DeliveriesOK
  BY <1>2 DEF Init, DeliveriesOK, Idle
<1>6. \A w \in Workers : HandlingOK(req[w])
  BY <1>2 DEF HandlingOK, Idle, NoEvent
<1> QED
  BY <1>1, <1>4, <1>5, <1>6 DEF LedgerInv, Init

LEMMA LedgerStep ==
  ASSUME Orderly, IInv, LedgerInv, [Next]_vars
  PROVE  LedgerInv'
<1>1. CASE UNCHANGED vars
  BY <1>1 DEF vars, LedgerInv, EventsOK, DeliveriesOK, Has, Comes, InTurn, InHand, Told,
              HandlingOK, CauseOK, Session, Status, FullyRefunded
<1>2. CASE Next
  BY <1>2, LedgerOutside, LedgerStart, LedgerContinue, LedgerFails DEF Next
<1> QED
  BY <1>1, <1>2

(* When every event has been acknowledged the status is the one owed. *)
LEMMA LedgerAgrees ==
  ASSUME Orderly, IInv, LedgerInv
  PROVE  AgreesWithStripe
<1> SUFFICES ASSUME Settled, NEW o \in Orders \ FreeOrders
             PROVE  Status(o) \in Owed(o)
  BY DEF AgreesWithStripe
<1>1. EventsOK(o) /\ CauseOK(o)
  BY DEF LedgerInv
<1>2. \A event \in EventTypes : Has(o, event) => Told(o, event)
  BY DEF Settled, Has, LedgerInv
<1>3. Status(o) \in OrderStatus /\ stripe[o] \in StripeRecord
  BY DEF IInv, TypeOK, OrderRow, Status
<1>4. CASE Session(o) = "EXPIRED"
  <2>1. Status(o) = "FAILED"
    BY <1>1, <1>2, <1>4 DEF EventsOK, Told, EventTypes
  <2> QED
    BY <1>4, <2>1 DEF Owed, Session
<1>5. CASE Session(o) \notin {"EXPIRED", "COMPLETED"}
  <2>1. Status(o) \in {"NONE", "PENDING"}
    BY <1>1, <1>3, <1>5, SessionTells DEF CauseOK, OrderStatus
  <2> QED
    BY <1>3, <1>5, <2>1 DEF Owed, Session, StripeRecord
<1>6. CASE Session(o) = "COMPLETED"
  <2>1. Status(o) \in {"PAID", "DISPUTED", "REFUNDED"}
    <3>1. Status(o) \notin {"NONE", "PENDING"}
      BY <1>1, <1>2, <1>6 DEF EventsOK, Told, EventTypes
    <3> QED
      BY <1>3, <1>6, <3>1, SessionTells DEF OrderStatus
  <2>2. FullyRefunded(o) \/ stripe[o].dispute = "lost" => Status(o) = "REFUNDED"
    BY <1>1, <1>2 DEF EventsOK, Told, EventTypes
  <2>3. Status(o) = "REFUNDED" => FullyRefunded(o) \/ stripe[o].dispute = "lost"
    BY <1>1 DEF CauseOK
  <2>4. stripe[o].dispute = "open" => Status(o) \in {"DISPUTED", "REFUNDED"}
    BY <1>1, <1>2 DEF EventsOK, Told, EventTypes
  <2>5. stripe[o].dispute = "won" => Status(o) # "DISPUTED"
    BY <1>1, <1>2 DEF EventsOK, Told, EventTypes
  <2>6. Status(o) = "DISPUTED" => stripe[o].dispute # "none"
    BY <1>1 DEF CauseOK
  <2>7. stripe[o].dispute \in {"none", "open", "won", "lost"}
    BY <1>3 DEF StripeRecord
  <2>8. Status(o) \in IF FullyRefunded(o) \/ stripe[o].dispute = "lost" THEN {"REFUNDED"}
                      ELSE IF stripe[o].dispute = "open" THEN {"DISPUTED"} ELSE {"PAID"}
    BY <2>1, <2>2, <2>3, <2>4, <2>5, <2>6, <2>7
  <2> QED
    BY <1>6, <2>8 DEF Owed, Session
<1> QED
  BY <1>4, <1>5, <1>6

(* "The source of truth for finalizing the order" (confirm-checkout        *)
(* route): once everything is delivered, whatever interleaved and whatever *)
(* threw on the way, every order that is paid for at Stripe has the status *)
(* Stripe's session, refunds and disputes give it.  What it takes is       *)
(* stated: deliveries in order and one at a time, payments approved as     *)
(* they come, and no claim left behind by a process that died.             *)
THEOREM AgreementWithStripe ==
  ASSUME Orderly
  PROVE  Spec => []AgreesWithStripe
<1>1. Init => LedgerInv
  BY LedgerInit
<1>2. IInv /\ LedgerInv /\ [Next]_vars => LedgerInv'
  BY LedgerStep
<1>3. IInv /\ LedgerInv => AgreesWithStripe
  BY LedgerAgrees
<1> QED
  BY <1>1, <1>2, <1>3, Inductive, PTL DEF Spec

=============================================================================
