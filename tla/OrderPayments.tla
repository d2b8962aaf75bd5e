--------------------------- MODULE OrderPayments ---------------------------
(***************************************************************************)
(* The purchase of a course: src/src/server/services/order-service.ts and  *)
(* stripe-webhook-service.ts, with the routes that call them.              *)
(*                                                                         *)
(* The server keeps no state of its own: a request is a record in req that *)
(* moves from one awaited call to the next, and any two requests           *)
(* interleave there.  The database rows are orders, payments, enrollments  *)
(* and stripeEvents; a prisma transaction is one step.  stripe, emitted    *)
(* and acked are the outside: what Stripe holds for each order, the events *)
(* it has produced, and the deliveries it has seen a 2xx for.              *)
(*                                                                         *)
(* An order here has one item, as createCheckoutSession makes it, so it    *)
(* buys one enrolment, a (user, course) pair: Purchase[o].  Amounts are    *)
(* abstracted to whether the total is zero (FreeOrders).                   *)
(***************************************************************************)
EXTENDS Naturals, Sequences, FiniteSets

CONSTANTS
  Orders,            \* identities of Order rows
  FreeOrders,        \* those whose coupon brings the total to zero
  Enrollments,       \* (user, course) pairs
  Purchase,          \* the enrolment an order buys
  Workers,           \* requests the server runs at once
  NoOrder,           \* the order of an idle worker
  AutoApproveModes,  \* values PlatformSettings.autoApprovePayments may take
  AdminApproves,     \* do admins use adminMarkOrderPaid?
  OrderedDelivery,   \* does Stripe wait for the ack of an order's earlier events?
  Redelivery,        \* may Stripe deliver an event again while a delivery of it is running?
  Faults,            \* which of FaultKinds may happen
  MaxFaults          \* bound on the throws and crashes of a behaviour

FaultKinds == {"throw", "releaseFails", "crash"}

ASSUME OrderAssumption ==
  /\ FreeOrders \subseteq Orders
  /\ Purchase \in [Orders -> Enrollments]
  /\ NoOrder \notin Orders

ASSUME EnvironmentAssumption ==
  /\ AutoApproveModes \subseteq BOOLEAN
  /\ AdminApproves \in BOOLEAN
  /\ OrderedDelivery \in BOOLEAN
  /\ Redelivery \in BOOLEAN
  /\ Faults \subseteq FaultKinds
  /\ MaxFaults \in Nat

VARIABLES
  orders,       \* Order rows: status, stripeCheckoutSessionId and stripePaymentIntentId set?
  payments,     \* Payment rows of each order, oldest first: status, stripeEventId
  enrollments,  \* Enrollment.status, "NONE" when there is no row
  stripeEvents, \* StripeEvent rows: the claimed event ids
  autoApprove,  \* PlatformSettings.autoApprovePayments
  stripe,       \* what Stripe holds for each order
  emitted,      \* the events Stripe has produced for each order, oldest first
  acked,        \* the events Stripe has had a 2xx for
  req,          \* what each worker is doing
  faults        \* throws and crashes so far

dbVars == <<orders, payments, enrollments>>
stripeVars == <<stripe, emitted>>
vars == <<orders, payments, enrollments, stripeEvents, autoApprove, stripe, emitted,
          acked, req, faults>>

-----------------------------------------------------------------------------
(* Data *)

OrderStatus == {"NONE", "PENDING", "PAID", "FAILED", "REFUNDED", "DISPUTED"}
EnrollmentStatus == {"NONE", "ACTIVE", "REVOKED", "REFUNDED"}

(* The event types handleStripeWebhookEvent acts on.  Stripe produces each *)
(* at most once for an order, so <<order, type>> stands for the event id.  *)
(* charge.refunded is split by charge.refunded, charge.dispute.closed by   *)
(* dispute.status.                                                         *)
EventTypes == {"completed", "expired", "partRefund", "refunded", "disputed", "won", "lost"}
NoEvent == "none"
Events == Orders \X EventTypes

OrderRow == [status: OrderStatus, sessionId: BOOLEAN, intent: BOOLEAN]
PaymentRow == [status: OrderStatus, event: EventTypes \cup {NoEvent}]
StripeRecord == [session: {"NONE", "OPEN", "COMPLETED", "EXPIRED"},
                 refund: {"no", "part", "full", "byAdmin"},
                 dispute: {"none", "open", "won", "lost"}]

Steps == {"idle", "createOrder", "createSession", "saveSession", "retrieveSession",
          "readSettings", "markPaidRead", "markPaidCommit", "recordIntent",
          "markFailedRead", "markFailedCommit", "findOrder", "stripeRefund",
          "applyRefund", "applyDisputeOpened", "applyDisputeWon", "finish", "failed"}

Idle == [step |-> "idle", order |-> NoOrder, event |-> NoEvent, intent |-> FALSE]
Running == [step: Steps \ {"idle"}, order: Orders,
            event: EventTypes \cup {NoEvent}, intent: BOOLEAN]
Request == Running \cup {Idle}

TypeOK ==
  /\ orders \in [Orders -> OrderRow]
  /\ payments \in [Orders -> Seq(PaymentRow)]
  /\ enrollments \in [Enrollments -> EnrollmentStatus]
  /\ stripeEvents \in SUBSET Events
  /\ autoApprove \in BOOLEAN
  /\ stripe \in [Orders -> StripeRecord]
  /\ emitted \in [Orders -> Seq(EventTypes)]
  /\ acked \in SUBSET Events
  /\ req \in [Workers -> Request]
  /\ faults \in 0..MaxFaults

Init ==
  /\ orders = [o \in Orders |-> [status |-> "NONE", sessionId |-> FALSE, intent |-> FALSE]]
  /\ payments = [o \in Orders |-> <<>>]
  /\ enrollments = [e \in Enrollments |-> "NONE"]
  /\ stripeEvents = {}
  /\ autoApprove \in AutoApproveModes
  /\ stripe = [o \in Orders |-> [session |-> "NONE", refund |-> "no", dispute |-> "none"]]
  /\ emitted = [o \in Orders |-> <<>>]
  /\ acked = {}
  /\ req = [w \in Workers |-> Idle]
  /\ faults = 0

-----------------------------------------------------------------------------
(* Requests *)

IsIdle(w) == req[w].step = "idle"
At(w, step) == req[w].step = step
Goto(w, step) == req' = [req EXCEPT ![w].step = step]
Done(w) == req' = [req EXCEPT ![w] = Idle]
Begin(w, step, o, event, intent) ==
  req' = [req EXCEPT ![w] = [step |-> step, order |-> o, event |-> event, intent |-> intent]]

Emit(o, event) == emitted' = [emitted EXCEPT ![o] = Append(@, event)]

(* createCheckoutSession: the enrolment check; the order is chosen now but *)
(* its row does not exist until CreateOrder.                               *)
StartCheckout(w, o) ==
  /\ IsIdle(w)
  /\ orders[o].status = "NONE"
  /\ \A v \in Workers : req[v].order # o
  /\ enrollments[Purchase[o]] # "ACTIVE"
  /\ Begin(w, "createOrder", o, NoEvent, FALSE)
  /\ UNCHANGED <<dbVars, stripeVars, stripeEvents, autoApprove, acked, faults>>

CreateOrder(w) ==
  /\ At(w, "createOrder")
  /\ orders' = [orders EXCEPT ![req[w].order].status = "PENDING"]
  /\ Goto(w, IF req[w].order \in FreeOrders THEN "markPaidRead" ELSE "createSession")
  /\ UNCHANGED <<payments, enrollments, stripeVars, stripeEvents, autoApprove, acked, faults>>

CreateSession(w) ==
  /\ At(w, "createSession")
  /\ stripe' = [stripe EXCEPT ![req[w].order].session = "OPEN"]
  /\ Goto(w, "saveSession")
  /\ UNCHANGED <<dbVars, emitted, stripeEvents, autoApprove, acked, faults>>

(* The catch of createCheckoutSession: the PENDING order stays. *)
CreateSessionFails(w) ==
  /\ At(w, "createSession")
  /\ Done(w)
  /\ UNCHANGED <<dbVars, stripeVars, stripeEvents, autoApprove, acked, faults>>

SaveSession(w) ==
  /\ At(w, "saveSession")
  /\ orders' = [orders EXCEPT ![req[w].order].sessionId = TRUE]
  /\ Done(w)
  /\ UNCHANGED <<payments, enrollments, stripeVars, stripeEvents, autoApprove, acked, faults>>

(* confirmCheckoutSession, from the checkout success redirect. *)
StartConfirm(w, o) ==
  /\ IsIdle(w)
  /\ orders[o].sessionId
  /\ orders[o].status = "PENDING"
  /\ Begin(w, "retrieveSession", o, NoEvent, FALSE)
  /\ UNCHANGED <<dbVars, stripeVars, stripeEvents, autoApprove, acked, faults>>

RetrieveSession(w) ==
  /\ At(w, "retrieveSession")
  /\ stripe[req[w].order].session = "COMPLETED"
  /\ req' = [req EXCEPT ![w].step = "readSettings", ![w].intent = TRUE]
  /\ UNCHANGED <<dbVars, stripeVars, stripeEvents, autoApprove, acked, faults>>

(* Not paid yet, or the call to Stripe failed. *)
RetrieveSessionGivesUp(w) ==
  /\ At(w, "retrieveSession")
  /\ Done(w)
  /\ UNCHANGED <<dbVars, stripeVars, stripeEvents, autoApprove, acked, faults>>

(* adminMarkOrderPaid: the payment intent is the one read here. *)
StartApprove(w, o) ==
  /\ AdminApproves
  /\ IsIdle(w)
  /\ orders[o].status = "PENDING"
  /\ Begin(w, "markPaidRead", o, NoEvent, orders[o].intent)
  /\ UNCHANGED <<dbVars, stripeVars, stripeEvents, autoApprove, acked, faults>>

(* refundOrder: an order with a total needs a recorded intent and goes to  *)
(* Stripe first; a free one is refunded locally.                           *)
StartRefund(w, o) ==
  /\ IsIdle(w)
  /\ orders[o].status = "PAID"
  /\ o \in FreeOrders \/ orders[o].intent
  /\ Begin(w, IF o \in FreeOrders THEN "applyRefund" ELSE "stripeRefund", o, NoEvent, FALSE)
  /\ UNCHANGED <<dbVars, stripeVars, stripeEvents, autoApprove, acked, faults>>

(* stripe.refunds.create under the key "refund:<order>": a repeated call   *)
(* gets the first answer and moves no money.                               *)
StripeRefund(w) ==
  LET o == req[w].order IN
  /\ At(w, "stripeRefund")
  /\ \/ /\ stripe[o].refund \in {"no", "part"}
        /\ stripe[o].session = "COMPLETED" /\ stripe[o].dispute # "lost"
        /\ stripe' = [stripe EXCEPT ![o].refund = "byAdmin"]
        /\ Emit(o, "refunded")
     \/ stripe[o].refund = "byAdmin" /\ UNCHANGED stripeVars
  /\ Goto(w, "applyRefund")
  /\ UNCHANGED <<dbVars, stripeEvents, autoApprove, acked, faults>>

StripeRefundFails(w) ==
  /\ At(w, "stripeRefund")
  /\ Done(w)
  /\ UNCHANGED <<dbVars, stripeVars, stripeEvents, autoApprove, acked, faults>>

-----------------------------------------------------------------------------
(* Order transitions *)

(* The webhook and the redirect choose between paying and deferring.  The  *)
(* setting read here is not read again.                                    *)
ReadSettings(w) ==
  /\ At(w, "readSettings")
  /\ Goto(w, IF autoApprove THEN "markPaidRead" ELSE "recordIntent")
  /\ UNCHANGED <<dbVars, stripeVars, stripeEvents, autoApprove, acked, faults>>

RecordIntent(w) ==
  /\ At(w, "recordIntent")
  /\ orders' = [orders EXCEPT ![req[w].order].intent = TRUE]
  /\ Goto(w, "finish")
  /\ UNCHANGED <<payments, enrollments, stripeVars, stripeEvents, autoApprove, acked, faults>>

(* Variant: a schema without the unique index on Payment.stripeEventId. *)
LoggedWithoutIndex(o, event) == FALSE

(* Payment.stripeEventId is unique: a second row for an event rolls the    *)
(* transaction back and throws.                                            *)
Logged(o, event) ==
  event # NoEvent /\ \E i \in DOMAIN payments[o] : payments[o][i].event = event

(* The transaction markOrderPaid, applyRefund, applyDisputeOpened and      *)
(* applyDisputeWon share: a status change that applies only from the given *)
(* statuses, with its payment row and its effect on the enrolment.         *)
Apply(w, from, row, access) ==
  LET o == req[w].order IN
  /\ orders[o].status \in from
  /\ ~ Logged(o, req[w].event)
  /\ orders' = [orders EXCEPT ![o] = row]
  /\ payments' = [payments EXCEPT ![o] =
                    Append(@, [status |-> row.status, event |-> req[w].event])]
  /\ enrollments' = [enrollments EXCEPT ![Purchase[o]] = access]
  /\ Goto(w, "finish")

NotApplied(w, from) ==
  /\ orders[req[w].order].status \notin from
  /\ Goto(w, "finish")
  /\ UNCHANGED dbVars

RolledBack(w, from) ==
  /\ orders[req[w].order].status \in from
  /\ Logged(req[w].order, req[w].event)
  /\ Goto(w, "failed")
  /\ UNCHANGED dbVars

Transaction(w, from, row, access) ==
  /\ Apply(w, from, row, access) \/ NotApplied(w, from) \/ RolledBack(w, from)
  /\ UNCHANGED <<stripeVars, stripeEvents, autoApprove, acked, faults>>

MarkPaidRead(w) ==
  /\ At(w, "markPaidRead")
  /\ Goto(w, IF orders[req[w].order].status = "PENDING" THEN "markPaidCommit" ELSE "finish")
  /\ UNCHANGED <<dbVars, stripeVars, stripeEvents, autoApprove, acked, faults>>

PaidRow(w) ==
  [orders[req[w].order] EXCEPT !.status = "PAID", !.intent = @ \/ req[w].intent]

(* Variant: the PENDING check is made only before the transaction. *)
MarkPaidUnconditionally(w) ==
  /\ At(w, "markPaidCommit")
  /\ Transaction(w, OrderStatus, PaidRow(w), "ACTIVE")

MarkPaidCommit(w) ==
  /\ At(w, "markPaidCommit")
  /\ Transaction(w, {"PENDING"}, PaidRow(w), "ACTIVE")

MarkFailedRead(w) ==
  /\ At(w, "markFailedRead")
  /\ Goto(w, IF orders[req[w].order].status = "PENDING" THEN "markFailedCommit" ELSE "finish")
  /\ UNCHANGED <<dbVars, stripeVars, stripeEvents, autoApprove, acked, faults>>

(* markOrderFailed's update has no condition on the status. *)
MarkFailedFrom == OrderStatus

MarkFailedCommit(w) ==
  LET o == req[w].order IN
  /\ At(w, "markFailedCommit")
  /\ Transaction(w, MarkFailedFrom, [orders[o] EXCEPT !.status = "FAILED"],
                 enrollments[Purchase[o]])

(* Variant: charge.refunded is applied to PAID orders only. *)
RefundablePaidOnly(event) ==
  IF event = "lost" THEN {"DISPUTED"} ELSE {"PAID"}

(* The statuses applyRefund is called with: by refundOrder, for            *)
(* charge.refunded, for a dispute lost.                                    *)
RefundableFrom(event) ==
  CASE event = "refunded" -> {"PAID", "DISPUTED"}
    [] event = "lost" -> {"DISPUTED"}
    [] OTHER -> {"PAID"}

(* Variants: a refund that leaves the course open; a dispute won that      *)
(* writes the order's status into the enrolment.                           *)
RefundKeepsAccess(access) == access
RestoredToOrderStatus(access) == IF access = "REVOKED" THEN "PAID" ELSE access

(* enrollment.updateMany changes rows that exist. *)
RefundedAccess(access) == IF access = "NONE" THEN "NONE" ELSE "REFUNDED"
SuspendedAccess(access) == IF access = "ACTIVE" THEN "REVOKED" ELSE access
RestoredAccess(access) == IF access = "REVOKED" THEN "ACTIVE" ELSE access

ApplyRefund(w) ==
  LET o == req[w].order IN
  /\ At(w, "applyRefund")
  /\ Transaction(w, RefundableFrom(req[w].event), [orders[o] EXCEPT !.status = "REFUNDED"],
                 RefundedAccess(enrollments[Purchase[o]]))

ApplyDisputeOpened(w) ==
  LET o == req[w].order IN
  /\ At(w, "applyDisputeOpened")
  /\ Transaction(w, {"PAID"}, [orders[o] EXCEPT !.status = "DISPUTED"],
                 SuspendedAccess(enrollments[Purchase[o]]))

ApplyDisputeWon(w) ==
  LET o == req[w].order IN
  /\ At(w, "applyDisputeWon")
  /\ Transaction(w, {"DISPUTED"}, [orders[o] EXCEPT !.status = "PAID"],
                 RestoredAccess(enrollments[Purchase[o]]))

-----------------------------------------------------------------------------
(* Webhook deliveries: processStripeEvent and its route *)

InHand(o, event) == \E w \in Workers : req[w].order = o /\ req[w].event = event

(* Stripe delivers an event until it gets a 2xx. *)
Deliverable(o, event) ==
  /\ <<o, event>> \notin acked
  /\ Redelivery \/ ~ InHand(o, event)
  /\ \E i \in DOMAIN emitted[o] :
       /\ emitted[o][i] = event
       /\ OrderedDelivery => \A j \in 1..(i - 1) : <<o, emitted[o][j]>> \in acked

(* The first call of handleStripeWebhookEvent for the event's type. *)
FirstStep(event) ==
  CASE event = "completed" -> "readSettings"
    [] event = "expired" -> "markFailedRead"
    [] event = "partRefund" -> "finish"
    [] OTHER -> "findOrder"

ClaimEvent(w, o, event) ==
  /\ IsIdle(w)
  /\ Deliverable(o, event)
  /\ <<o, event>> \notin stripeEvents
  /\ stripeEvents' = stripeEvents \cup {<<o, event>>}
  /\ Begin(w, FirstStep(event), o, event, event = "completed")
  /\ UNCHANGED <<dbVars, stripeVars, autoApprove, acked, faults>>

(* P2002 on the claim: acknowledged as a duplicate. *)
AckDuplicate(w, o, event) ==
  /\ IsIdle(w)
  /\ Deliverable(o, event)
  /\ <<o, event>> \in stripeEvents
  /\ acked' = acked \cup {<<o, event>>}
  /\ UNCHANGED <<dbVars, stripeVars, stripeEvents, autoApprove, req, faults>>

(* findOrderByPaymentIntent: an order whose intent is not recorded is not  *)
(* found, and the event is ignored.                                        *)
FindOrder(w) ==
  LET event == req[w].event IN
  /\ At(w, "findOrder")
  /\ Goto(w, IF ~ orders[req[w].order].intent THEN "finish"
             ELSE CASE event = "disputed" -> "applyDisputeOpened"
                    [] event = "won" -> "applyDisputeWon"
                    [] OTHER -> "applyRefund")
  /\ UNCHANGED <<dbVars, stripeVars, stripeEvents, autoApprove, acked, faults>>

(* The calls after a transaction, and the response. *)
Finish(w) ==
  /\ At(w, "finish")
  /\ acked' = IF req[w].event = NoEvent THEN acked
              ELSE acked \cup {<<req[w].order, req[w].event>>}
  /\ Done(w)
  /\ UNCHANGED <<dbVars, stripeVars, stripeEvents, autoApprove, faults>>

(* Variant: the claim stays when handling throws. *)
KeepClaim(w) ==
  /\ At(w, "failed")
  /\ Done(w)
  /\ UNCHANGED <<dbVars, stripeVars, stripeEvents, autoApprove, acked, faults>>

(* The catch of processStripeEvent: delete the claim, answer 500. *)
ReleaseClaim(w) ==
  /\ At(w, "failed")
  /\ stripeEvents' = stripeEvents \ {<<req[w].order, req[w].event>>}
  /\ Done(w)
  /\ UNCHANGED <<dbVars, stripeVars, autoApprove, acked, faults>>

-----------------------------------------------------------------------------
(* Faults *)

Fault(kind) ==
  /\ kind \in Faults
  /\ faults < MaxFaults
  /\ faults' = faults + 1

(* A call of a request throws before it changes anything. *)
Throw(w) ==
  /\ ~ IsIdle(w) /\ ~ At(w, "failed")
  /\ Fault("throw")
  /\ IF req[w].event = NoEvent THEN Done(w) ELSE Goto(w, "failed")
  /\ UNCHANGED <<dbVars, stripeVars, stripeEvents, autoApprove, acked>>

(* The delete of the claim fails too; .catch(() => {}) swallows it.  This  *)
(* follows a throw or a rollback and needs no bound of its own.            *)
ReleaseClaimFails(w) ==
  /\ At(w, "failed")
  /\ "releaseFails" \in Faults
  /\ Done(w)
  /\ UNCHANGED <<dbVars, stripeVars, stripeEvents, autoApprove, acked, faults>>

(* The process dies, or its answer never reaches the caller. *)
Crash(w) ==
  /\ ~ IsIdle(w)
  /\ Fault("crash")
  /\ Done(w)
  /\ UNCHANGED <<dbVars, stripeVars, stripeEvents, autoApprove, acked>>

-----------------------------------------------------------------------------
(* The outside: the customer, the bank, the Stripe dashboard, the settings *)

(* The customer has the checkout URL once the session id is saved. *)
CustomerPays(o) ==
  /\ stripe[o].session = "OPEN"
  /\ orders[o].sessionId
  /\ stripe' = [stripe EXCEPT ![o].session = "COMPLETED"]
  /\ Emit(o, "completed")
  /\ UNCHANGED <<dbVars, stripeEvents, autoApprove, acked, req, faults>>

SessionExpires(o) ==
  /\ stripe[o].session = "OPEN"
  /\ stripe' = [stripe EXCEPT ![o].session = "EXPIRED"]
  /\ Emit(o, "expired")
  /\ UNCHANGED <<dbVars, stripeEvents, autoApprove, acked, req, faults>>

PartialRefund(o) ==
  /\ stripe[o].session = "COMPLETED"
  /\ stripe[o].refund = "no" /\ stripe[o].dispute = "none"
  /\ stripe' = [stripe EXCEPT ![o].refund = "part"]
  /\ Emit(o, "partRefund")
  /\ UNCHANGED <<dbVars, stripeEvents, autoApprove, acked, req, faults>>

(* A refund is possible while a dispute is an inquiry, not after it is lost. *)
DashboardRefund(o) ==
  /\ stripe[o].session = "COMPLETED"
  /\ stripe[o].refund \in {"no", "part"} /\ stripe[o].dispute # "lost"
  /\ stripe' = [stripe EXCEPT ![o].refund = "full"]
  /\ Emit(o, "refunded")
  /\ UNCHANGED <<dbVars, stripeEvents, autoApprove, acked, req, faults>>

FullyRefunded(o) == stripe[o].refund \in {"full", "byAdmin"}

DisputeOpens(o) ==
  /\ stripe[o].session = "COMPLETED"
  /\ stripe[o].dispute = "none" /\ ~ FullyRefunded(o)
  /\ stripe' = [stripe EXCEPT ![o].dispute = "open"]
  /\ Emit(o, "disputed")
  /\ UNCHANGED <<dbVars, stripeEvents, autoApprove, acked, req, faults>>

DisputeCloses(o, outcome) ==
  /\ stripe[o].dispute = "open"
  /\ outcome = "lost" => ~ FullyRefunded(o)
  /\ stripe' = [stripe EXCEPT ![o].dispute = outcome]
  /\ Emit(o, outcome)
  /\ UNCHANGED <<dbVars, stripeEvents, autoApprove, acked, req, faults>>

SetAutoApprove ==
  /\ autoApprove' \in AutoApproveModes \ {autoApprove}
  /\ UNCHANGED <<dbVars, stripeVars, stripeEvents, acked, req, faults>>

-----------------------------------------------------------------------------

Start(w) ==
  \E o \in Orders :
    \/ StartCheckout(w, o) \/ StartConfirm(w, o) \/ StartApprove(w, o) \/ StartRefund(w, o)
    \/ \E event \in EventTypes : ClaimEvent(w, o, event) \/ AckDuplicate(w, o, event)

Continue(w) ==
  \/ CreateOrder(w) \/ CreateSession(w) \/ CreateSessionFails(w) \/ SaveSession(w)
  \/ RetrieveSession(w) \/ RetrieveSessionGivesUp(w)
  \/ StripeRefund(w) \/ StripeRefundFails(w)
  \/ ReadSettings(w) \/ RecordIntent(w)
  \/ MarkPaidRead(w) \/ MarkPaidCommit(w) \/ MarkFailedRead(w) \/ MarkFailedCommit(w)
  \/ ApplyRefund(w) \/ ApplyDisputeOpened(w) \/ ApplyDisputeWon(w)
  \/ FindOrder(w) \/ Finish(w) \/ ReleaseClaim(w)

Fails(w) == Throw(w) \/ ReleaseClaimFails(w) \/ Crash(w)

Outside ==
  \/ \E o \in Orders :
       \/ CustomerPays(o) \/ SessionExpires(o) \/ PartialRefund(o) \/ DashboardRefund(o)
       \/ DisputeOpens(o) \/ \E outcome \in {"won", "lost"} : DisputeCloses(o, outcome)
  \/ SetAutoApprove

Next == Outside \/ \E w \in Workers : Start(w) \/ Continue(w) \/ Fails(w)

Spec == Init /\ [][Next]_vars

(* A request that has started runs on until it ends (a promise settles),   *)
(* and Stripe keeps delivering an event until it is acknowledged.  Nothing *)
(* is assumed of customers, banks, admins or faults.                       *)
Fairness ==
  /\ \A w \in Workers : WF_vars(Continue(w))
  /\ \A o \in Orders, event \in EventTypes :
       SF_vars(\E w \in Workers : ClaimEvent(w, o, event) \/ AckDuplicate(w, o, event))

FairSpec == Spec /\ Fairness

-----------------------------------------------------------------------------
(* Properties *)

Status(o) == orders[o].status
StatusLog(o) == [i \in DOMAIN payments[o] |-> payments[o][i].status]
DisputedOrders == {o \in Orders : \E i \in DOMAIN payments[o] : payments[o][i].status = "DISPUTED"}

(* The rows implement the promise of OrderLifecycle: whatever the          *)
(* interleaving of webhook, redirect and admin refund, an order is paid    *)
(* once, disputed at most once, never leaves FAILED or REFUNDED, and its   *)
(* course opens and closes with it (markOrderPaid, applyRefund,            *)
(* applyDisputeOpened, applyDisputeWon, markOrderFailed).                  *)
Lifecycle == INSTANCE OrderLifecycle
               WITH status <- [o \in Orders |-> orders[o].status],
                    access <- enrollments,
                    disputed <- DisputedOrders
ImplementsLifecycle == Lifecycle!LifecycleSpec

(* No request is running and Stripe has nothing left to deliver. *)
Settled ==
  /\ \A w \in Workers : IsIdle(w)
  /\ \A o \in Orders : \A i \in DOMAIN emitted[o] : <<o, emitted[o][i]>> \in acked

(* The status an order should have, given what happened at Stripe. *)
Owed(o) ==
  CASE stripe[o].session = "EXPIRED" -> {"FAILED"}
    [] stripe[o].session \in {"NONE", "OPEN"} -> {"NONE", "PENDING"}
    [] stripe[o].session = "COMPLETED" ->
         IF FullyRefunded(o) \/ stripe[o].dispute = "lost" THEN {"REFUNDED"}
         ELSE IF stripe[o].dispute = "open" THEN {"DISPUTED"} ELSE {"PAID"}

(* Once everything is delivered the orders agree with Stripe: the webhook  *)
(* is "the source of truth for finalizing the order" (confirm-checkout     *)
(* route), handlers that throw included, and a refund or dispute made at   *)
(* Stripe reaches the order.                                               *)
AgreesWithStripe ==
  Settled => \A o \in Orders \ FreeOrders : Status(o) \in Owed(o)

(* An order that was paid for is paid in the end, even when its webhook    *)
(* throws and nobody follows the redirect (processStripeEvent releases the *)
(* claim so that Stripe's retry is a second attempt).                      *)
PaymentIsRecorded ==
  \A o \in Orders : stripe[o].session = "COMPLETED" ~> Status(o) \notin {"NONE", "PENDING"}

(* The append-only Payment log tells each order's whole story: its last    *)
(* row is the order's status, it is paid at most once before a dispute and *)
(* once more when that is won, and nothing follows a refund except the     *)
(* unconditional FAILED of markOrderFailed.                                *)
PurchaseLogs == {<<>>, <<"PAID">>, <<"PAID", "REFUNDED">>, <<"PAID", "DISPUTED">>,
                 <<"PAID", "DISPUTED", "REFUNDED">>, <<"PAID", "DISPUTED", "PAID">>,
                 <<"PAID", "DISPUTED", "PAID", "REFUNDED">>}
LogTellsStatus ==
  \A o \in Orders :
    LET log == StatusLog(o) IN
    /\ log \in PurchaseLogs \cup {Append(l, "FAILED") : l \in PurchaseLogs}
    /\ Status(o) \in IF log = <<>> THEN {"NONE", "PENDING"} ELSE {log[Len(log)]}

(* A course is open to a buyer only while an order for it is paid; the     *)
(* exception is an order that markOrderFailed overwrote, whose payment is  *)
(* still in the log.                                                       *)
Holds(o) ==
  \/ Status(o) = "PAID"
  \/ Status(o) = "FAILED" /\ Len(payments[o]) > 1
AccessWasPaid ==
  \A e \in Enrollments :
    enrollments[e] = "ACTIVE" => \E o \in Orders : Purchase[o] = e /\ Holds(o)

(* "never flips a refunded order back to PAID on webhook redelivery"       *)
(* (order-service.test.ts): no step reopens an order that failed or was    *)
(* refunded, whoever is still working on it.                               *)
Closed == {"FAILED", "REFUNDED"}
ClosedStaysClosed ==
  [][\A o \in Orders : Status(o) \in Closed => Status(o)' \in Closed]_vars
=============================================================================
