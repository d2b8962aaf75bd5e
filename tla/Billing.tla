------------------------------ MODULE Billing ------------------------------
(***************************************************************************)
(* Two parts of billing beside the purchase of OrderPayments: one user's   *)
(* subscriptions (src/src/server/services/subscription-service.ts, with    *)
(* the events of stripe-webhook-service.ts) and the redemptions of one     *)
(* coupon (coupon-service.ts, order-service.ts).  The two share no state,  *)
(* so a behaviour is about one of them, desk says which.                   *)
(*                                                                         *)
(* Requests overlap, each going from one awaited call to the next; any may *)
(* die between two of them.  There is one plan, the end of a period is not *)
(* kept, and an order of the coupon buys a course of its own.              *)
(***************************************************************************)
EXTENDS Naturals, Sequences, FiniteSets, Functions

CONSTANTS
  Requests,        \* requests running at once
  MaxMinute,       \* bound on the minutes in which sessions are opened
  MaxEvents,       \* bound on the events of all subscriptions
  Orders,          \* orders made with the coupon
  Users,           \* those who make them
  Buyer,           \* the user of an order
  MaxRedemptions,  \* the coupon's limits; one that orders cannot reach is none
  PerUserLimit,
  NoOrder

ASSUME BillingAssumption ==
  /\ MaxMinute \in Nat \ {0} /\ MaxEvents \in Nat
  /\ IsFiniteSet(Orders) /\ NoOrder \notin Orders /\ Buyer \in [Orders -> Users]
  /\ MaxRedemptions \in Nat /\ PerUserLimit \in Nat

VARIABLES
  desk,        \* what the requests are about
  planActive,  \* SubscriptionPlan.active
  minute,      \* the part of the idempotency key that changes
  sessions,    \* the Checkout session Stripe keeps for each minute's key
  stripe,      \* what Stripe holds for the subscription each session has led to
  emitted,     \* the events Stripe has produced for it, oldest first
  claimed,     \* StripeEvent rows
  rows,        \* Subscription rows
  usable,      \* is the coupon active and between its dates?
  discount,    \* does it take the whole price off?
  orders,      \* Order.status of the orders made with the coupon
  redeemed,    \* CouponRedemption rows, by orderId
  req,         \* what each request is doing
  applied,     \* history: the newest event applied to a row
  overtaken,   \* history: the rows last written with something older than that
  late,        \* history: the checkouts that began when the coupon had reached a limit
  overwritten  \* history: the orders marked as failed after they had been paid

stripeVars == <<sessions, stripe, emitted>>
subscriptionVars == <<planActive, minute, stripeVars, claimed, rows, applied, overtaken>>
couponVars == <<usable, discount, orders, redeemed, late, overwritten>>
vars == <<desk, subscriptionVars, couponVars, req>>

-----------------------------------------------------------------------------
(* Data *)

Subscriptions == 1..MaxMinute   \* a session leads to one subscription at most
Live == {"active", "past_due", "unpaid"}   \* unpaid stands for incomplete and paused too
SessionStatus == {"NONE", "OPEN", "COMPLETED", "EXPIRED"}
EventTypes == {"created", "updated", "deleted"}
Bought == {"PAID", "DISPUTED", "REFUNDED"}
OrderStatus == {"NONE", "PENDING", "FAILED"} \cup Bought

NoSubscription == [status |-> "none", cancels |-> FALSE]
NoRow == [status |-> "NONE", cancelAtPeriodEnd |-> FALSE]
NoRequest == [step |-> "idle", sub |-> 0, event |-> 0, cancels |-> FALSE, order |-> NoOrder]
Steps == {"idle", "readActive", "createSession", "handle", "callStripe", "saveAnswer",
          "countAll", "countMine", "createOrder", "readOrder", "markPaid", "markFailed"}

TypeOK ==
  /\ desk \in {"subscription", "coupon"}
  /\ planActive \in BOOLEAN /\ minute \in Subscriptions
  /\ sessions \in [Subscriptions -> SessionStatus]
  /\ stripe \in [Subscriptions -> [status: Live \cup {"none", "canceled"}, cancels: BOOLEAN]]
  /\ emitted \in [Subscriptions ->
       Seq([type: EventTypes, status: Live \cup {"canceled"}, cancels: BOOLEAN])]
  /\ claimed \subseteq Subscriptions \X Nat
  /\ rows \in [Subscriptions ->
       [status: {"NONE", "ACTIVE", "PAST_DUE", "CANCELLED"}, cancelAtPeriodEnd: BOOLEAN]]
  /\ usable \in BOOLEAN /\ discount \in {"part", "whole"}
  /\ orders \in [Orders -> OrderStatus] /\ redeemed \subseteq Orders
  /\ late \subseteq Orders /\ overwritten \subseteq Orders
  /\ req \in [Requests -> [step: Steps, sub: 0..MaxMinute, event: Nat,
                           cancels: BOOLEAN, order: Orders \cup {NoOrder}]]
  /\ applied \in [Subscriptions -> Nat] /\ overtaken \subseteq Subscriptions

Init ==
  /\ \/ desk = "subscription" /\ discount = "part"
     \/ desk = "coupon" /\ discount \in {"part", "whole"}
  /\ planActive = TRUE /\ minute = 1
  /\ sessions = [s \in Subscriptions |-> "NONE"]
  /\ stripe = [s \in Subscriptions |-> NoSubscription]
  /\ emitted = [s \in Subscriptions |-> <<>>]
  /\ claimed = {}
  /\ rows = [s \in Subscriptions |-> NoRow]
  /\ usable = TRUE
  /\ orders = [o \in Orders |-> "NONE"] /\ redeemed = {} /\ late = {} /\ overwritten = {}
  /\ req = [r \in Requests |-> NoRequest]
  /\ applied = [s \in Subscriptions |-> 0] /\ overtaken = {}

At(r, step) == req[r].step = step
Goto(r, state) == req' = [req EXCEPT ![r] = state]
Step(r, step) == req' = [req EXCEPT ![r].step = step]
Done(r) == Goto(r, NoRequest)

(* A request dies: what it has claimed it does not give back. *)
Die(r) ==
  /\ ~ At(r, "idle")
  /\ Done(r)
  /\ UNCHANGED <<desk, subscriptionVars, couponVars>>

-----------------------------------------------------------------------------
(* Stripe's side of a subscription *)

Emit(s, type) ==
  /\ FoldFunction(LAMBDA events, sum : Len(events) + sum, 0, emitted) < MaxEvents
  /\ emitted' = [emitted EXCEPT
       ![s] = Append(@, [type |-> type, status |-> stripe'[s].status, cancels |-> stripe'[s].cancels])]

StripeOnly == UNCHANGED <<desk, planActive, minute, claimed, rows, applied, overtaken, couponVars, req>>

(* The user pays in an open session, which makes a subscription, or lets it expire. *)
PaySession(s) ==
  /\ sessions[s] = "OPEN"
  /\ sessions' = [sessions EXCEPT ![s] = "COMPLETED"]
  /\ \E status \in {"unpaid", "active"} : stripe' = [stripe EXCEPT ![s].status = status]
  /\ Emit(s, "created")
  /\ StripeOnly

ExpireSession(s) ==
  /\ sessions[s] = "OPEN"
  /\ sessions' = [sessions EXCEPT ![s] = "EXPIRED"]
  /\ UNCHANGED <<stripe, emitted>>
  /\ StripeOnly

(* A renewal fails or succeeds, somebody cancels or resumes it in Stripe's dashboard, *)
(* and in the end it is deleted, at the end of a period or at once.                   *)
StripeUpdates(s, status, cancels) ==
  /\ stripe[s].status \in Live
  /\ stripe[s] # [status |-> status, cancels |-> cancels]
  /\ stripe' = [stripe EXCEPT ![s] = [status |-> status, cancels |-> cancels]]
  /\ Emit(s, "updated")
  /\ UNCHANGED sessions
  /\ StripeOnly

StripeDeletes(s) ==
  /\ stripe[s].status \in Live
  /\ stripe' = [stripe EXCEPT ![s].status = "canceled"]
  /\ Emit(s, "deleted")
  /\ UNCHANGED sessions
  /\ StripeOnly

-----------------------------------------------------------------------------
(* Subscribing *)

SetPlanActive(active) ==
  /\ desk = "subscription" /\ planActive # active
  /\ planActive' = active
  /\ UNCHANGED <<desk, minute, stripeVars, claimed, rows, applied, overtaken, couponVars, req>>

NextMinute ==
  /\ desk = "subscription" /\ minute < MaxMinute
  /\ minute' = minute + 1
  /\ UNCHANGED <<desk, planActive, stripeVars, claimed, rows, applied, overtaken, couponVars, req>>

(* createSubscriptionCheckoutSession reads the plan, *)
ReadPlan(r) ==
  /\ desk = "subscription" /\ At(r, "idle") /\ planActive
  /\ Goto(r, [NoRequest EXCEPT !.step = "readActive"])
  /\ UNCHANGED <<desk, subscriptionVars, couponVars>>

ActiveRows == {s \in Subscriptions : rows[s].status = "ACTIVE"}

(* refuses who has an active subscription, *)
ReadActive(r) ==
  /\ At(r, "readActive")
  /\ IF ActiveRows = {} THEN Step(r, "createSession") ELSE Done(r)
  /\ UNCHANGED <<desk, subscriptionVars, couponVars>>

(* and opens a session, or gets the one of the same minute again, whatever it is by now. *)
CreateSession(r) ==
  /\ At(r, "createSession")
  /\ sessions' = [sessions EXCEPT ![minute] = IF @ = "NONE" THEN "OPEN" ELSE @]
  /\ Done(r)
  /\ UNCHANGED <<desk, planActive, minute, stripe, emitted, claimed, rows, applied, overtaken, couponVars>>

-----------------------------------------------------------------------------
(* The webhook *)

(* processStripeEvent claims the event: Stripe delivers in any order, and a delivery *)
(* of an event that is claimed changes nothing.                                      *)
ClaimEvent(r, s, i) ==
  /\ At(r, "idle") /\ i \in DOMAIN emitted[s] /\ <<s, i>> \notin claimed
  /\ claimed' = claimed \cup {<<s, i>>}
  /\ Goto(r, [NoRequest EXCEPT !.step = "handle", !.sub = s, !.event = i])
  /\ UNCHANGED <<desk, planActive, minute, stripeVars, rows, applied, overtaken, couponVars>>

mapStripeStatus(status) ==
  CASE status = "active" -> "ACTIVE"
    [] status = "past_due" -> "PAST_DUE"
    [] OTHER -> "CANCELLED"

WriteEventAnyway(row, event) ==
  IF event.type # "deleted"
  THEN [status |-> mapStripeStatus(event.status), cancelAtPeriodEnd |-> row.cancelAtPeriodEnd]
  ELSE IF row = NoRow THEN NoRow ELSE [status |-> "CANCELLED", cancelAtPeriodEnd |-> TRUE]

(* upsertSubscriptionFromStripe writes what the event says; markSubscriptionEnded *)
(* ends the row if there is one.                                                  *)
WriteEvent(row, event) ==
  IF event.type # "deleted"
  THEN [status |-> mapStripeStatus(event.status), cancelAtPeriodEnd |-> event.cancels]
  ELSE IF row = NoRow THEN NoRow ELSE [status |-> "CANCELLED", cancelAtPeriodEnd |-> TRUE]

HandleEvent(r) ==
  /\ At(r, "handle")
  /\ LET s == req[r].sub
         i == req[r].event
     IN /\ rows' = [rows EXCEPT ![s] = WriteEvent(@, emitted[s][i])]
        /\ applied' = [applied EXCEPT ![s] = IF i > @ THEN i ELSE @]
        /\ overtaken' = IF i > applied[s] THEN overtaken \ {s} ELSE overtaken \cup {s}
  /\ Done(r)
  /\ UNCHANGED <<desk, planActive, minute, stripeVars, claimed, couponVars>>

(* When the handler throws the claim is released, and Stripe delivers the event again. *)
ReleaseEvent(r) ==
  /\ At(r, "handle")
  /\ claimed' = claimed \ {<<req[r].sub, req[r].event>>}
  /\ Done(r)
  /\ UNCHANGED <<desk, planActive, minute, stripeVars, rows, applied, overtaken, couponVars>>

-----------------------------------------------------------------------------
(* Cancelling *)

(* cancelSubscription takes one active row, the database says which, *)
ReadToCancel(r, s) ==
  /\ At(r, "idle") /\ s \in ActiveRows
  /\ Goto(r, [NoRequest EXCEPT !.step = "callStripe", !.sub = s])
  /\ UNCHANGED <<desk, subscriptionVars, couponVars>>

(* asks Stripe, which refuses one that has been deleted, *)
CancelInStripe(r) ==
  /\ At(r, "callStripe")
  /\ LET s == req[r].sub IN
       IF stripe[s].status \notin Live
       THEN Done(r) /\ UNCHANGED <<stripe, emitted>>
       ELSE /\ stripe' = [stripe EXCEPT ![s].cancels = TRUE]
            /\ IF stripe[s].cancels THEN UNCHANGED emitted ELSE Emit(s, "updated")
            /\ Goto(r, [req[r] EXCEPT !.step = "saveAnswer", !.event = Len(emitted'[s]), !.cancels = TRUE])
  /\ UNCHANGED <<desk, planActive, minute, sessions, claimed, rows, applied, overtaken, couponVars>>

(* and saves its answer in the row, over what later events have written. *)
SaveAnswer(r) ==
  /\ At(r, "saveAnswer")
  /\ LET s == req[r].sub IN
       /\ rows' = [rows EXCEPT ![s].cancelAtPeriodEnd = req[r].cancels]
       /\ overtaken' = IF applied[s] > req[r].event THEN overtaken \cup {s} ELSE overtaken
  /\ Done(r)
  /\ UNCHANGED <<desk, planActive, minute, stripeVars, claimed, applied, couponVars>>

-----------------------------------------------------------------------------
(* The coupon *)

Redeemed(u) == {o \in redeemed : Buyer[o] = u}
AtLimit == Cardinality(redeemed) >= MaxRedemptions
AtUserLimit(u) == Cardinality(Redeemed(u)) >= PerUserLimit

(* An admin (setCouponActive) or a date makes it usable or not. *)
SetUsable(active) ==
  /\ desk = "coupon" /\ usable # active
  /\ usable' = active
  /\ UNCHANGED <<desk, subscriptionVars, discount, orders, redeemed, late, overwritten, req>>

(* createCheckoutSession: validateCoupon reads the coupon, *)
ReadCoupon(r, o) ==
  /\ desk = "coupon" /\ At(r, "idle") /\ usable
  /\ orders[o] = "NONE" /\ \A q \in Requests : req[q].order # o
  /\ Goto(r, [NoRequest EXCEPT !.step = "countAll", !.order = o])
  /\ late' = IF AtLimit \/ AtUserLimit(Buyer[o]) THEN late \cup {o} ELSE late \ {o}
  /\ UNCHANGED <<desk, subscriptionVars, usable, discount, orders, redeemed, overwritten>>

CountRedemptionsOffByOne(r) ==
  /\ At(r, "countAll")
  /\ IF Cardinality(redeemed) > MaxRedemptions THEN Done(r) ELSE Step(r, "countMine")
  /\ UNCHANGED <<desk, subscriptionVars, couponVars>>

(* counts its redemptions, *)
CountRedemptions(r) ==
  /\ At(r, "countAll")
  /\ IF AtLimit THEN Done(r) ELSE Step(r, "countMine")
  /\ UNCHANGED <<desk, subscriptionVars, couponVars>>

(* then the user's; *)
CountUserRedemptions(r) ==
  /\ At(r, "countMine")
  /\ IF AtUserLimit(Buyer[req[r].order]) THEN Done(r) ELSE Step(r, "createOrder")
  /\ UNCHANGED <<desk, subscriptionVars, couponVars>>

(* the order is created, and paid in the same request when nothing is left to pay. *)
CreateOrder(r) ==
  /\ At(r, "createOrder")
  /\ orders' = [orders EXCEPT ![req[r].order] = "PENDING"]
  /\ IF discount = "whole" THEN Step(r, "readOrder") ELSE Done(r)
  /\ UNCHANGED <<desk, subscriptionVars, usable, discount, redeemed, late, overwritten>>

(* The webhook or the redirect marks an order as paid, or an admin, who needs no payment. *)
StartMarkOrderPaid(r, o) ==
  /\ At(r, "idle") /\ orders[o] # "NONE"
  /\ Goto(r, [NoRequest EXCEPT !.step = "readOrder", !.order = o])
  /\ UNCHANGED <<desk, subscriptionVars, couponVars>>

(* markOrderPaid reads the order, *)
ReadOrder(r) ==
  /\ At(r, "readOrder")
  /\ IF orders[req[r].order] = "PENDING" THEN Step(r, "markPaid") ELSE Done(r)
  /\ UNCHANGED <<desk, subscriptionVars, couponVars>>

(* and if it still is pending, marks it and redeems the coupon. *)
MarkOrderPaid(r) ==
  /\ At(r, "markPaid")
  /\ LET o == req[r].order IN
       IF orders[o] # "PENDING"
       THEN UNCHANGED <<orders, redeemed>>
       ELSE /\ orders' = [orders EXCEPT ![o] = "PAID"]
            /\ redeemed' = redeemed \cup {o}
  /\ Done(r)
  /\ UNCHANGED <<desk, subscriptionVars, usable, discount, late, overwritten>>

(* The session of an order expires: markOrderFailed finds the order pending, *)
ReadToFail(r, o) ==
  /\ At(r, "idle") /\ discount = "part" /\ orders[o] = "PENDING"
  /\ Goto(r, [NoRequest EXCEPT !.step = "markFailed", !.order = o])
  /\ UNCHANGED <<desk, subscriptionVars, couponVars>>

(* and marks it as failed, whatever it has become. *)
MarkOrderFailed(r) ==
  /\ At(r, "markFailed")
  /\ LET o == req[r].order IN
       /\ orders' = [orders EXCEPT ![o] = "FAILED"]
       /\ overwritten' = IF orders[o] \in Bought THEN overwritten \cup {o} ELSE overwritten
  /\ Done(r)
  /\ UNCHANGED <<desk, subscriptionVars, usable, discount, redeemed, late>>

(* The payment of an order is disputed, which is won or lost, or it is refunded; *)
(* an order that cost nothing is only refunded.                                  *)
DisputeOrder(o) ==
  /\ orders[o] = "PAID" /\ discount = "part"
  /\ orders' = [orders EXCEPT ![o] = "DISPUTED"]
  /\ UNCHANGED <<desk, subscriptionVars, usable, discount, redeemed, late, overwritten, req>>

WinDispute(o) ==
  /\ orders[o] = "DISPUTED"
  /\ orders' = [orders EXCEPT ![o] = "PAID"]
  /\ UNCHANGED <<desk, subscriptionVars, usable, discount, redeemed, late, overwritten, req>>

RefundOrder(o) ==
  /\ orders[o] \in {"PAID", "DISPUTED"}
  /\ orders' = [orders EXCEPT ![o] = "REFUNDED"]
  /\ UNCHANGED <<desk, subscriptionVars, usable, discount, redeemed, late, overwritten, req>>

Next ==
  \/ \E r \in Requests :
       \/ Die(r)
       \/ ReadPlan(r) \/ ReadActive(r) \/ CreateSession(r)
       \/ HandleEvent(r) \/ ReleaseEvent(r) \/ CancelInStripe(r) \/ SaveAnswer(r)
       \/ CountRedemptions(r) \/ CountUserRedemptions(r) \/ CreateOrder(r)
       \/ ReadOrder(r) \/ MarkOrderPaid(r) \/ MarkOrderFailed(r)
       \/ \E s \in Subscriptions : ReadToCancel(r, s) \/ \E i \in 1..MaxEvents : ClaimEvent(r, s, i)
       \/ \E o \in Orders : ReadCoupon(r, o) \/ StartMarkOrderPaid(r, o) \/ ReadToFail(r, o)
  \/ \E s \in Subscriptions :
       \/ PaySession(s) \/ ExpireSession(s) \/ StripeDeletes(s)
       \/ \E status \in Live, cancels \in BOOLEAN : StripeUpdates(s, status, cancels)
  \/ \E active \in BOOLEAN : SetPlanActive(active) \/ SetUsable(active)
  \/ \E o \in Orders : DisputeOrder(o) \/ WinDispute(o) \/ RefundOrder(o)
  \/ NextMinute

Spec == Init /\ [][Next]_vars

-----------------------------------------------------------------------------
(* Properties *)

(* When the newest event of a subscription has been applied, its row says what    *)
(* Stripe holds, whatever events were lost, failed or came twice, and whatever    *)
(* the user has cancelled meanwhile; but for a row that an older event, or        *)
(* an older answer of Stripe, was written over.  A row has the period's end       *)
(* cancelled once it has ended, and a subscription of which only the end was      *)
(* heard has none.                                                                *)
SubscriptionsAgree ==
  \A s \in Subscriptions :
    Len(emitted[s]) = applied[s] /\ s \notin overtaken =>
      \/ /\ stripe[s].status \in Live
         /\ rows[s] = [status |-> mapStripeStatus(stripe[s].status), cancelAtPeriodEnd |-> stripe[s].cancels]
      \/ stripe[s].status \in {"none", "canceled"} /\ rows[s].status \in {"NONE", "CANCELLED"}

(* An order made with the coupon has redeemed it exactly if it was paid, also when *)
(* it was disputed or refunded since, or was marked as failed by who had read it   *)
(* before (markOrderFailed); and however checkouts overlap, one that began when a  *)
(* limit was reached does not get the discount: what exceeds a limit was checked   *)
(* out before.                                                                     *)
CouponsAreLimited ==
  /\ redeemed = {o \in Orders : orders[o] \in Bought} \cup overwritten
  /\ \A o \in overwritten : orders[o] = "FAILED"
  /\ \A o \in late : orders[o] = "NONE"
=============================================================================
